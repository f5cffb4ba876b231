---------------------------- MODULE GraphqlSchema ----------------------------
(***************************************************************************)
(* The GraphQL schema that GraphqlSchema::build makes of the tables        *)
(* (graphql/schema_gen.rs): which query fields there are and what the      *)
(* types they refer to by name turn out to be.                             *)
(*                                                                         *)
(* A table name is the sequence of the words between its underscores; a    *)
(* word is <<stem, s>> with s the number of letters s at its end, and the  *)
(* word of two adjacent underscores, or of one at an end, is Empty.  Words *)
(* start with a letter, so that the capitals of a type name separate them. *)
(* Table names are in snake case: one with a capital inside a word, such   *)
(* as userPage, gives the type name of another (user_page) and is left out.*)
(***************************************************************************)
EXTENDS Naturals, Sequences, Input

Word(stem) == <<stem, 0>>
Empty == Word("")

SnakeNames == Seq(STRING \X Nat) \ {<<>>}

(* to_pascal_case: underscores vanish.                                     *)
ToPascalCase(name) ==
  LET kept[i \in 0 .. Len(name)] ==
        IF i = 0 THEN <<>>
        ELSE IF name[i] = Empty THEN kept[i - 1] ELSE Append(kept[i - 1], name[i])
  IN  kept[Len(name)]

(* to_camel_case: so too, but an underscore in front leaves a capital.     *)
ToCamelCase(name) ==
  (IF Head(name) = Empty THEN <<Empty>> ELSE <<>>) \o ToPascalCase(name)

(* Mutant: the list has the name of the single record.                     *)
ListNameSingular(name) == ToCamelCase(name)

ListName(name) ==
  LET single == ToCamelCase(name)
  IN  [single EXCEPT ![Len(single)] = <<@[1], @[2] + 1>>]

PageName(name) == Append(ToPascalCase(name), Word("page"))
FilterName(name) == Append(ToPascalCase(name), Word("filter"))
OrderByName(name) == ToPascalCase(name) \o <<Word("order"), Word("by")>>

PageInfo == <<Word("page"), Word("info")>>
OrderDirection == <<Word("order"), Word("direction")>>
Filter(scalar) == <<Word(scalar), Word("filter")>>
SharedNames == {PageInfo, OrderDirection, Filter("string"), Filter("int"), Filter("bool")}
Query == <<Word("query")>>

(* The types of one table, in the order in which they are registered.      *)
TypesOf(t) ==
  <<[name |-> ToPascalCase(t), is |-> <<"object", t>>],
    [name |-> PageName(t), is |-> <<"page", t>>],
    [name |-> FilterName(t), is |-> <<"filter", t>>],
    [name |-> OrderByName(t), is |-> <<"order", t>>]>>

SingleField(t) == [name |-> ToCamelCase(t), table |-> t, type |-> ToPascalCase(t), args |-> {}]

ListField(t) ==
  [name |-> ListName(t), table |-> t, type |-> PageName(t),
   args |-> {FilterName(t), OrderByName(t), OrderDirection}]

Placeholder == [name |-> <<Empty, Word("empty")>>, table |-> <<>>, type |-> <<>>, args |-> {}]

(* register keeps the last type of a name: the shared types come first,    *)
(* then those of the tables in their order, and Query comes last.          *)
Resolved(tables, name) ==
  LET at == {p \in (DOMAIN tables) \X (1 .. 4) : TypesOf(tables[p[1]])[p[2]].name = name}
      last == CHOOSE p \in at : \A q \in at : q[1] < p[1] \/ (q[1] = p[1] /\ q[2] <= p[2])
  IN  CASE name = Query -> <<"query">>
        [] name # Query /\ at # {} -> TypesOf(tables[last[1]])[last[2]].is
        [] name # Query /\ at = {} -> IF name \in SharedNames THEN <<"shared", name>> ELSE <<>>

(* The fields of the query type, two for each table.                       *)
QueryFields(tables) ==
  IF tables = <<>> THEN <<Placeholder>>
  ELSE [p \in (DOMAIN tables) \X {"single", "list"} |->
          IF p[2] = "single" THEN SingleField(tables[p[1]]) ELSE ListField(tables[p[1]])]

(* Object::field accepts a name once.                                      *)
SchemaBuilds(tables) ==
  LET fs == QueryFields(tables)
  IN  \A p, q \in DOMAIN fs : fs[p].name = fs[q].name => p = q

-----------------------------------------------------------------------------
(* Names for which the schema is claimed to be right: words separated by   *)
(* single underscores, none of the words the builder puts behind a name at *)
(* the end, not the name of a scalar, of its filter or of the query type,  *)
(* and not the plural of another table.                                    *)
PlainName(t) ==
  /\ \A i \in DOMAIN t : t[i] # Empty
  /\ t[Len(t)] \notin {Word(w) : w \in {"page", "filter", "by", "info", "direction"}}
  /\ t \notin {<<Word(w)>> : w \in {"query", "string", "int", "bool", "boolean", "float"}}

Plural(t) == [t EXCEPT ![Len(t)] = <<@[1], @[2] + 1>>]

PlainTables(tables) ==
  /\ \A i \in DOMAIN tables : PlainName(tables[i])
  /\ \A i, j \in DOMAIN tables :
       /\ tables[i] = tables[j] => i = j
       /\ tables[i] # Plural(tables[j])

(* schema_gen.rs:91: for such tables the schema builds, and every name in  *)
(* it leads to what it was made for: a list's page holds the records of    *)
(* its own table, its filter and its order have that table's columns, and  *)
(* what all tables share is still shared.                                  *)
NamesResolve(tables) ==
  PlainTables(tables) =>
    /\ SchemaBuilds(tables)
    /\ \A i \in DOMAIN tables :
         LET t == tables[i]
         IN  /\ Resolved(tables, SingleField(t).type) = <<"object", t>>
             /\ Resolved(tables, ListField(t).type) = <<"page", t>>
             /\ {Resolved(tables, a) : a \in ListField(t).args}
                  = {<<"filter", t>>, <<"order", t>>, <<"shared", OrderDirection>>}
    /\ \A name \in SharedNames : Resolved(tables, name) = <<"shared", name>>
    /\ Resolved(tables, Query) = <<"query">>

(* schema_gen.rs:91: the names of the GraphQL schema lead where they should. *)
GraphqlNamesResolve == input.kind = "graphql" => NamesResolve(input.tables)
==============================================================================
