---------------------------- MODULE SqlValidator ----------------------------
(***************************************************************************)
(* validate_sql (forge-index-api, sql/parser.rs): what POST /sql accepts   *)
(* and what it makes of it.                                                *)
(*                                                                         *)
(* A query is a sequence of words.  A word is "SELECT", "FROM", "JOIN",    *)
(* "LIMIT", ";", "$$", a banned keyword, a system schema, a number, a      *)
(* table name or another word.  add_schema_prefix looks for FROM and JOIN  *)
(* in three spellings with one space behind; FROM or JOIN in another       *)
(* spelling, or with other white space behind, is a Loose word, which      *)
(* extract_table_names and Postgres understand.                            *)
(*                                                                         *)
(* The queries here have no comments and no quoted strings or names, their *)
(* parentheses are words of their own, a semicolon stands right behind the *)
(* word before it, a table name follows FROM and JOIN, only one of the     *)
(* three spellings occurs, and no table name is the beginning of another.  *)
(***************************************************************************)
EXTENDS Naturals, Sequences, FiniteSets, Input

CONSTANTS
  MaxLimit,       \* MAX_LIMIT
  MaxWords,       \* MAX_QUERY_LENGTH
  Number,         \* the number words and their values, a function
  Whole,          \* the number words that parse as u64: not 1e9, not 5000.5
  Loose,          \* FROM and JOIN as add_schema_prefix does not find them
  Qualified,      \* function: the table names and their names with the schema
  Banned          \* BANNED_KEYWORDS and BANNED_SCHEMAS

Tables == DOMAIN Qualified
QualifiedNames == {Qualified[t] : t \in Tables}
Keywords == {"SELECT", "FROM", "JOIN", "LIMIT", ";", "$$"}
TableKeywords == {"FROM", "JOIN"} \cup Loose

(* The word "max" is MAX_LIMIT, and no word is of two kinds.               *)
ASSUME SqlAssumption ==
  /\ MaxLimit \in Nat /\ MaxWords \in Nat
  /\ Number \in [DOMAIN Number -> Nat] /\ Whole \subseteq DOMAIN Number
  /\ "max" \in Whole /\ Number["max"] = MaxLimit
  /\ \A t, u \in Tables : Qualified[t] = Qualified[u] => t = u
  /\ Tables \cap QualifiedNames = {} /\ Banned \cap DOMAIN Number = {}
  /\ (Tables \cup QualifiedNames) \cap (Banned \cup DOMAIN Number) = {}
  /\ (Keywords \cup Loose) \cap (Tables \cup QualifiedNames \cup Banned \cup DOMAIN Number) = {}
  /\ Keywords \cap Loose = {}

Occurs(q, w) == \E i \in DOMAIN q : q[i] = w

(* The queries of which this module speaks: tables are named after FROM    *)
(* and JOIN.                                                               *)
NamesTables(q) ==
  \A i \in DOMAIN q : q[i] \in TableKeywords =>
    i < Len(q) /\ q[i + 1] \in Tables \cup QualifiedNames

(* trim_end_matches(';')                                                   *)
TrimEnd(q) ==
  LET ends == {n \in 0 .. Len(q) : \A i \in n + 1 .. Len(q) : q[i] = ";"}
  IN  SubSeq(q, 1, CHOOSE n \in ends : \A m \in ends : n <= m)

(* The checks 1 to 7; the length counts a trailing semicolon, and SELECT;  *)
(* is not SELECT.                                                          *)
Accepted(q) ==
  /\ Len(q) <= MaxWords
  /\ q # <<>> /\ Head(q) = "SELECT" /\ (Len(q) > 1 => q[2] # ";")
  /\ ~Occurs(TrimEnd(q), ";")
  /\ ~Occurs(q, "$$")
  /\ \A w \in Banned : ~Occurs(q, w)

(* extract_table_names: the names after FROM and JOIN without their        *)
(* schema, in order and without repetitions.                               *)
Unqualified(w) ==
  IF w \in QualifiedNames THEN CHOOSE t \in Tables : Qualified[t] = w ELSE w

AfterKeyword(q, i) == i > 1 /\ q[i - 1] \in TableKeywords

NamesTable(q, i) ==
  /\ AfterKeyword(q, i)
  /\ \A j \in 1 .. i - 1 : AfterKeyword(q, j) => Unqualified(q[j]) # Unqualified(q[i])

(* Some name after this keyword carries the schema already.                *)
AlreadyQualified(q, kw) ==
  \E i \in DOMAIN q : i > 1 /\ q[i - 1] = kw /\ q[i] \in QualifiedNames

(* add_schema_prefix for one keyword: every occurrence of the table after  *)
(* it, unless anything after that keyword is qualified.                    *)
PrefixAfter(q, kw, t) ==
  IF AlreadyQualified(q, kw) THEN q
  ELSE [i \in DOMAIN q |-> IF i > 1 /\ q[i - 1] = kw /\ q[i] = t THEN Qualified[t] ELSE q[i]]

AddSchemaPrefix(q, t) == PrefixAfter(PrefixAfter(q, "FROM", t), "JOIN", t)

(* Mutant: a number after LIMIT is left alone.                             *)
EnforceLimitMissing(q) == IF ~Occurs(q, "LIMIT") THEN q \o <<"LIMIT", "max">> ELSE q

(* enforce_limit: only the first LIMIT is looked at, wherever it stands,   *)
(* and only a number that parses as u64.                                   *)
EnforceLimit(q) ==
  IF ~Occurs(q, "LIMIT") THEN q \o <<"LIMIT", "max">>
  ELSE LET i == CHOOSE i \in DOMAIN q : q[i] = "LIMIT" /\ \A j \in 1 .. i - 1 : q[j] # "LIMIT"
       IN  IF i < Len(q) /\ q[i + 1] \in Whole /\ Number[q[i + 1]] > MaxLimit
             THEN [q EXCEPT ![i + 1] = "max"]
             ELSE q

(* The loop over the table names of the query.                             *)
AddPrefixes(q) ==
  LET done[i \in 0 .. Len(q)] ==
        IF i = 0 THEN q
        ELSE IF NamesTable(q, i) THEN AddSchemaPrefix(done[i - 1], Unqualified(q[i]))
        ELSE done[i - 1]
  IN  done[Len(q)]

Sanitised(q) == EnforceLimit(AddPrefixes(TrimEnd(q)))

-----------------------------------------------------------------------------
(* The words after a keyword.                                              *)
Following(q, kw) == {i \in DOMAIN q : i > 1 /\ q[i - 1] = kw}

(* parser.rs:31: sanitising is done once and for all: a query that has     *)
(* been sanitised is accepted again, if it is not too long by now, and is  *)
(* left as it is.                                                          *)
SanitisedIsFixed(q) ==
  Accepted(q) /\ Len(Sanitised(q)) <= MaxWords =>
    Accepted(Sanitised(q)) /\ Sanitised(Sanitised(q)) = Sanitised(q)

(* parser.rs:150: if FROM and JOIN occur at most once each, both as        *)
(* add_schema_prefix finds them, every table they name gets its schema;    *)
(* otherwise the code may leave names alone.                               *)
PlainTablesPrefixed(q) ==
  Accepted(q) /\ (\A w \in Loose : ~Occurs(q, w))
              /\ Cardinality(Following(q, "FROM")) <= 1
              /\ Cardinality(Following(q, "JOIN")) <= 1 =>
    LET s == Sanitised(q) IN
    \A i \in DOMAIN s : AfterKeyword(s, i) => s[i] \notin Tables

(* parser.rs:184: a query without LIMIT, or whose only LIMIT ends it with  *)
(* a number that parses as u64, is sanitised to a query that ends in a     *)
(* LIMIT of at most MAX_LIMIT.  A LIMIT at the end of a query is the outer *)
(* query's, since a subquery's is followed by a parenthesis.  Any other    *)
(* query with a LIMIT may be answered without bound: with one in a         *)
(* subquery, or with LIMIT 1e9, LIMIT ALL or LIMIT 2 * 5000.               *)
PlainIsBounded(q) ==
  LET t == TrimEnd(q) IN
  Accepted(q) /\ (\A i \in DOMAIN t : t[i] = "LIMIT" => i + 1 = Len(t) /\ t[i + 1] \in Whole) =>
    LET s == Sanitised(q)
        n == Len(s)
    IN  /\ n > 1 /\ s[n - 1] = "LIMIT"
        /\ s[n] \in DOMAIN Number /\ Number[s[n]] <= MaxLimit

(* parser.rs:31, :150 and :184: a sanitised query is a fixed point; the    *)
(* tables of a plain query get their schema, and a query whose LIMIT, if   *)
(* any, ends it gets a bounded one.                                        *)
QueriesSanitised ==
  input.kind = "sql" =>
    /\ SanitisedIsFixed(input.query)
    /\ PlainTablesPrefixed(input.query)
    /\ PlainIsBounded(input.query)
=============================================================================
