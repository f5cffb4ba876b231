---------------------------- MODULE MCAlgorithms ----------------------------
(***************************************************************************)
(* The algorithms of the program on all small inputs.  A behaviour is one  *)
(* of: the planner's loop, a client paging through a table beside an       *)
(* indexer, the SQL endpoint under a stream of requests, or a single       *)
(* input, held in `input', of the ABI parser or decoder, of the            *)
(* configuration, of the migration, of the GraphQL schema or of the SQL    *)
(* validator.                                                              *)
(***************************************************************************)
EXTENDS PlannerLoop, Paging, SqlEndpoint, SqlValidator, Configuration, AbiDecoder,
        AbiParser, GraphqlSchema

VARIABLE scenario

allVars == <<vars, pageVars, sqlVars, scenario, input>>

McNumber == [w \in {"5", "2000", "1e9", "max"} |->
               CASE w = "5" -> 5 [] w = "2000" -> 2000 [] w = "1e9" -> 1000000000 [] w = "max" -> 1000]
McQualified == [t \in {"a", "b"} |-> IF t = "a" THEN "s.a" ELSE "s.b"]
McAsJson == [v \in {1, 2, 3, 5} |-> IF v \in {3, 5} THEN 4 ELSE v]
McFilters == {[op |-> "all", val |-> {0}], [op |-> "eqNull", val |-> {0}],
              [op |-> "in", val |-> {}], [op |-> "in", val |-> {1}],
              [op |-> "notIn", val |-> {1}], [op |-> "gte", val |-> {2}]}

SeqsUpTo(S, n) == UNION {[1 .. m -> S] : m \in 0 .. n}

-----------------------------------------------------------------------------
(* Logs: one or two parameters of these types and of some values of each.  *)
Uint(n) == [k |-> "uint", n |-> n]
Sint(n) == [k |-> "int", n |-> n]
Bytes == [k |-> "bytes"]
Array(t) == [k |-> "array", of |-> t]
Fixed(t, n) == [k |-> "farray", of |-> t, n |-> n]
Tuple(ts) == [k |-> "tuple", parts |-> ts]

Typed ==
  {<<Uint(3), v>> : v \in {0, 7}} \cup {<<Uint(6), v>> : v \in {0, 9, 63}}
  \cup {<<Sint(2), v>> : v \in {-2, -1, 1}} \cup {<<Sint(3), v>> : v \in {-4, 3}}
  \cup {<<Sint(6), v>> : v \in {-32, 31}}
  \cup {<<[k |-> "address"], 13>>, <<[k |-> "bool"], TRUE>>, <<[k |-> "bool"], FALSE>>,
        <<[k |-> "fixed", n |-> 1], 2>>}
  \cup {<<Bytes, v>> : v \in {<<>>, <<5>>, <<7, 3>>}}
  \cup {<<Array(Uint(6)), v>> : v \in {<<>>, <<4>>, <<2, 60>>}}
  \cup {<<Array(Tuple(<<Uint(3), Sint(2)>>)), v>> : v \in {<<>>, <<<<1, -1>>, <<6, 1>>>>}}
  \cup {<<Fixed(Uint(6), 2), <<8, 40>>>>,
        <<Fixed(Fixed(Uint(6), 2), 2), <<<<1, 2>>, <<3, 4>>>>>>,
        <<Fixed(Bytes, 2), <<<<5>>, <<>>>>>>,
        <<Array(Bytes), <<<<5>>, <<6, 7>>>>>>,
        <<Tuple(<<Uint(3), [k |-> "address"]>>), <<5, 11>>>>,
        <<Tuple(<<Uint(6), Bytes>>), <<50, <<1, 2>>>>>>,
        <<Tuple(<<Array(Sint(2)), Bytes>>), <<<<-2, 1>>, <<3>>>>>>,
        <<Tuple(<<Bytes, Tuple(<<Bytes>>)>>), <<<<1>>, <<<<2>>>>>>>>}

Params == {<<tv, b>> : tv \in Typed, b \in BOOLEAN}

InputsOf(ps, second) ==
  [i \in DOMAIN ps |-> [name |-> IF i = 1 THEN "x" ELSE second,
                        type |-> ps[i][1][1], indexed |-> ps[i][2]]]

AbiInputs ==
  {[kind |-> "log", inputs |-> InputsOf(<<p>>, "y"), values |-> <<p[1][2]>>] : p \in Params}
  \cup {[kind |-> "log", inputs |-> InputsOf(<<p, q>>, "y"), values |-> <<p[1][2], q[1][2]>>] :
          p \in Params, q \in Params}
  \cup {[kind |-> "log", inputs |-> InputsOf(<<p, p>>, "x"), values |-> <<p[1][2], p[1][2]>>] :
          p \in Params}

-----------------------------------------------------------------------------
(* Configurations: up to two chains and two contracts.                     *)
McChains ==
  SeqsUpTo([name : {"x", "y"}, id : {1, 2}, url : {"good"}], 2)
  \cup {<<[name |-> "x", id |-> 1, url |-> "good"], [name |-> "y", id |-> 2, url |-> u]>> :
          u \in {"empty", "malformed"}}

McContracts ==
  SeqsUpTo([name : {"A", "B"}, chains : {<<>>, <<"x">>, <<"x", "y">>}, events : {{"E"}, {"E", "F"}}], 2)
  \cup {<<[name |-> "A", chains |-> <<"x">>, events |-> e]>> : e \in {NotJson, NotAbi}}

Postgres == [kind |-> "postgres", url |-> TRUE]

ConfigInputs ==
  {[kind |-> "config", keys |-> keys,
    raw |-> [chains |-> ch, contracts |-> co, tables |-> <<>>, database |-> <<Postgres>>,
             accounts |-> <<>>, intervals |-> iv]] :
     ch \in McChains, co \in McContracts,
     iv \in {<<>>, <<[name |-> "hourly", chains |-> <<"y">>]>>},
     keys \in {<<>>, <<<<"A", "E">>, <<"B", "F">>>>, <<<<"A", "F">>, <<"A", "F">>>>}}
  \cup {[kind |-> "config", keys |-> <<>>,
         raw |-> [chains |-> ch, contracts |-> <<>>, tables |-> ts, database |-> db,
                  accounts |-> ac, intervals |-> <<>>]] :
          ch \in McChains, ts \in {<<>>, <<<<>>>>},
          db \in {<<>>, <<Postgres>>, <<[kind |-> "pglite", url |-> FALSE]>>},
          ac \in {<<>>, <<[name |-> "vault", chains |-> <<"y">>]>>}}

McColumns ==
  {<<[name |-> "id", pk |-> TRUE, ref |-> NoRef]>>,
   <<[name |-> "id", pk |-> FALSE, ref |-> NoRef]>>,
   <<[name |-> "id", pk |-> TRUE, ref |-> NoRef], [name |-> "_operation", pk |-> FALSE, ref |-> NoRef]>>}
  \cup {<<[name |-> "id", pk |-> TRUE, ref |-> NoRef], [name |-> n, pk |-> FALSE, ref |-> r]>> :
          n \in {"id", "owner"}, r \in {NoRef, <<"t", "id">>, <<"u", "id">>, <<"t", "owner">>}}

Index(cols, unique) == [columns |-> cols, unique |-> unique]

McIndexes ==
  {<<>>, <<Index(<<>>, FALSE)>>, <<Index(<<"id">>, TRUE), Index(<<"owner">>, TRUE)>>,
   <<Index(<<"owner">>, FALSE), Index(<<"owner">>, TRUE)>>, <<Index(<<"id", "owner">>, TRUE)>>}

McTables == SeqsUpTo([name : {"t", "u"}, columns : McColumns, indexes : McIndexes], 2)

SchemaInputs == {[kind |-> "schema", tables |-> ts] : ts \in McTables}

-----------------------------------------------------------------------------
(* Queries of up to six words, where FROM and JOIN are followed by a table. *)
(* Five words are enough for the less common ones: for LIMIT 1e9, for a    *)
(* LIMIT that a parenthesis follows and for FROM in another spelling.      *)
McWords == {"FROM", "JOIN", "LIMIT", "a", "b", "s.a", "5", "2000", ";"}

McRareWords == {"1e9", ")", "fROM"}

SqlInputs ==
  {[kind |-> "sql", query |-> <<"SELECT">> \o q] :
     q \in {q \in SeqsUpTo(McWords, 5) \cup SeqsUpTo(McWords \cup McRareWords, 4) : NamesTables(q)}}
  \cup {[kind |-> "sql", query |-> q] :
          q \in {<<>>, <<"DROP", "a">>, <<"SELECT", "$$">>, <<"SELECT", "DROP">>}}

-----------------------------------------------------------------------------
(* Types with up to three brackets, and tuples of one or two of them.      *)
Text(b, n, ds, cs) == [base |-> b, bits |-> n, dims |-> ds, comps |-> cs]

McSimple ==
  {Text(bn[1], bn[2], ds, <<>>) :
     bn \in {<<"uint", 0>>, <<"uint", 8>>, <<"int", 0>>, <<"address", 0>>, <<"bool", 0>>,
             <<"string", 0>>, <<"bytes", 0>>, <<"bytes", 32>>, <<"function", 0>>},
     ds \in SeqsUpTo({0, 2, 3}, 3)}

McFew == {x \in McSimple : x.base \in {"uint", "bytes", "function"} /\ Len(x.dims) <= 1}
McTuples(S) == {Text("tuple", 0, ds, cs) : ds \in SeqsUpTo({0, 2}, 2), cs \in SeqsUpTo(S, 2)}

TypeInputs ==
  {[kind |-> "type", text |-> x] :
     x \in McSimple \cup McTuples(McFew)
          \cup McTuples({x \in McFew : x.base = "uint" /\ x.dims = <<>>}
                        \cup {Text("tuple", 0, ds, <<Text(b, 0, <<>>, <<>>)>>) :
                                ds \in SeqsUpTo({0, 2}, 2), b \in {"int", "function"}})}

-----------------------------------------------------------------------------
(* Schemas of up to two tables with names of up to three words, and of     *)
(* three with names of one.                                                *)
McNameWords == {Empty, Word("item"), <<"item", 1>>, Word("page"), Word("order"), Word("by"),
                Word("string"), Word("filter"), Word("query"), Word("info")}

McNames(n) == {t \in SeqsUpTo(McNameWords, n) : ToPascalCase(t) # <<>>}

GraphqlInputs ==
  {[kind |-> "graphql", tables |-> ts] :
     ts \in SeqsUpTo(McNames(2), 2) \cup [1 .. 1 -> McNames(3)] \cup [1 .. 3 -> McNames(1)]}

(* The inputs are of the types for which these algorithms are proved right. *)
ASSUME InputsAreTyped ==
  /\ \A x \in ConfigInputs : x.raw \in Configs /\ x.keys \in Seq(STRING \X STRING)
  /\ \A x \in SchemaInputs : x.tables \in Seq(TableDefs)
  /\ \A x \in SqlInputs : x.query \in Seq(STRING) /\ NamesTables(x.query)
  /\ \A x \in GraphqlInputs : x.tables \in Seq(SnakeNames)

-----------------------------------------------------------------------------
NoInput == [kind |-> "none"]

PlannerIdle ==
  /\ checkpoint = NoCheckpoint /\ startBlock = 1 /\ current = 0 /\ chunk = 1
  /\ pc = "done" /\ from = 0 /\ ranges = <<>> /\ total = 0

PagingIdle ==
  /\ rows = [k \in {} |-> 0]
  /\ query = [where |-> [op |-> "all", val |-> {0}], desc |-> TRUE, limit |-> 1, pkText |-> TRUE]
  /\ cursor = NoCursor /\ got = <<>> /\ reading = FALSE /\ touched = {} /\ writes = 0

AllInit ==
  \/ /\ scenario = "plan" /\ Init /\ PagingIdle /\ SqlInit /\ input = NoInput
  \/ /\ scenario = "page" /\ PlannerIdle /\ PagingInit /\ SqlInit /\ input = NoInput
  \/ /\ scenario = "sql" /\ PlannerIdle /\ PagingIdle /\ SqlInit /\ input = NoInput
  \/ /\ scenario = "input" /\ PlannerIdle /\ PagingIdle /\ SqlInit
     /\ input \in AbiInputs \cup ConfigInputs \cup SchemaInputs \cup SqlInputs
             \cup TypeInputs \cup GraphqlInputs

PlanStep == scenario = "plan" /\ Next /\ UNCHANGED <<pageVars, sqlVars, scenario, input>>
PageStep == scenario = "page" /\ PagingNext /\ UNCHANGED <<vars, sqlVars, scenario, input>>
SqlStep == scenario = "sql" /\ SqlNext /\ UNCHANGED <<vars, pageVars, scenario, input>>

AllNext == PlanStep \/ PageStep \/ SqlStep

AllSpec == AllInit /\ [][AllNext]_allVars

-----------------------------------------------------------------------------
(* decoder.rs:73 and :374: logs of the supported types decode to what was  *)
(* emitted, and a log that was cut short is refused.                       *)
LogsRoundTrip ==
  input.kind = "log" =>
    RoundTrips(input.inputs, input.values) /\ ShortLogRefused(input.inputs, input.values)

(* types.rs:95: a parameter's part of the signature is the compiler's.     *)
SignaturesCanonical == input.kind = "type" => SignatureCanonical(input.text)
=============================================================================
