--------------------------- MODULE Configuration ---------------------------
(***************************************************************************)
(* From a configuration to a wired indexer: ConfigBuilder::build with      *)
(* validate, ForgeIndex::build, the clients and workers that run() makes   *)
(* of it, and the statements that Schema::to_create_sql makes of a schema. *)
(*                                                                         *)
(* A configuration has sequences of chains [name, id, url], of contracts   *)
(* [name, chains, events] and of tables, and a database.  The url of a     *)
(* chain is empty, malformed (it does not parse) or good; database.url     *)
(* says whether it is not empty, and connecting to the database is not     *)
(* modelled.  events is the set of event names of the ABI, or one of the   *)
(* values NotJson (what validate refuses) and NotAbi (JSON that parse_abi  *)
(* refuses).  Accounts and block intervals are [name, chains] records: the *)
(* indexer validates them and uses them nowhere.                           *)
(*                                                                         *)
(* A table is [name, columns, indexes], a column [name, pk, ref] with ref  *)
(* a pair <<table, column>> or NoRef, an index [columns, unique].  Types   *)
(* of columns are left out: a reference is to a column of its own type.    *)
(* No table has the name of a shadow table, and two index names            *)
(* idx_<table>_<columns> are equal only for one table and the same columns.*)
(***************************************************************************)
EXTENDS Naturals, Sequences, FiniteSets, Functions, Input

NotJson == {"not JSON"}
NotAbi == {"not an ABI"}
NoRef == <<>>

Urls == {"empty", "malformed", "good"}
Chains == [name : STRING, id : Nat, url : Urls]
Contracts == [name : STRING, chains : Seq(STRING), events : SUBSET STRING]
Columns == [name : STRING, pk : BOOLEAN, ref : {NoRef} \cup (STRING \X STRING)]
Indexes == [columns : Seq(STRING), unique : BOOLEAN]
TableDefs == [name : STRING, columns : Seq(Columns), indexes : Seq(Indexes)]
Databases == [kind : {"postgres", "pglite"}, url : BOOLEAN]
Configs ==
  [chains : Seq(Chains), contracts : Seq(Contracts),
   tables : Seq(Seq(TableDefs)), database : Seq(Databases),
   accounts : Seq([name : STRING, chains : Seq(STRING)]),
   intervals : Seq([name : STRING, chains : Seq(STRING)])]

Names(s) == {s[i].name : i \in DOMAIN s}
Repeats(s, Key(_)) == \E i, j \in DOMAIN s : i # j /\ Key(s[i]) = Key(s[j])

(* ConfigBuilder::build: an unset schema has no table, an unset database   *)
(* is a Postgres URL that is empty.  What the builder was not given is <<>>,*)
(* what it was given a sequence of length 1.                               *)
Given(option, default) == IF option = <<>> THEN default ELSE Head(option)

Defaults(c) ==
  [c EXCEPT !.tables = Given(@, <<>>),
            !.database = Given(@, [kind |-> "postgres", url |-> FALSE])]

(* validate: the table checks.                                             *)
ValidTables(tables) ==
  /\ ~Repeats(tables, LAMBDA t : t.name)
  /\ \A i \in DOMAIN tables :
       LET cols == tables[i].columns IN
       /\ Cardinality({k \in DOMAIN cols : cols[k].pk}) = 1
       /\ ~Repeats(cols, LAMBDA c : c.name)

(* Mutant: only the first chain of a contract is looked up.                *)
KnownFirstChain(c, list) ==
  \A i \in DOMAIN list : list[i].chains = <<>> \/ Head(list[i].chains) \in Names(c.chains)

KnownChains(c, list) ==
  \A i \in DOMAIN list : Range(list[i].chains) \subseteq Names(c.chains)

(* validate returns no error.                                              *)
Valid(c) ==
  /\ \A i \in DOMAIN c.chains : c.chains[i].url # "empty"
  /\ ~Repeats(c.chains, LAMBDA ch : ch.id)
  /\ KnownChains(c, c.contracts)
  /\ \A i \in DOMAIN c.contracts : c.contracts[i].events # NotJson
  /\ KnownChains(c, c.accounts)
  /\ KnownChains(c, c.intervals)
  /\ ValidTables(c.tables)
  /\ c.database.kind = "postgres" => c.database.url

Parses(contract) == contract.events \notin {NotJson, NotAbi}

(* ForgeIndex::build: each key, a pair of contract and event, must be an   *)
(* event of some contract of that name.  keys is what on and on_db saw.    *)
KnownEvents(c) ==
  UNION {{<<c.contracts[i].name, e>> : e \in c.contracts[i].events} :
           i \in {j \in DOMAIN c.contracts : Parses(c.contracts[j])}}

Builds(c, keys) == Range(keys) \subseteq KnownEvents(c)

(* chain_id_by_name: a later chain replaces an earlier one of its name.    *)
ChainId(c, name) ==
  c.chains[CHOOSE i \in DOMAIN c.chains :
             /\ c.chains[i].name = name
             /\ \A j \in DOMAIN c.chains : c.chains[j].name = name => j <= i].id

(* build_http_provider, which build_from_config calls, parses the URL.     *)
UrlParses(chain) == chain.url = "good"

(* run() gets as far as the workers.                                       *)
Wires(c) ==
  /\ c.database.kind = "postgres"
  /\ \A i \in DOMAIN c.chains : UrlParses(c.chains[i])
  /\ \A i \in DOMAIN c.contracts :
       /\ Parses(c.contracts[i])
       /\ Range(c.contracts[i].chains) \subseteq Names(c.chains)

(* The keys under which run() inserts workers for the i-th contract.       *)
WorkerKeys(c, i) ==
  {<<ChainId(c, n), c.contracts[i].name>> : n \in Range(c.contracts[i].chains)}

(* workers: a map from (chain id, contract name), so that the last of two  *)
(* contracts with one name replaces the first.                             *)
Workers(c) ==
  [k \in UNION {WorkerKeys(c, i) : i \in DOMAIN c.contracts} |->
     c.contracts[CHOOSE i \in DOMAIN c.contracts :
                   /\ k \in WorkerKeys(c, i)
                   /\ \A j \in DOMAIN c.contracts : k \in WorkerKeys(c, j) => j <= i]]

(* The events that reach a handler: decoded by some worker and looked up   *)
(* under the worker's contract name.                                       *)
Dispatched(c, keys) ==
  {k \in Range(keys) : \E w \in DOMAIN Workers(c) :
                         w[2] = k[1] /\ k[2] \in Workers(c)[w].events}

-----------------------------------------------------------------------------
(* What Postgres answers.                                                  *)

PrimaryKey(t, name) == \E m \in DOMAIN t.columns : t.columns[m].pk /\ t.columns[m].name = name

(* An index on the column alone makes it a key if it is unique, and if it  *)
(* is made: IF NOT EXISTS skips an index whose name an earlier one took.   *)
UniqueIndex(t, name) ==
  \E k \in DOMAIN t.indexes :
    /\ t.indexes[k] = [columns |-> <<name>>, unique |-> TRUE]
    /\ \A j \in 1 .. k - 1 : t.indexes[j].columns # <<name>>

(* A foreign key needs as its target a key of a table made before, where   *)
(* the indexes are made too, or the primary key of its own table, which    *)
(* has no index yet.                                                       *)
RefsFound(made, t) ==
  \A k \in DOMAIN t.columns :
    LET ref == t.columns[k].ref IN
    \/ ref = NoRef
    \/ ref[1] = t.name /\ PrimaryKey(t, ref[2])
    \/ \E u \in made : u.name = ref[1] /\ (PrimaryKey(u, ref[2]) \/ UniqueIndex(u, ref[2]))

(* An index needs columns, and of its table; and the shadow table has the  *)
(* table's columns and two more.                                           *)
IndexesFit(t) ==
  \A k \in DOMAIN t.indexes :
    t.indexes[k].columns # <<>> /\ Range(t.indexes[k].columns) \subseteq Names(t.columns)

ShadowFits(t) == Names(t.columns) \cap {"_operation", "_block_number"} = {}

(* The statements Schema::to_create_sql makes of table t, executed up to   *)
(* the first error: the table, its indexes, its shadow table.              *)
CreateTable(db, t) ==
  LET complete == IndexesFit(t) /\ ShadowFits(t)
  IN  IF ~db.ok \/ ~RefsFound(db.made, t) THEN [db EXCEPT !.ok = FALSE]
      ELSE [ok |-> complete, made |-> db.made \cup {t},
            shadows |-> IF complete THEN db.shadows \cup {t} ELSE db.shadows]

EmptyDatabase == [ok |-> TRUE, made |-> {}, shadows |-> {}]

(* The tables and shadow tables there are after the statements.            *)
Migrated(tables) ==
  LET db[i \in 0 .. Len(tables)] ==
        IF i = 0 THEN EmptyDatabase ELSE CreateTable(db[i - 1], tables[i])
  IN  db[Len(tables)]

-----------------------------------------------------------------------------
(* validation.rs:9 against runner.rs:143: of the configurations that       *)
(* validate accepts run() refuses those on PGlite, those with an ABI or a  *)
(* chain's URL that does not parse (validate looks for neither), and no    *)
(* other.  If no two contracts and no two chains share a name (validate    *)
(* does not ask), there is one worker for each contract on each of its     *)
(* chains, and each handler of a contract that has a chain is reached.     *)
AcceptedIsWired(raw, keys) ==
  LET c == Defaults(raw) IN
  Valid(c) /\ Builds(c, keys) /\ c.database.kind = "postgres"
  /\ (\A i \in DOMAIN c.contracts : Parses(c.contracts[i]))
  /\ (\A i \in DOMAIN c.chains : c.chains[i].url # "malformed")
  => /\ Wires(c)
     /\ ~Repeats(c.contracts, LAMBDA k : k.name) /\ ~Repeats(c.chains, LAMBDA h : h.name)
        => /\ \A i \in DOMAIN c.contracts, h \in DOMAIN c.chains :
                LET key == <<c.chains[h].id, c.contracts[i].name>> IN
                c.chains[h].name \in Range(c.contracts[i].chains)
                => key \in DOMAIN Workers(c) /\ Workers(c)[key] = c.contracts[i]
           /\ \A k \in Range(keys) :
                (\E i \in DOMAIN c.contracts :
                   c.contracts[i].name = k[1] /\ c.contracts[i].chains # <<>>)
                => k \in Dispatched(c, keys)

(* schema.rs:102: a valid schema is created in full on an empty database,  *)
(* each table with its shadow, if and only if its foreign keys point to    *)
(* the primary key or to a uniquely indexed column of an earlier table or  *)
(* to the primary key of the table itself, its indexes name columns of     *)
(* their table, and no column is named as those that the shadow tables     *)
(* add.  validate checks none of these rules.                              *)
MigratesInFull(tables) ==
  ValidTables(tables) =>
    LET db == Migrated(tables)
    IN  (db.ok /\ db.made = Range(tables) /\ db.shadows = db.made)
        <=> \A i \in DOMAIN tables :
              /\ RefsFound({tables[j] : j \in 1 .. i - 1}, tables[i])
              /\ IndexesFit(tables[i]) /\ ShadowFits(tables[i])

(* validation.rs:9, runner.rs:143 and schema.rs:102: accepted              *)
(* configurations are wired, and which valid schemas are created in full.  *)
AcceptedConfigsWork ==
  /\ input.kind = "config" => AcceptedIsWired(input.raw, input.keys)
  /\ input.kind = "schema" => MigratesInFull(input.tables)
============================================================================
