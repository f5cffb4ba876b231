----------------------------- MODULE Lifecycle -----------------------------
(***************************************************************************)
(* The life of indexer processes on one Postgres schema: ForgeIndexRunner  *)
(* ::run from the database set-up to the graceful shutdown, with the API   *)
(* server task it spawns, started by `forge dev` (build, run, watch,       *)
(* rebuild) and by `forge start` (release build, run once).                *)
(*                                                                         *)
(* The two processes "dev" and "prod" share the database and take no lock. *)
(* A program is a version of the source; its schema is a set of columns of *)
(* one table, some of them indexed.  A schema is identified with its       *)
(* build_id, the SHA-256 of its serialisation.  The backfill is one step   *)
(* here: module Backfill models it.                                        *)
(***************************************************************************)
EXTENDS Naturals, Sequences, FiniteSets

CONSTANTS
  Columns,     \* the sequence of schemas: version v of the source has table
               \* columns Columns[v]
  Indexed,     \* the columns of them that have an index, per version
  Broken,      \* the versions of the source that do not compile
  MaxStarts    \* bound: how often `forge start` is run

Versions == 1 .. Len(Columns)

ASSUME LifecycleAssumption ==
  /\ Len(Columns) \in Nat \ {0} /\ Len(Indexed) = Len(Columns)
  /\ \A v \in Versions : Indexed[v] \subseteq Columns[v]
  /\ Broken \subseteq Versions
  /\ MaxStarts \in Nat

Processes == {"dev", "prod"}
Absent == {}      \* no table, no meta row; otherwise a singleton, see SchemaOf

(***************************************************************************)
(* source is the version on disk and events the number of change           *)
(* notifications the watcher has not handed out; watching is FALSE until   *)
(* FileWatcher::new.  binary is the version in target/debug, 0 for none.   *)
(* loop is where commands::dev::run stands.                                *)
(*                                                                         *)
(* Of each process: pc is where run() stands, app the version it executes, *)
(* step the next statement of the migration, status what check_build_id    *)
(* said, api the state of the server task, caught whether a tokio signal   *)
(* handler is installed (it stays for the life of the process).            *)
(*                                                                         *)
(* main and shadow are the schema of the table and of its _reorg_ table;   *)
(* meta is the stored build id.                                            *)
(*                                                                         *)
(* History: found is the build id stored when the process connected (until *)
(* the check is past), torn says that a migration ended early or ran       *)
(* beside another one, missed that a file was saved between the initial    *)
(* build and the watcher.                                                  *)
(***************************************************************************)
VARIABLES source, events, watching, binary, loop, missed,
          pc, app, step, status, api, caught, starts,
          main, shadow, meta, found, torn

devVars == <<source, events, watching, binary, loop, missed>>
procVars == <<pc, app, step, status, api, caught, starts>>
dbVars == <<main, shadow, meta>>
vars == <<devVars, procVars, dbVars, found, torn>>

SchemaOf(p) == {Columns[app[p]]}
Alive(p) == pc[p] # "down"

Init ==
  /\ source = 1 /\ events = 0 /\ watching = FALSE /\ missed = FALSE /\ loop = "build"
  /\ binary \in {0, 1}
  /\ pc = [p \in Processes |-> "down"]
  /\ app = [p \in Processes |-> 1]
  /\ step = [p \in Processes |-> 1]
  /\ status = [p \in Processes |-> "unknown"]
  /\ api = [p \in Processes |-> "none"]
  /\ caught = [p \in Processes |-> FALSE]
  /\ starts = 0
  /\ main = Absent /\ shadow = Absent
  /\ meta = Absent
  /\ found = [p \in Processes |-> Absent]
  /\ torn = FALSE

----------------------------------------------------------------------------
(* Processes start and end.  A process that ends, by an error of run(), by *)
(* SIGKILL or by an uncaught signal, takes its server task with it.        *)

Launch(p, v) ==
  /\ pc' = [pc EXCEPT ![p] = "schema"]
  /\ app' = [app EXCEPT ![p] = v]
  /\ UNCHANGED <<step, status, api, caught, found, torn>>

Down(p) ==
  /\ pc' = [pc EXCEPT ![p] = "down"]
  /\ api' = [api EXCEPT ![p] = "none"]
  /\ step' = [step EXCEPT ![p] = 1]
  /\ status' = [status EXCEPT ![p] = "unknown"]
  /\ caught' = [caught EXCEPT ![p] = FALSE]
  /\ found' = [found EXCEPT ![p] = Absent]
  /\ torn' = (torn \/ pc[p] = "migrate")
  /\ UNCHANGED app

Goto(p, l) == pc' = [pc EXCEPT ![p] = l]

----------------------------------------------------------------------------
(* DatabaseManager::setup and check_build_id.                              *)

(* Mutant: a lock that waits for the other instance to end.                *)
CreateSchemaWaits(p) ==
  /\ pc[p] = "schema"
  /\ \A q \in Processes \ {p} : pc[q] \in {"down", "schema"}
  /\ Goto(p, "migrate")
  /\ found' = [found EXCEPT ![p] = meta]
  /\ UNCHANGED <<devVars, app, step, status, api, caught, starts, dbVars, torn>>

(* The pool, then CREATE SCHEMA IF NOT EXISTS.  The lock that would follow *)
(* is only a comment: the process goes on whoever else is running.         *)
CreateSchema(p) ==
  /\ pc[p] = "schema"
  /\ Goto(p, "migrate")
  /\ found' = [found EXCEPT ![p] = meta]
  /\ torn' = (torn \/ \E q \in Processes \ {p} : pc[q] = "migrate")
  /\ UNCHANGED <<devVars, app, step, status, api, caught, starts, dbVars>>

Statements == <<"main", "index", "shadow">>

(* Mutant: the table is made anew.                                        *)
CreateTableReplacing(cols, existing) == cols

(* CREATE TABLE IF NOT EXISTS leaves a table that is there as it is.       *)
CreateTable(cols, existing) == IF existing = Absent THEN cols ELSE existing

NextStatement(p) ==
  IF step[p] = Len(Statements)
    THEN Goto(p, "meta") /\ UNCHANGED step
    ELSE step' = [step EXCEPT ![p] = @ + 1] /\ UNCHANGED pc

(* One statement of to_create_sql, in a transaction of its own.            *)
Migrate(p) ==
  /\ pc[p] = "migrate"
  /\ CASE Statements[step[p]] = "main" ->
            main' = CreateTable(SchemaOf(p), main) /\ UNCHANGED shadow
       [] Statements[step[p]] = "index" ->
            Indexed[app[p]] \subseteq UNION main /\ UNCHANGED <<main, shadow>>
       [] Statements[step[p]] = "shadow" ->
            shadow' = CreateTable(SchemaOf(p), shadow) /\ UNCHANGED main
  /\ NextStatement(p)
  /\ UNCHANGED <<devVars, app, status, api, caught, starts, meta, found, torn>>

(* An index on a column that the table made by an older version lacks.     *)
MigrateFails(p) ==
  /\ pc[p] = "migrate" /\ Statements[step[p]] = "index"
  /\ ~(Indexed[app[p]] \subseteq UNION main)
  /\ Down(p)
  /\ UNCHANGED <<devVars, starts, dbVars>>

(* CREATE TABLE IF NOT EXISTS _forge_meta and the upsert of the build id.  *)
UpsertBuildId(p) ==
  /\ pc[p] = "meta"
  /\ Goto(p, "check")
  /\ meta' = SchemaOf(p)
  /\ UNCHANGED <<devVars, app, step, status, api, caught, starts, main, shadow,
                 found, torn>>

BuildIdStatus(p) ==
  CASE meta = Absent -> "New"
    [] meta = SchemaOf(p) -> "Same"
    [] OTHER -> "Changed"

(* The status is logged; run() goes on whatever it is.                     *)
CheckBuildId(p) ==
  /\ pc[p] = "check"
  /\ status' = [status EXCEPT ![p] = BuildIdStatus(p)]
  /\ Goto(p, "wire")
  /\ UNCHANGED <<devVars, app, step, api, caught, starts, dbVars, found, torn>>

----------------------------------------------------------------------------
(* The rest of run(): clients and workers, the API task, the backfill.     *)

(* The cache tables, the clients, the workers and the setup handlers, whose *)
(* errors are only logged; then the server task is spawned.                *)
Wire(p) ==
  /\ pc[p] = "wire"
  /\ Goto(p, "backfill")
  /\ api' = [api EXCEPT ![p] = "starting"]
  /\ found' = [found EXCEPT ![p] = Absent]
  /\ UNCHANGED <<devVars, app, step, status, caught, starts, dbVars, torn>>

PortTaken(p) == \E q \in Processes \ {p} : api[q] = "serving"

(* ApiServer::run binds the port and installs its signal handlers...       *)
ApiServes(p) ==
  /\ api[p] = "starting" /\ ~PortTaken(p)
  /\ api' = [api EXCEPT ![p] = "serving"]
  /\ caught' = [caught EXCEPT ![p] = TRUE]
  /\ UNCHANGED <<devVars, pc, app, step, status, starts, dbVars, found, torn>>

(* ...or cannot bind, which is logged: the indexer goes on without an API. *)
ApiBindFails(p) ==
  /\ api[p] = "starting" /\ PortTaken(p)
  /\ api' = [api EXCEPT ![p] = "stopped"]
  /\ UNCHANGED <<devVars, pc, app, step, status, caught, starts, dbVars, found, torn>>

(* Every chain is indexed, /ready turns 200, the runner installs its own   *)
(* signal handlers and waits.  Nothing follows the chain from here.        *)
BackfillDone(p) ==
  /\ pc[p] = "backfill"
  /\ Goto(p, "wait")
  /\ caught' = [caught EXCEPT ![p] = TRUE]
  /\ UNCHANGED <<devVars, app, step, status, api, starts, dbVars, found, torn>>

(* Any of these steps may fail (the database, the node, a handler) and     *)
(* run() returns the error; a crash looks the same from outside.           *)
Fails(p) ==
  /\ Alive(p)
  /\ Down(p)
  /\ UNCHANGED <<devVars, starts, dbVars>>

(* SIGINT or SIGTERM.  Without a handler it kills the process.  With one   *)
(* the server task drains; the runner hears it only while it waits, so a   *)
(* signal during the backfill stops the API and nothing else.              *)
Signal(p) ==
  /\ Alive(p)
  /\ IF ~caught[p]
       THEN Down(p)
       ELSE /\ pc' = [pc EXCEPT ![p] = IF @ = "wait" THEN "flush" ELSE @]
            /\ api' = [api EXCEPT ![p] = IF @ = "serving" THEN "stopped" ELSE @]
            /\ UNCHANGED <<app, step, status, caught, found, torn>>

(* The final flush, release_lock (pg_advisory_unlock of a lock nobody      *)
(* took), the abort of the server task, and exit.                          *)
ShutDown(p) ==
  /\ pc[p] = "flush"
  /\ Down(p)
  /\ UNCHANGED <<devVars, starts, dbVars>>

----------------------------------------------------------------------------
(* forge start: the release build of the sources, run once and waited for. *)

ForgeStart ==
  /\ starts < MaxStarts /\ ~Alive("prod")
  /\ starts' = starts + 1
  /\ source \notin Broken
  /\ Launch("prod", source)
  /\ UNCHANGED <<devVars, dbVars>>

SignalProd ==
  /\ Signal("prod")
  /\ UNCHANGED <<devVars, starts, dbVars>>

(* forge dev *)

(* A saved file.  Changes before FileWatcher::new are seen by nobody.      *)
Edit ==
  /\ source < Len(Columns)
  /\ source' = source + 1
  /\ events' = IF watching THEN events + 1 ELSE events
  /\ missed' = (missed \/ loop = "start")
  /\ UNCHANGED <<watching, binary, loop, procVars, dbVars, found, torn>>

(* cargo build leaves the previous binary in place when it fails.          *)
Built == IF source \in Broken THEN binary ELSE source

InitialBuild ==
  /\ loop = "build"
  /\ binary' = Built
  /\ loop' = "start"
  /\ UNCHANGED <<source, events, watching, missed, procVars, dbVars, found, torn>>

(* Whatever binary there is gets started, and the watcher is created last. *)
InitialStart ==
  /\ loop = "start"
  /\ loop' = "watch" /\ watching' = TRUE
  /\ IF binary # 0
       THEN Launch("dev", binary)
       ELSE UNCHANGED <<pc, app, step, status, api, caught, found, torn>>
  /\ UNCHANGED <<source, events, binary, missed, starts, dbVars>>

(* wait_for_change returns: the child is killed first (SIGKILL, waited for)*)
Change ==
  /\ loop = "watch" /\ events > 0
  /\ events' = events - 1
  /\ loop' = "rebuild"
  /\ IF Alive("dev")
       THEN Down("dev")
       ELSE UNCHANGED <<pc, app, step, status, api, caught, found, torn>>
  /\ UNCHANGED <<source, watching, binary, missed, starts, dbVars>>

(* ...then the sources are built, and run if that succeeds.                *)
Rebuild ==
  /\ loop = "rebuild"
  /\ binary' = Built
  /\ loop' = IF source \in Broken THEN "watch" ELSE "restart"
  /\ missed' = FALSE
  /\ UNCHANGED <<source, events, watching, procVars, dbVars, found, torn>>

(* Mutant: what came in during the build is drained and taken for built.   *)
RestartDrains ==
  /\ loop = "restart"
  /\ loop' = "watch" /\ events' = 0
  /\ Launch("dev", binary)
  /\ UNCHANGED <<source, watching, binary, missed, starts, dbVars>>

Restart ==
  /\ loop = "restart"
  /\ loop' = "watch"
  /\ Launch("dev", binary)
  /\ UNCHANGED <<source, events, watching, binary, missed, starts, dbVars>>

(* The watcher's channel fails: the loop ends and the child is killed.     *)
WatcherStops ==
  /\ loop = "watch"
  /\ loop' = "stopped"
  /\ IF Alive("dev")
       THEN Down("dev")
       ELSE UNCHANGED <<pc, app, step, status, api, caught, found, torn>>
  /\ UNCHANGED <<source, events, watching, binary, missed, starts, dbVars>>

(* Ctrl+C reaches the whole foreground group: forge dev has no handler and *)
(* ends without dropping its ProcessManager; the child treats it as above. *)
CtrlC ==
  /\ loop # "stopped"
  /\ loop' = "stopped"
  /\ IF Alive("dev")
       THEN Signal("dev")
       ELSE UNCHANGED <<pc, app, step, status, api, caught, found, torn>>
  /\ UNCHANGED <<source, events, watching, binary, missed, starts, dbVars>>

(* A later signal to the child alone.                                      *)
SignalDev ==
  /\ Signal("dev")
  /\ UNCHANGED <<devVars, starts, dbVars>>

----------------------------------------------------------------------------
(* What run() does next by itself.                                         *)
RunnerStep(p) ==
  \/ CreateSchema(p) \/ Migrate(p) \/ MigrateFails(p) \/ UpsertBuildId(p)
  \/ CheckBuildId(p) \/ Wire(p) \/ BackfillDone(p) \/ ShutDown(p)

ApiStep(p) == ApiServes(p) \/ ApiBindFails(p)

DevStep == InitialBuild \/ InitialStart \/ Change \/ Rebuild \/ Restart

Next ==
  \/ \E p \in Processes : RunnerStep(p) \/ ApiStep(p) \/ Fails(p)
  \/ DevStep \/ Edit \/ WatcherStops \/ CtrlC \/ SignalDev
  \/ ForgeStart \/ SignalProd

(* The tasks of a process are scheduled, the backfill ends (run            *)
(* backfill_live) and the dev loop, a thread of its own, runs.  Nobody has *)
(* to edit, signal or start anything.                                      *)
Spec ==
  /\ Init /\ [][Next]_vars
  /\ \A p \in Processes : WF_vars(RunnerStep(p)) /\ WF_vars(ApiStep(p))
  /\ WF_vars(DevStep)

----------------------------------------------------------------------------
(* manager.rs:88 runs the statements one by one, each IF NOT EXISTS, with  *)
(* no transaction and no lock around them.  As long as no migration ended  *)
(* early or ran beside another one, the reorg shadow table has the columns *)
(* of its table, however often the schema changed since: rollback copies   *)
(* rows from one to the other.  And an indexer that got past setup()       *)
(* (runner.rs:97) has both tables with the columns its indexes need,       *)
(* whichever version made them.                                            *)
TablesAgree ==
  /\ shadow = Absent \/ main = shadow \/ torn
  /\ \A p \in Processes :
       pc[p] \in {"meta", "check", "wire", "backfill", "wait", "flush"} =>
         main # Absent /\ shadow # Absent /\ Indexed[app[p]] \subseteq UNION main

(* docs/architecture.md:71: the check "detects schema changes (NotFound,   *)
(* Same, Changed)".  A start that found the id of another schema in the    *)
(* database says so.                                                       *)
ChangeIsReported ==
  \A p \in Processes :
    status[p] # "unknown" /\ found[p] \notin {Absent, SchemaOf(p)} =>
      status[p] = "Changed"

(* dev.rs:50: while `forge dev` watches and no notification is pending,    *)
(* the last program it started is the current source, or that source does  *)
(* not compile, or it was saved before the watcher existed.                *)
DevRunsLatest ==
  loop = "watch" /\ events = 0 =>
    \/ app["dev"] = source
    \/ source \in Broken
    \/ missed

(* runner.rs:57: a started process gets to serve (the backfill is done and *)
(* it waits for a signal) or ends; none of its steps waits for another     *)
(* instance.                                                               *)
StartsOrStops ==
  \A p \in Processes : pc[p] = "schema" ~> pc[p] \in {"wait", "down"}
============================================================================
