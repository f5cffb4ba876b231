-------------------------- MODULE LifecycleProofs ---------------------------
(***************************************************************************)
(* Proofs about the life of indexer processes on one schema, for any       *)
(* sequence of source versions and any number of starts: the tables of an  *)
(* untorn schema agree and carry the indexes of whoever got past setup(),  *)
(* and `forge dev` runs the latest source once no notification is pending. *)
(***************************************************************************)
EXTENDS Lifecycle, TLAPS

Points == {"down", "schema", "migrate", "meta", "check", "wire", "backfill", "wait", "flush"}
PastSetup == {"meta", "check", "wire", "backfill", "wait", "flush"}

\* Every variable the arguments are about has its type.
TypeInv ==
  /\ source \in Versions
  /\ events \in Nat
  /\ binary \in {0} \cup Versions
  /\ loop \in {"build", "start", "watch", "rebuild", "restart", "stopped"}
  /\ pc \in [Processes -> Points]
  /\ app \in [Processes -> Versions]
  /\ step \in [Processes -> 1 .. 3]

\* forge dev starts a process only when it has none.
OneChild == loop \in {"build", "start", "rebuild", "restart"} => pc["dev"] = "down"

\* What each process has seen the database to hold by the statement it is at.
\* Nothing is ever dropped, so it stays.
SetupInv ==
  \A p \in Processes :
    /\ pc[p] \in {"down", "schema"} => step[p] = 1
    /\ step[p] > 1 => main # Absent
    /\ step[p] > 2 => Indexed[app[p]] \subseteq UNION main
    /\ pc[p] \in PastSetup => step[p] = 3 /\ shadow # Absent

\* Without a torn migration at most one process is migrating, and a table
\* without its shadow table was made by the migration under way.
ShadowInv ==
  torn \/ /\ shadow = Absent \/ main = shadow
          /\ \A p, q \in Processes : pc[p] = "migrate" /\ pc[q] = "migrate" => p = q
          /\ shadow = Absent /\ main # Absent =>
               \E p \in Processes :
                 pc[p] = "migrate" /\ step[p] > 1 /\ main = SchemaOf(p)

\* What the dev loop knows of the source at each of its points.
DevInv ==
  /\ loop \in {"watch", "rebuild", "restart"} => watching
  /\ loop = "start" => binary = source \/ source \in Broken \/ missed
  /\ loop = "restart" => binary \in Versions /\ (events = 0 => binary = source)
  /\ DevRunsLatest

LifeInv == TypeInv /\ OneChild /\ SetupInv /\ ShadowInv /\ DevInv

-----------------------------------------------------------------------------
(* What the processes do to themselves and to the database. *)

\* Where the processes stand and what they found: the part of the invariant
\* that the dev loop and the editor cannot disturb.
ProcInv ==
  /\ pc \in [Processes -> Points]
  /\ app \in [Processes -> Versions]
  /\ step \in [Processes -> 1 .. 3]
  /\ SetupInv /\ ShadowInv

\* A process that ends leaves the database as it is; a migration it leaves
\* unfinished is torn.
LEMMA DownKeeps ==
    ASSUME ProcInv, NEW p \in Processes, Down(p), UNCHANGED dbVars
    PROVE  ProcInv' /\ pc'[p] = "down" /\ \A q \in Processes : q # p => pc'[q] = pc[q]
<1> USE DEF ProcInv, Down, dbVars
<1>1. /\ pc' \in [Processes -> Points] /\ app' \in [Processes -> Versions]
      /\ step' \in [Processes -> 1 .. 3]
  BY DEF Points
<1>2. /\ pc'[p] = "down" /\ step'[p] = 1 /\ UNCHANGED <<app, main, shadow, meta>>
      /\ \A q \in Processes : q # p => pc'[q] = pc[q] /\ step'[q] = step[q]
  OBVIOUS
<1>3. SetupInv'
  BY <1>1, <1>2 DEF SetupInv, PastSetup
<1>4. ShadowInv'
  BY <1>2 DEF ShadowInv, SchemaOf
<1>5. QED
  BY <1>1, <1>2, <1>3, <1>4

\* A process is started only where there is none, at the first statement.
LEMMA LaunchKeeps ==
    ASSUME ProcInv, NEW p \in Processes, NEW v \in Versions, pc[p] = "down",
           Launch(p, v), UNCHANGED dbVars
    PROVE  ProcInv' /\ app'[p] = v
<1> USE DEF ProcInv, Launch, dbVars
<1>1. /\ pc' \in [Processes -> Points] /\ app' \in [Processes -> Versions]
      /\ step' \in [Processes -> 1 .. 3]
  BY DEF Points
<1>2. /\ pc'[p] = "schema" /\ app'[p] = v /\ UNCHANGED <<step, main, shadow, meta, torn>>
      /\ \A q \in Processes : q # p => pc'[q] = pc[q] /\ app'[q] = app[q]
  OBVIOUS
<1>3. SetupInv'
  BY <1>1, <1>2 DEF SetupInv, PastSetup
<1>4. ShadowInv'
  BY <1>2 DEF ShadowInv, SchemaOf
<1>5. QED
  BY <1>1, <1>2, <1>3, <1>4

\* A process moves on without a statement of the migration.
LEMMA GotoKeeps ==
    ASSUME ProcInv, NEW p \in Processes, NEW l \in PastSetup, pc[p] \in PastSetup,
           pc' \in {[pc EXCEPT ![p] = l], pc},
           UNCHANGED <<app, step, dbVars, torn>>
    PROVE  ProcInv'
<1> USE DEF ProcInv, dbVars
<1>1. pc' \in [Processes -> Points]
  BY DEF Points, PastSetup
<1>2. /\ pc'[p] \in PastSetup /\ \A q \in Processes : q # p => pc'[q] = pc[q]
  OBVIOUS
<1>3. SetupInv'
  BY <1>1, <1>2 DEF SetupInv, PastSetup
<1>4. ShadowInv'
  BY <1>2 DEF ShadowInv, SchemaOf, PastSetup
<1>5. QED
  BY <1>1, <1>3, <1>4

\* Where only the server task of a process moves, or only the dev loop.
LEMMA StayKeeps ==
    ASSUME ProcInv, UNCHANGED <<pc, app, step, status, dbVars, torn>>
    PROVE  ProcInv'
BY DEF ProcInv, SetupInv, ShadowInv, SchemaOf, dbVars

\* CREATE SCHEMA: a process that finds another one migrating tears the schema.
LEMMA CreateSchemaKeeps ==
    ASSUME ProcInv, NEW p \in Processes, CreateSchema(p)
    PROVE  ProcInv'
<1> USE DEF ProcInv, CreateSchema, Goto, dbVars
<1>1. pc' \in [Processes -> Points]
  BY DEF Points
<1>2. /\ pc[p] = "schema" /\ pc'[p] = "migrate" /\ UNCHANGED <<app, step, main, shadow, meta>>
      /\ \A q \in Processes : q # p => pc'[q] = pc[q]
  OBVIOUS
<1>3. SetupInv'
  BY <1>1, <1>2 DEF SetupInv, PastSetup
<1>4. ShadowInv'
  BY <1>2 DEF ShadowInv, SchemaOf
<1>5. QED
  BY <1>1, <1>3, <1>4

\* The three statements of a migration.
LEMMA MigrateCases ==
    ASSUME ProcInv, NEW p \in Processes, Migrate(p)
    PROVE  /\ pc[p] = "migrate" /\ UNCHANGED <<app, status, meta, torn>>
           /\ \/ /\ step[p] = 1 /\ main' = CreateTable(SchemaOf(p), main) /\ shadow' = shadow
                 /\ step' = [step EXCEPT ![p] = 2] /\ pc' = pc
              \/ /\ step[p] = 2 /\ Indexed[app[p]] \subseteq UNION main
                 /\ main' = main /\ shadow' = shadow
                 /\ step' = [step EXCEPT ![p] = 3] /\ pc' = pc
              \/ /\ step[p] = 3 /\ main' = main
                 /\ shadow' = CreateTable(SchemaOf(p), shadow)
                 /\ step' = step /\ pc' = [pc EXCEPT ![p] = "meta"]
<1>1. step[p] \in 1 .. 3 /\ Len(Statements) = 3
  BY DEF ProcInv, Statements
<1>2. CASE step[p] = 1
  <2>1. Statements[step[p]] = "main"
    BY <1>2 DEF Statements
  <2>2. QED
    BY <1>1, <1>2, <2>1 DEF Migrate, NextStatement, Goto
<1>3. CASE step[p] = 2
  <2>1. Statements[step[p]] = "index"
    BY <1>3 DEF Statements
  <2>2. QED
    BY <1>1, <1>3, <2>1 DEF Migrate, NextStatement, Goto
<1>4. CASE step[p] = 3
  <2>1. Statements[step[p]] = "shadow"
    BY <1>4 DEF Statements
  <2>2. QED
    BY <1>1, <1>4, <2>1 DEF Migrate, NextStatement, Goto
<1>5. QED
  BY <1>1, <1>2, <1>3, <1>4

\* A migration never changes a table that is there, and leaves the shadow
\* table as it made the table.
LEMMA MigrateKeeps ==
    ASSUME ProcInv, NEW p \in Processes, Migrate(p)
    PROVE  ProcInv'
<1> USE DEF ProcInv
<1>0. SchemaOf(p) # Absent /\ \A q \in Processes : SchemaOf(q)' = SchemaOf(q)
  BY MigrateCases DEF SchemaOf, Absent
<1>1. pc[p] = "migrate" /\ UNCHANGED <<app, status, meta, torn>>
  BY MigrateCases
<1>2. CASE /\ step[p] = 1 /\ main' = CreateTable(SchemaOf(p), main) /\ shadow' = shadow
           /\ step' = [step EXCEPT ![p] = 2] /\ pc' = pc
  <2>1. /\ step'[p] = 2 /\ \A q \in Processes : q # p => step'[q] = step[q]
        /\ step' \in [Processes -> 1 .. 3]
    BY <1>2
  <2>2. main' # Absent /\ (main # Absent => main' = main)
    BY <1>0, <1>2 DEF CreateTable
  <2>3. SetupInv'
    BY <1>1, <1>2, <2>1, <2>2 DEF SetupInv, PastSetup, Absent
  <2>4. ShadowInv'
    <3> SUFFICES ASSUME ~torn
                 PROVE  ShadowInv'
      BY <1>1 DEF ShadowInv
    <3>1. \A q \in Processes : pc[q] = "migrate" => q = p
      BY <1>1 DEF ShadowInv
    <3>2. CASE main = Absent
      <4>1. main' = SchemaOf(p) /\ shadow = Absent
        BY <1>0, <1>2, <3>2 DEF CreateTable, ShadowInv
      <4>2. QED
        BY <1>0, <1>1, <1>2, <2>1, <3>1, <4>1 DEF ShadowInv
    <3>3. CASE main # Absent
      <4>1. main' = main
        BY <2>2, <3>3
      <4>2. QED
        BY <1>0, <1>1, <1>2, <2>1, <3>1, <3>3, <4>1 DEF ShadowInv
    <3>4. QED
      BY <3>2, <3>3
  <2>5. QED
    BY <1>1, <1>2, <2>1, <2>3, <2>4
<1>3. CASE /\ step[p] = 2 /\ Indexed[app[p]] \subseteq UNION main
           /\ main' = main /\ shadow' = shadow
           /\ step' = [step EXCEPT ![p] = 3] /\ pc' = pc
  <2>1. /\ step'[p] = 3 /\ \A q \in Processes : q # p => step'[q] = step[q]
        /\ step' \in [Processes -> 1 .. 3]
    BY <1>3
  <2>2. SetupInv'
    BY <1>1, <1>3, <2>1 DEF SetupInv, PastSetup
  <2>3. ShadowInv'
    BY <1>0, <1>1, <1>3, <2>1 DEF ShadowInv
  <2>4. QED
    BY <1>1, <1>3, <2>1, <2>2, <2>3
<1>4. CASE /\ step[p] = 3 /\ main' = main
           /\ shadow' = CreateTable(SchemaOf(p), shadow)
           /\ step' = step /\ pc' = [pc EXCEPT ![p] = "meta"]
  <2>1. /\ pc'[p] = "meta" /\ \A q \in Processes : q # p => pc'[q] = pc[q]
        /\ pc' \in [Processes -> Points]
    BY <1>4 DEF Points
  <2>2. shadow' # Absent /\ main # Absent
    BY <1>0, <1>4 DEF CreateTable, SetupInv
  <2>3. SetupInv'
    BY <1>1, <1>4, <2>1, <2>2 DEF SetupInv, PastSetup
  <2>4. ShadowInv'
    <3> SUFFICES ASSUME ~torn
                 PROVE  ShadowInv'
      BY <1>1 DEF ShadowInv
    <3>1. main = shadow'
      BY <1>1, <1>4, <2>2 DEF ShadowInv, CreateTable
    <3>2. QED
      BY <1>1, <1>4, <2>1, <2>2, <3>1 DEF ShadowInv
  <2>5. QED
    BY <1>1, <1>4, <2>1, <2>3, <2>4
<1>5. QED
  BY <1>2, <1>3, <1>4, MigrateCases

\* The upsert of the build id leaves the tables alone.
LEMMA UpsertKeeps ==
    ASSUME ProcInv, NEW p \in Processes, UpsertBuildId(p)
    PROVE  ProcInv'
<1> USE DEF ProcInv, UpsertBuildId, Goto
<1>1. pc' \in [Processes -> Points]
  BY DEF Points
<1>2. /\ pc[p] = "meta" /\ pc'[p] = "check" /\ UNCHANGED <<app, step, main, shadow, torn>>
      /\ \A q \in Processes : q # p => pc'[q] = pc[q]
  OBVIOUS
<1>3. SetupInv'
  BY <1>1, <1>2 DEF SetupInv, PastSetup
<1>4. ShadowInv'
  BY <1>2 DEF ShadowInv, SchemaOf
<1>5. QED
  BY <1>1, <1>3, <1>4

\* A signal ends a process or starts its shutdown.
LEMMA SignalKeeps ==
    ASSUME ProcInv, NEW p \in Processes, Signal(p), UNCHANGED dbVars
    PROVE  /\ ProcInv' /\ app' = app
           /\ \A q \in Processes : pc'[q] = pc[q] \/ q = p
<1>1. CASE ~caught[p]
  BY <1>1, DownKeeps DEF Signal, Down
<1>2. CASE caught[p]
  <2>1. /\ UNCHANGED <<app, step, status, torn>>
        /\ pc' = [pc EXCEPT ![p] = IF pc[p] = "wait" THEN "flush" ELSE pc[p]]
    BY <1>2 DEF Signal
  <2>2. CASE pc[p] = "wait"
    BY <2>1, <2>2, GotoKeeps DEF PastSetup, ProcInv
  <2>3. CASE pc[p] # "wait"
    <3>1. pc' = pc
      BY <2>1, <2>3 DEF ProcInv
    <3>2. QED
      BY <2>1, <3>1, StayKeeps
  <2>4. \A q \in Processes : pc'[q] = pc[q] \/ q = p
    BY <2>1 DEF ProcInv
  <2>5. QED
    BY <2>1, <2>2, <2>3, <2>4
<1>3. QED
  BY <1>1, <1>2

\* The steps of one process.
LEMMA RunnerKeeps ==
    ASSUME ProcInv, NEW p \in Processes, RunnerStep(p) \/ ApiStep(p) \/ Fails(p)
    PROVE  /\ ProcInv' /\ UNCHANGED <<devVars, app>>
           /\ \A q \in Processes : pc[q] = "down" => pc'[q] = "down"
<1>1. CASE CreateSchema(p)
  BY <1>1, CreateSchemaKeeps DEF CreateSchema, Goto, ProcInv
<1>2. CASE Migrate(p)
  <2>1. \A q \in Processes : pc[q] = "down" => pc'[q] = "down"
    BY <1>2, MigrateCases DEF ProcInv
  <2>2. QED
    BY <1>2, <2>1, MigrateKeeps DEF Migrate
<1>3. CASE MigrateFails(p)
  BY <1>3, DownKeeps DEF MigrateFails, Down
<1>4. CASE UpsertBuildId(p)
  BY <1>4, UpsertKeeps DEF UpsertBuildId, Goto, ProcInv
<1>5. CASE CheckBuildId(p)
  <2>1. /\ pc[p] = "check" /\ pc' = [pc EXCEPT ![p] = "wire"]
        /\ UNCHANGED <<app, step, dbVars, torn>>
    BY <1>5 DEF CheckBuildId, Goto, ProcInv
  <2>2. ProcInv'
    BY <2>1, GotoKeeps DEF PastSetup
  <2>3. QED
    BY <1>5, <2>1, <2>2 DEF CheckBuildId, ProcInv
<1>6. CASE Wire(p)
  <2>1. /\ pc[p] = "wire" /\ pc' = [pc EXCEPT ![p] = "backfill"]
        /\ UNCHANGED <<app, step, dbVars, torn>>
    BY <1>6 DEF Wire, Goto, ProcInv
  <2>2. ProcInv'
    BY <2>1, GotoKeeps DEF PastSetup
  <2>3. QED
    BY <1>6, <2>1, <2>2 DEF Wire, ProcInv
<1>7. CASE BackfillDone(p)
  <2>1. /\ pc[p] = "backfill" /\ pc' = [pc EXCEPT ![p] = "wait"]
        /\ UNCHANGED <<app, step, dbVars, torn>>
    BY <1>7 DEF BackfillDone, Goto, ProcInv
  <2>2. ProcInv'
    BY <2>1, GotoKeeps DEF PastSetup
  <2>3. QED
    BY <1>7, <2>1, <2>2 DEF BackfillDone, ProcInv
<1>8. CASE ShutDown(p)
  BY <1>8, DownKeeps DEF ShutDown, Down
<1>9. CASE ApiStep(p)
  BY <1>9, StayKeeps DEF ApiStep, ApiServes, ApiBindFails
<1>10. CASE Fails(p)
  BY <1>10, DownKeeps DEF Fails, Down
<1>11. QED
  BY <1>1, <1>2, <1>3, <1>4, <1>5, <1>6, <1>7, <1>8, <1>9, <1>10 DEF RunnerStep

-----------------------------------------------------------------------------
(* The dev loop and the editor. *)

DevTypes ==
  /\ source \in Versions
  /\ events \in Nat
  /\ binary \in {0} \cup Versions
  /\ loop \in {"build", "start", "watch", "rebuild", "restart", "stopped"}

\* The versions are the numbers up to that of the last schema, and they are
\* not 0, the number of no binary.
LEMMA VersionFacts ==
    /\ \A v \in Versions : v \in Nat /\ v # 0
    /\ \A v \in Versions : v < Len(Columns) => v + 1 \in Versions
    /\ 1 \in Versions
BY LifecycleAssumption DEF Versions

\* Nothing the dev loop looks at moves.
LEMMA DevStays ==
    ASSUME OneChild, DevInv, DevTypes, UNCHANGED <<devVars, app>>,
           pc["dev"] = "down" => pc'["dev"] = "down"
    PROVE  OneChild' /\ DevInv' /\ DevTypes'
BY DEF OneChild, DevInv, DevTypes, DevRunsLatest, devVars

LEMMA LifeStep == LifeInv /\ [Next]_vars => LifeInv'
<1> SUFFICES ASSUME DevTypes, ProcInv, OneChild, DevInv, [Next]_vars
             PROVE  (DevTypes /\ ProcInv /\ OneChild /\ DevInv)'
  BY DEF LifeInv, TypeInv, DevTypes, ProcInv
<1> DEFINE Good == DevTypes /\ ProcInv /\ OneChild /\ DevInv
<1>a. "dev" \in Processes /\ "prod" \in Processes
  BY DEF Processes
<1>1. ASSUME NEW p \in Processes, RunnerStep(p) \/ ApiStep(p) \/ Fails(p)
      PROVE  Good'
  BY <1>a, <1>1, RunnerKeeps, DevStays
<1>2. CASE InitialBuild
  <2>1. ProcInv'
    BY <1>2, StayKeeps DEF InitialBuild, procVars
  <2>2. DevTypes' /\ OneChild' /\ DevInv'
    BY <1>2 DEF InitialBuild, Built, procVars, DevTypes, OneChild, DevInv, DevRunsLatest
  <2>3. QED
    BY <2>1, <2>2
<1>3. CASE InitialStart
  <2>0. pc["dev"] = "down" /\ (binary = source \/ source \in Broken \/ missed)
    BY <1>3 DEF InitialStart, OneChild, DevInv
  <2>1. CASE binary # 0
    <3>1. ProcInv' /\ app'["dev"] = binary
      BY <1>3, <1>a, <2>0, <2>1, LaunchKeeps DEF InitialStart, DevTypes
    <3>2. DevTypes' /\ OneChild' /\ DevInv'
      BY <1>3, <2>0, <3>1 DEF InitialStart, DevTypes, OneChild, DevInv, DevRunsLatest
    <3>3. QED
      BY <3>1, <3>2
  <2>2. CASE binary = 0
    <3>1. ProcInv'
      BY <1>3, <2>2, StayKeeps DEF InitialStart
    <3>2. binary # source
      BY <2>2, VersionFacts DEF DevTypes
    <3>3. DevTypes' /\ OneChild' /\ DevInv'
      BY <1>3, <2>0, <3>2 DEF InitialStart, DevTypes, OneChild, DevInv, DevRunsLatest
    <3>4. QED
      BY <3>1, <3>3
  <2>3. QED
    BY <2>1, <2>2
<1>4. CASE Change
  <2>1. ProcInv' /\ pc'["dev"] = "down"
    BY <1>4, <1>a, DownKeeps, StayKeeps DEF Change, Alive
  <2>2. DevTypes' /\ OneChild' /\ DevInv'
    BY <1>4, <2>1 DEF Change, DevTypes, OneChild, DevInv, DevRunsLatest
  <2>3. QED
    BY <2>1, <2>2
<1>5. CASE Rebuild
  <2>1. ProcInv'
    BY <1>5, StayKeeps DEF Rebuild, procVars
  <2>2. DevTypes' /\ OneChild' /\ DevInv'
    BY <1>5 DEF Rebuild, Built, procVars, DevTypes, OneChild, DevInv, DevRunsLatest
  <2>3. QED
    BY <2>1, <2>2
<1>6. CASE Restart
  <2>1. pc["dev"] = "down" /\ binary \in Versions
    BY <1>6 DEF Restart, OneChild, DevInv
  <2>2. ProcInv' /\ app'["dev"] = binary
    BY <1>6, <1>a, <2>1, LaunchKeeps DEF Restart
  <2>3. DevTypes' /\ OneChild' /\ DevInv'
    BY <1>6, <2>2 DEF Restart, DevTypes, OneChild, DevInv, DevRunsLatest
  <2>4. QED
    BY <2>2, <2>3
<1>7. CASE Edit
  <2>1. ProcInv'
    BY <1>7, StayKeeps DEF Edit, procVars
  <2>2. /\ source' \in Versions /\ events' \in Nat
        /\ watching => events' # 0
    BY <1>7, VersionFacts DEF Edit, DevTypes
  <2>3. DevTypes' /\ OneChild' /\ DevInv'
    BY <1>7, <2>2 DEF Edit, procVars, DevTypes, OneChild, DevInv, DevRunsLatest
  <2>4. QED
    BY <2>1, <2>3
<1>8. CASE WatcherStops
  <2>1. ProcInv'
    BY <1>8, <1>a, DownKeeps, StayKeeps DEF WatcherStops
  <2>2. DevTypes' /\ OneChild' /\ DevInv'
    BY <1>8 DEF WatcherStops, DevTypes, OneChild, DevInv, DevRunsLatest
  <2>3. QED
    BY <2>1, <2>2
<1>9. CASE CtrlC
  <2>1. ProcInv'
    BY <1>9, <1>a, SignalKeeps, StayKeeps DEF CtrlC
  <2>2. DevTypes' /\ OneChild' /\ DevInv'
    BY <1>9 DEF CtrlC, DevTypes, OneChild, DevInv, DevRunsLatest
  <2>3. QED
    BY <2>1, <2>2
<1>10. CASE SignalDev
  <2>1. ProcInv' /\ app' = app
    BY <1>10, <1>a, SignalKeeps DEF SignalDev
  <2>2. pc["dev"] # "down"
    BY <1>10 DEF SignalDev, Signal, Alive
  <2>3. QED
    BY <1>10, <2>1, <2>2, DevStays DEF SignalDev
<1>11. CASE ForgeStart
  <2>1. ProcInv' /\ pc'["dev"] = pc["dev"] /\ app'["dev"] = app["dev"]
    BY <1>11, <1>a, LaunchKeeps DEF ForgeStart, Alive, DevTypes, Launch, ProcInv
  <2>2. DevTypes' /\ OneChild' /\ DevInv'
    BY <1>11, <2>1 DEF ForgeStart, devVars, DevTypes, OneChild, DevInv, DevRunsLatest
  <2>3. QED
    BY <2>1, <2>2
<1>12. CASE SignalProd
  <2>1. ProcInv' /\ app' = app /\ pc'["dev"] = pc["dev"]
    BY <1>12, <1>a, SignalKeeps DEF SignalProd
  <2>2. QED
    BY <1>12, <2>1, DevStays DEF SignalProd
<1>13. CASE UNCHANGED vars
  BY <1>13, StayKeeps, DevStays DEF vars, procVars
<1>14. QED
  BY <1>1, <1>2, <1>3, <1>4, <1>5, <1>6, <1>7, <1>8, <1>9, <1>10, <1>11, <1>12, <1>13
     DEF Next, DevStep

LEMMA LifeInit == Init => LifeInv
BY VersionFacts
   DEF Init, LifeInv, TypeInv, OneChild, SetupInv, ShadowInv, DevInv, DevRunsLatest,
       Points, PastSetup, Processes, Absent

LEMMA LifeInvariance == Spec => []LifeInv
BY LifeInit, LifeStep, PTL DEF Spec

-----------------------------------------------------------------------------
(* The theorems. *)

\* For any schemas and however the processes interleave, crash and are
\* restarted: a shadow table has the columns of its table unless a migration
\* was torn, and whoever got past setup() has both tables and its indexes.
THEOREM TablesAlwaysAgree == Spec => []TablesAgree
<1>1. LifeInv => TablesAgree
  BY DEF LifeInv, ShadowInv, SetupInv, PastSetup, TablesAgree
<1>2. QED
  BY <1>1, LifeInvariance, PTL

\* For any sequence of edits, builds and notifications, `forge dev` runs the
\* latest source that compiles once no notification is pending, except for a
\* change saved before the watcher existed.
THEOREM DevAlwaysRunsLatest == Spec => []DevRunsLatest
<1>1. LifeInv => DevRunsLatest
  BY DEF LifeInv, DevInv
<1>2. QED
  BY <1>1, LifeInvariance, PTL
=============================================================================
