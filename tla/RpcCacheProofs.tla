--------------------------- MODULE RpcCacheProofs ---------------------------
(***************************************************************************)
(* Proofs about the log cache for any windows, logs and clients: it never  *)
(* adds a log, and it loses one only in the three ways HitsComplete names. *)
(***************************************************************************)
EXTENDS RpcCache, TLAPS

\* A row is stored only for a window that it matches, or is the sentinel.
RowInv ==
    /\ \A k \in Keys : rows[k] # Free => k \in Match[rows[k]] \cup {Sentinel}
    /\ \A c \in Clients : left[c] \subseteq Match[win[c]] \cup {Sentinel}
    /\ \A c \in Clients : pc[c] # "put" => left[c] = {}
    /\ \A c \in Clients : pc[c] = "put" => answer[c] = Match[win[c]]

\* Every step keeps the types.
LEMMA TypeStep == TypeOK /\ [Next]_vars => TypeOK'
<1> SUFFICES ASSUME TypeOK, [Next]_vars
             PROVE  TypeOK'
  OBVIOUS
<1> USE CacheAssumption DEF TypeOK
<1>1. ASSUME NEW c \in Clients, NEW w \in Windows, Ask(c, w)
      PROVE  TypeOK'
  BY <1>1 DEF Ask
<1>2. ASSUME NEW c \in Clients, Count(c) \/ LookupFails(c) \/ FetchFails(c) \/ PutDone(c) \/ PutFails(c)
      PROVE  TypeOK'
  BY <1>2 DEF Count, LookupFails, FetchFails, PutDone, PutFails
<1>3. ASSUME NEW c \in Clients, Select(c)
      PROVE  TypeOK'
  BY <1>3 DEF Select, RowsOf, Keys
<1>4. ASSUME NEW c \in Clients, Fetch(c)
      PROVE  TypeOK'
  BY <1>4 DEF Fetch, Keys
<1>5. ASSUME NEW c \in Clients, NEW k \in Keys, PutRow(c, k)
      PROVE  TypeOK'
  BY <1>5 DEF PutRow
<1>6. CASE Crash \/ UNCHANGED vars
  BY <1>6 DEF Crash, vars
<1>7. QED
  BY <1>1, <1>2, <1>3, <1>4, <1>5, <1>6 DEF Next, Step

\* Every step keeps rows where they match, and answers within the node's.
LEMMA SoundStep ==
    TypeOK /\ RowInv /\ AnswersSound /\ [Next]_vars => RowInv' /\ AnswersSound'
<1> SUFFICES ASSUME TypeOK, RowInv, AnswersSound, [Next]_vars
             PROVE  RowInv' /\ AnswersSound'
  OBVIOUS
<1> USE CacheAssumption DEF TypeOK, RowInv, AnswersSound
<1>1. ASSUME NEW c \in Clients, NEW w \in Windows, Ask(c, w)
      PROVE  RowInv' /\ AnswersSound'
  BY <1>1 DEF Ask
<1>2. ASSUME NEW c \in Clients, Count(c) \/ LookupFails(c) \/ FetchFails(c) \/ PutDone(c) \/ PutFails(c)
      PROVE  RowInv' /\ AnswersSound'
  BY <1>2 DEF Count, LookupFails, FetchFails, PutDone, PutFails
<1>3. ASSUME NEW c \in Clients, Select(c)
      PROVE  RowInv' /\ AnswersSound'
  BY <1>3 DEF Select, RowsOf, Keys
<1>4. ASSUME NEW c \in Clients, Fetch(c)
      PROVE  RowInv' /\ AnswersSound'
  BY <1>4 DEF Fetch, Keys
<1>5. ASSUME NEW c \in Clients, NEW k \in Keys, PutRow(c, k)
      PROVE  RowInv' /\ AnswersSound'
  BY <1>5 DEF PutRow
<1>6. CASE Crash \/ UNCHANGED vars
  BY <1>6 DEF Crash, vars
<1>7. QED
  BY <1>1, <1>2, <1>3, <1>4, <1>5, <1>6 DEF Next, Step

\* For any windows, logs, clients and failures, get_logs never returns a log
\* the node would not return.
THEOREM CacheIsSound == Spec => []AnswersSound
<1> DEFINE Inv == TypeOK /\ RowInv /\ AnswersSound
<1>1. Init => Inv
  BY CacheAssumption DEF Init, TypeOK, RowInv, AnswersSound
<1>2. Inv /\ [Next]_vars => Inv'
  BY TypeStep, SoundStep
<1>3. QED
  BY <1>1, <1>2, PTL DEF Spec

-----------------------------------------------------------------------------
(* When nothing is lost. *)

\* A log that only window w has is stored for w or not at all.  What a client
\* has inserted of such a window is there, and a window that has a row, was not
\* torn and is not being put is stored entirely.
FullInv ==
    /\ \A c \in Clients :
          pc[c] = "put" /\ ~Shared(win[c]) =>
              \A l \in Match[win[c]] : l \in left[c] \/ rows[l] = win[c]
    /\ \A w \in Windows :
          ~Shared(w) /\ w \notin torn /\ ~BeingPut(w) /\ RowsOf(w) # {} => Stored(w)
    /\ \A c \in Clients : pc[c] = "select" => RowsOf(win[c]) # {}

\* Every step keeps FullInv.
LEMMA FullStep == TypeOK /\ RowInv /\ FullInv /\ [Next]_vars => FullInv'
<1> SUFFICES ASSUME TypeOK, RowInv, FullInv, [Next]_vars
             PROVE  FullInv'
  OBVIOUS
<1> USE CacheAssumption DEF TypeOK
<1>0. \A w \in Windows : Shared(w)' <=> Shared(w)
  BY DEF Shared
<1>1. ASSUME NEW c \in Clients,
             \/ \E w \in Windows : Ask(c, w)
             \/ Count(c) \/ Select(c) \/ LookupFails(c) \/ FetchFails(c)
      PROVE  FullInv'
  BY <1>0, <1>1
     DEF Ask, Count, Select, LookupFails, FetchFails, FullInv, RowsOf, Stored, BeingPut
<1>2. ASSUME NEW c \in Clients, Fetch(c)
      PROVE  FullInv'
  <2>1. /\ pc[c] = "fetch" /\ pc'[c] = "put" /\ Match[win[c]] \subseteq left'[c]
        /\ \A d \in Clients : d # c => pc'[d] = pc[d] /\ left'[d] = left[d]
        /\ UNCHANGED <<rows, win, torn>>
    BY <1>2 DEF Fetch
  <2>2. QED
    BY <1>0, <2>1 DEF FullInv, RowsOf, Stored, BeingPut
<1>3. ASSUME NEW c \in Clients, NEW k \in Keys, PutRow(c, k)
      PROVE  FullInv'
  <2>1. /\ pc[c] = "put" /\ k \in left[c] /\ left'[c] = left[c] \ {k}
        /\ \A d \in Clients : d # c => left'[d] = left[d]
        /\ rows'[k] = IF rows[k] = Free THEN win[c] ELSE rows[k]
        /\ \A j \in Keys : j # k => rows'[j] = rows[j]
        /\ UNCHANGED <<pc, win, torn>>
    BY <1>3 DEF PutRow
  <2>2. \A w \in Windows : RowsOf(w) \subseteq RowsOf(w)'
    BY <2>1 DEF RowsOf
  <2>3. \A w \in Windows : w # win[c] => RowsOf(w)' = RowsOf(w)
    BY <2>1 DEF RowsOf
  <2>4. ASSUME ~Shared(win[c]), k \in Match[win[c]]
        PROVE  rows'[k] = win[c]
    <3>1. rows[k] = Free \/ rows[k] = win[c]
      BY <2>4 DEF RowInv, Shared, Keys
    <3>2. QED
      BY <2>1, <3>1
  <2>5. ASSUME NEW d \in Clients, pc'[d] = "put", ~Shared(win[d])
        PROVE  \A l \in Match[win[d]] : l \in left'[d] \/ rows'[l] = win[d]
    <3>1. \A l \in Match[win[d]] : l \in Keys /\ (l \in left[d] \/ rows[l] = win[d])
      BY <2>1, <2>5 DEF FullInv, Keys
    <3>2. \A l \in Match[win[d]] : rows[l] = win[d] => rows'[l] = win[d]
      BY <2>1, <3>1
    <3>3. QED
      BY <2>1, <2>4, <2>5, <3>1, <3>2
  <2>6. BeingPut(win[c])' /\ \A w \in Windows : BeingPut(w)' <=> BeingPut(w)
    BY <2>1 DEF BeingPut
  <2>7. QED
    BY <1>0, <2>1, <2>2, <2>3, <2>5, <2>6 DEF FullInv, Stored
<1>4. ASSUME NEW c \in Clients, PutDone(c)
      PROVE  FullInv'
  <2>1. /\ pc[c] = "put" /\ left[c] = {} /\ torn' = torn \ {win[c]}
        /\ pc'[c] = "returned"
        /\ \A d \in Clients : d # c => pc'[d] = pc[d]
        /\ UNCHANGED <<rows, win, left>>
    BY <1>4 DEF PutDone
  <2>2. ~Shared(win[c]) => Stored(win[c])
    BY <2>1 DEF FullInv, Stored, RowsOf, Keys
  <2>3. \A w \in Windows : w # win[c] => (BeingPut(w)' <=> BeingPut(w))
    BY <2>1 DEF BeingPut
  <2>4. QED
    BY <1>0, <2>1, <2>2, <2>3 DEF FullInv, Stored, RowsOf
<1>5. ASSUME NEW c \in Clients, PutFails(c)
      PROVE  FullInv'
  <2>1. /\ torn' = torn \cup {win[c]} /\ pc'[c] = "returned"
        /\ \A d \in Clients : d # c => pc'[d] = pc[d] /\ left'[d] = left[d]
        /\ UNCHANGED <<rows, win>>
    BY <1>5 DEF PutFails
  <2>2. \A w \in Windows : w # win[c] => (BeingPut(w)' <=> BeingPut(w))
    BY <2>1 DEF BeingPut
  <2>3. QED
    BY <1>0, <2>1, <2>2 DEF FullInv, Stored, RowsOf
<1>6. CASE Crash
  <2>1. /\ \A d \in Clients : pc'[d] = "idle"
        /\ torn \subseteq torn'
        /\ \A d \in Clients : left[d] # {} => win[d] \in torn'
        /\ UNCHANGED <<rows, win>>
    BY <1>6 DEF Crash
  <2>2. ASSUME NEW w \in Windows, ~Shared(w), w \notin torn', RowsOf(w) # {}
        PROVE  Stored(w)
    <3>1. CASE BeingPut(w)
      <4>1. PICK d \in Clients : pc[d] = "put" /\ win[d] = w
        BY <3>1 DEF BeingPut
      <4>2. QED
        BY <2>1, <2>2, <4>1 DEF FullInv, Stored, RowsOf, Keys
    <3>2. CASE ~BeingPut(w)
      BY <2>1, <2>2, <3>2 DEF FullInv
    <3>3. QED
      BY <3>1, <3>2
  <2>3. QED
    BY <1>0, <2>1, <2>2 DEF FullInv, Stored, RowsOf
<1>7. CASE UNCHANGED vars
  BY <1>0, <1>7 DEF vars, FullInv, RowsOf, Stored, BeingPut
<1>8. QED
  BY <1>1, <1>2, <1>3, <1>4, <1>5, <1>6, <1>7 DEF Next, Step

\* For any windows, logs, clients and failures, a window that get_logs takes for
\* cached is stored entirely, unless its last put_logs was interrupted, it is
\* being stored, or it shares a log with another window.
THEOREM CachedWindowsAreComplete == Spec => []HitsComplete
<1> DEFINE Inv == TypeOK /\ RowInv /\ AnswersSound /\ FullInv
<1>1. Init => Inv
  <2> SUFFICES ASSUME Init
               PROVE  Inv
    OBVIOUS
  <2>1. TypeOK /\ RowInv /\ AnswersSound
    BY CacheAssumption DEF Init, TypeOK, RowInv, AnswersSound
  <2>2. \A w \in Windows : RowsOf(w) = {}
    BY CacheAssumption DEF Init, RowsOf
  <2>3. QED
    BY <2>1, <2>2 DEF Init, FullInv
<1>2. Inv /\ [Next]_vars => Inv'
  BY TypeStep, SoundStep, FullStep
<1>3. Inv => HitsComplete
  BY DEF TypeOK, FullInv, HitsComplete
<1>4. QED
  BY <1>1, <1>2, <1>3, PTL DEF Spec
=============================================================================
