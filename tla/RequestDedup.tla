---------------------------- MODULE RequestDedup ----------------------------
(***************************************************************************)
(* RequestDedup of forge-index-rpc (dedup.rs) for one request key: callers *)
(* of RpcClient that ask for the same thing at the same time share one     *)
(* request through a broadcast channel in the in_flight map, and a map     *)
(* entry that is 30 seconds old is evicted by the next caller.             *)
(*                                                                         *)
(* Requests are numbered in the order they are sent; a request's number    *)
(* also names its channel and its answer.  Callers run on several threads: *)
(* what happens between two uses of the map, or at an await, is a step of  *)
(* its own.                                                                *)
(***************************************************************************)
EXTENDS Integers, FiniteSets

CONSTANTS
    Callers,
    MaxCalls       \* bound: calls in a behaviour

ASSUME DedupAssumption == IsFiniteSet(Callers) /\ MaxCalls \in Nat

None == 0

VARIABLES
    entry,         \* the request whose channel is in in_flight, or None
    sent,          \* number of requests sent so far
    answered,      \* requests whose answer has been broadcast
    closed,        \* requests whose caller has returned and dropped its sender
    old,           \* requests in flight for DEDUP_TIMEOUT
    pc,            \* [Callers -> where its call is]
    chan,          \* [Callers -> the request it performs or waits for]
    inbox,         \* callers whose receiver holds the answer
    calls,         \* number of calls begun
    stale          \* history: [Callers -> requests answered before its call]

vars == <<entry, sent, answered, closed, old, pc, chan, inbox, calls, stale>>

Requests == 1 .. sent

Init ==
    /\ entry = None
    /\ sent = 0
    /\ answered = {}
    /\ closed = {}
    /\ old = {}
    /\ pc = [c \in Callers |-> "idle"]
    /\ chan = [c \in Callers |-> None]
    /\ inbox = {}
    /\ calls = 0
    /\ stale = [c \in Callers |-> {}]

-----------------------------------------------------------------------------

Call(c) ==
    /\ pc[c] \in {"idle", "returned"}
    /\ calls < MaxCalls
    /\ pc' = [pc EXCEPT ![c] = "loop"]
    /\ chan' = [chan EXCEPT ![c] = None]
    /\ inbox' = inbox \ {c}
    /\ calls' = calls + 1
    /\ stale' = [stale EXCEPT ![c] = answered]
    /\ UNCHANGED <<entry, sent, answered, closed, old>>

\* Mutant: the map is looked up and written in two uses of the lock.
StartUnlocked(c) ==
    /\ pc[c] = "loop"
    /\ sent' = sent + 1
    /\ entry' = sent'
    /\ chan' = [chan EXCEPT ![c] = sent']
    /\ pc' = [pc EXCEPT ![c] = "request"]
    /\ UNCHANGED <<answered, closed, old, inbox, calls, stale>>

\* The vacant entry: insert a new channel and send the request.
Start(c) ==
    /\ pc[c] = "loop"
    /\ entry = None
    /\ sent' = sent + 1
    /\ entry' = sent'
    /\ chan' = [chan EXCEPT ![c] = sent']
    /\ pc' = [pc EXCEPT ![c] = "request"]
    /\ UNCHANGED <<answered, closed, old, inbox, calls, stale>>

\* Mutant: the channel keeps its last value for late subscribers.
SubscribeReplay(c) ==
    /\ pc[c] = "loop"
    /\ entry # None /\ entry \notin old
    /\ chan' = [chan EXCEPT ![c] = entry]
    /\ inbox' = IF entry \in answered THEN inbox \cup {c} ELSE inbox
    /\ pc' = [pc EXCEPT ![c] = "wait"]
    /\ UNCHANGED <<entry, sent, answered, closed, old, calls, stale>>

\* A young entry: subscribe and wait.  A receiver gets only what is broadcast
\* after it subscribed.
Subscribe(c) ==
    /\ pc[c] = "loop"
    /\ entry # None /\ entry \notin old
    /\ chan' = [chan EXCEPT ![c] = entry]
    /\ pc' = [pc EXCEPT ![c] = "wait"]
    /\ UNCHANGED <<entry, sent, answered, closed, old, inbox, calls, stale>>

\* An old entry: the lock is released before the entry is removed.
SeeOld(c) ==
    /\ pc[c] = "loop"
    /\ entry # None /\ entry \in old
    /\ pc' = [pc EXCEPT ![c] = "evict"]
    /\ UNCHANGED <<entry, sent, answered, closed, old, chan, inbox, calls, stale>>

\* Whatever is in the map by now is removed.
Evict(c) ==
    /\ pc[c] = "evict"
    /\ entry' = None
    /\ pc' = [pc EXCEPT ![c] = "loop"]
    /\ UNCHANGED <<sent, answered, closed, old, chan, inbox, calls, stale>>

\* The request ends, with a response or an error after its retries, and the
\* result is broadcast to those who wait.
Answer(c) ==
    /\ pc[c] = "request"
    /\ answered' = answered \cup {chan[c]}
    /\ inbox' = inbox \cup {d \in Callers : pc[d] = "wait" /\ chan[d] = chan[c]}
    /\ pc' = [pc EXCEPT ![c] = "remove"]
    /\ UNCHANGED <<entry, sent, closed, old, chan, calls, stale>>

\* Mutant: the entry is left behind.
RemoveForgotten(c) ==
    /\ pc[c] = "remove"
    /\ closed' = closed \cup {chan[c]}
    /\ pc' = [pc EXCEPT ![c] = "returned"]
    /\ UNCHANGED <<entry, sent, answered, old, chan, inbox, calls, stale>>

\* The entry is removed, be it this request's or a later one's, and the call
\* returns its result.
Remove(c) ==
    /\ pc[c] = "remove"
    /\ entry' = None
    /\ closed' = closed \cup {chan[c]}
    /\ pc' = [pc EXCEPT ![c] = "returned"]
    /\ UNCHANGED <<sent, answered, old, chan, inbox, calls, stale>>

\* recv returns the broadcast result.
Receive(c) ==
    /\ pc[c] = "wait"
    /\ c \in inbox
    /\ pc' = [pc EXCEPT ![c] = "returned"]
    /\ UNCHANGED <<entry, sent, answered, closed, old, chan, inbox, calls, stale>>

\* Mutant: the error of recv is taken for a spurious wake-up.
ChannelClosedWaits(c) ==
    /\ pc[c] = "wait"
    /\ c \notin inbox
    /\ chan[c] \in closed /\ entry # chan[c]
    /\ UNCHANGED vars

\* recv fails once both senders, the caller's and the map's, are dropped; the
\* call starts over.
ChannelClosed(c) ==
    /\ pc[c] = "wait"
    /\ c \notin inbox
    /\ chan[c] \in closed /\ entry # chan[c]
    /\ pc' = [pc EXCEPT ![c] = "loop"]
    /\ chan' = [chan EXCEPT ![c] = None]
    /\ UNCHANGED <<entry, sent, answered, closed, old, inbox, calls, stale>>

\* Requests rs have been in flight for 30 seconds.
Age(rs) ==
    /\ rs \cap closed = {}
    /\ old' = old \cup rs
    /\ UNCHANGED <<entry, sent, answered, closed, pc, chan, inbox, calls, stale>>

\* The steps of a call once it is begun.
Step(c) ==
    \/ Start(c) \/ Subscribe(c) \/ SeeOld(c) \/ Evict(c)
    \/ Answer(c) \/ Remove(c) \/ Receive(c) \/ ChannelClosed(c)

Next ==
    \/ \E c \in Callers : Call(c) \/ Step(c)
    \/ \E rs \in SUBSET Requests : Age(rs)

Spec == Init /\ [][Next]_vars

-----------------------------------------------------------------------------
(* Properties. *)

\* Every variable has its type.
TypeOK ==
    /\ sent \in Nat
    /\ entry \in Requests \cup {None}
    /\ answered \subseteq Requests
    /\ closed \subseteq answered
    /\ old \subseteq Requests
    /\ pc \in [Callers -> {"idle", "loop", "request", "evict", "remove", "wait", "returned"}]
    /\ chan \in [Callers -> Requests \cup {None}]
    /\ inbox \subseteq Callers
    /\ calls \in 0 .. MaxCalls
    /\ stale \in [Callers -> SUBSET Requests]

InFlight == Requests \ closed

\* The promise of RequestDedup: as long as no request has been in flight for 30
\* seconds, there is never more than one for a key, in whatever order callers
\* subscribe, receive, retry and remove.
OneRequest == old = {} => \A r, s \in InFlight : r = s

\* A call is answered, and with something the node said while the call was in
\* progress: never by an answer that was broadcast before it began, not even
\* when it subscribes between the broadcast and the removal of the entry.
AnswerIsCurrent ==
    \A c \in Callers :
        pc[c] = "returned" => chan[c] \in answered /\ chan[c] \notin stale[c]

\* The map never holds a dead request: the caller of the request in the map is
\* still at it.  A new caller would otherwise wait for nobody.
EntryIsAlive ==
    entry # None =>
        \E c \in Callers : pc[c] \in {"request", "remove"} /\ chan[c] = entry
=============================================================================
