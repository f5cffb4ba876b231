--------------------------- MODULE RealtimeProofs ---------------------------
(***************************************************************************)
(* Proofs about following the head of a chain, for any number of contracts *)
(* and reorganisations and any length of the window: a block of the        *)
(* followed chain is never taken for a fork, a decided fork leaves no      *)
(* orphaned hash in a window without holes, and what the window holds was  *)
(* indexed.                                                                *)
(*                                                                         *)
(* The argument rests on the order of announcements.  A hash that is       *)
(* orphaned stays so, because a reorganisation opens a new branch and the  *)
(* chain never gets shorter.  When a block is announced, its parent is     *)
(* canonical, so any other hash of the parent's number announced before is *)
(* orphaned from then on.                                                  *)
(***************************************************************************)
EXTENDS Realtime, WellFoundedInduction, SequenceTheorems, TLAPS

-----------------------------------------------------------------------------
(* Chains, as values: each of these is about one canonical chain ch. *)

\* A chain is numbered from 0, its branches in the order of their opening.
ChainOk(ch) ==
    /\ \E t \in Numbers : DOMAIN ch = 0..t
    /\ \A n \in DOMAIN ch : ch[n] \in 0..MaxBranch
    /\ \A m, n \in DOMAIN ch : m <= n => ch[m] <= ch[n]

\* Orphaned, of chain ch.
Lost(ch, h) == h[1] \notin DOMAIN ch \/ h # <<h[1], ch[h[1]]>>

\* A hash that is or was canonical: its number and its branch are taken.
Known(ch, h) ==
    h \in Hashes /\ h[1] \in DOMAIN ch /\ \E n \in DOMAIN ch : h[2] <= ch[n]

Headers == [number : Numbers, hash : Hashes, parent : Hashes \cup {None}]

\* A block as it was announced: if it is still canonical so is its parent.
HeaderOk(ch, b) ==
    /\ b \in Headers
    /\ Known(ch, b.hash) /\ b.hash[1] = b.number
    /\ b.number # 0 =>
         /\ Known(ch, b.parent) /\ b.parent[1] = b.number - 1
         /\ Lost(ch, b.parent) => Lost(ch, b.hash)

\* Hash h was announced before block b: if it is of the same number, or of the
\* number before, it is b's own or its parent's, or it is orphaned.
Earlier(ch, h, b) ==
    /\ h[1] = b.number => h = b.hash \/ Lost(ch, h)
    /\ b.number # 0 /\ h[1] = b.number - 1 => h = b.parent \/ Lost(ch, h)

Entries == Numbers \X Hashes

\* A pair of the window.
EntryOk(ch, v) == v \in Entries /\ Known(ch, v[2]) /\ v[2][1] = v[1]

\* Entry v came into the window before entry w.
Followed(ch, v, w) ==
    /\ v[1] = w[1] => v[2] = w[2] \/ Lost(ch, v[2])
    /\ v[1] + 1 = w[1] => (Lost(ch, v[2]) => Lost(ch, w[2]))

\* The node's chain goes from old to new: it keeps its blocks below fork and
\* puts a branch there has never been on the others.
Grows(old, new) ==
    \E fork \in Nat :
        /\ DOMAIN old \subseteq DOMAIN new
        /\ \A n \in DOMAIN old : n < fork => new[n] = old[n]
        /\ \A n \in DOMAIN old : n >= fork => \A m \in DOMAIN old : old[m] < new[n]
        /\ \A m \in DOMAIN old : \E n \in DOMAIN new : old[m] <= new[n]

-----------------------------------------------------------------------------
(* The inductive invariant. *)

\* The announcements not yet received come after one another and after all
\* the window holds.
HeadsInv ==
    /\ heads \in Seq(Headers)
    /\ \A i \in 1..Len(heads) : HeaderOk(chain, heads[i])
    /\ \A i, j \in 1..Len(heads) : i < j => Earlier(chain, heads[i].hash, heads[j])
    /\ \A i \in 1..Len(window), j \in 1..Len(heads) : Earlier(chain, window[i][2], heads[j])

WindowInv ==
    /\ window \in Seq(Entries)
    /\ \A i \in 1..Len(window) : EntryOk(chain, window[i])
    /\ \A i, j \in 1..Len(window) : i < j => Followed(chain, window[i], window[j])

\* Where the search for the fork point stands.
WalkInv ==
    pc = "walk" =>
        /\ HeaderOk(chain, block) /\ block.number # 0
        /\ GetHash(window, block.number - 1) # None
        /\ Lost(chain, GetHash(window, block.number - 1))
        /\ cursor \in Nat /\ cursor <= block.number - 1
        /\ cursor = block.number - 1 \/ GetHash(window, cursor + 1) # None

\* Contract c's logs of block number n are indexed, or their loss was logged.
Done(c, n) ==
    \/ <<c, n>> \in missed
    \/ \E h \in Hashes : h[1] = n /\ <<c, h>> \in indexed

\* Contract c's logs of block number n are still to be fetched or applied.
Underway(c, n) ==
    /\ n = block.number
    /\ c \in todo \/ \E h \in Hashes : h[1] = n /\ <<c, h>> \in events

IndexInv ==
    /\ pc \in {"connect", "wait", "walk", "rollback"} =>
         \A i \in 1..Len(window), c \in Contracts : Done(c, window[i][1])
    /\ pc = "fetch" =>
         /\ HeaderOk(chain, block)
         /\ \A i \in 1..Len(window), c \in Contracts :
              Done(c, window[i][1]) \/ Underway(c, window[i][1])

\* The log cache and what was made of it hold logs of blocks there have been.
DataInv ==
    /\ logCache \in [Contracts -> [Numbers -> Hashes \cup {None}]]
    /\ \A c \in Contracts, n \in Numbers :
         logCache[c][n] # None => Known(chain, logCache[c][n]) /\ logCache[c][n][1] = n
    /\ \A c \in Contracts, h \in Hashes : <<c, h>> \in events \cup indexed => Known(chain, h)

RealInv == ChainOk(chain) /\ HeadsInv /\ WindowInv /\ WalkInv /\ IndexInv /\ DataInv

-----------------------------------------------------------------------------
(* A growing chain. *)

\* The hashes there have been stay known, and the orphaned ones orphaned; below
\* a block that stays canonical nothing changes.
LEMMA KnownStays ==
    ASSUME NEW old, NEW new, ChainOk(old), ChainOk(new), Grows(old, new),
           NEW h, Known(old, h)
    PROVE  /\ Known(new, h)
           /\ Lost(old, h) => Lost(new, h)
           /\ \A g : Known(old, g) /\ g[1] <= h[1] /\ ~Lost(old, g) /\ ~Lost(new, h)
                       => ~Lost(new, g)
<1>1. PICK fork \in Nat :
        /\ DOMAIN old \subseteq DOMAIN new
        /\ \A n \in DOMAIN old : n < fork => new[n] = old[n]
        /\ \A n \in DOMAIN old : n >= fork => \A m \in DOMAIN old : old[m] < new[n]
        /\ \A m \in DOMAIN old : \E n \in DOMAIN new : old[m] <= new[n]
  BY DEF Grows
<1>2. /\ \A n \in DOMAIN old : n \in Nat /\ old[n] \in Nat
      /\ \A n \in DOMAIN new : n \in Nat /\ new[n] \in Nat
  BY RealtimeAssumption DEF ChainOk, Numbers
<1>3. h \in Hashes /\ h[1] \in DOMAIN old /\ h[1] \in Nat /\ h[2] \in Nat
  BY RealtimeAssumption DEF Known, Hashes, Numbers
<1>4. Known(new, h)
  <2>1. PICK m \in DOMAIN old : h[2] <= old[m]
    BY DEF Known
  <2>2. PICK n \in DOMAIN new : old[m] <= new[n]
    BY <1>1
  <2>3. h[2] <= new[n]
    BY <1>2, <1>3, <2>1, <2>2
  <2>4. QED
    BY <1>1, <1>3, <2>3 DEF Known
<1>5. h[1] >= fork => h[2] # new[h[1]]
  <2>1. PICK m \in DOMAIN old : h[2] <= old[m]
    BY DEF Known
  <2>2. QED
    BY <1>1, <1>2, <1>3, <2>1
<1>6. ~Lost(new, h) => h[1] < fork
  <2> SUFFICES ASSUME ~Lost(new, h), ~(h[1] < fork)
               PROVE  FALSE
    OBVIOUS
  <2>1. h[1] >= fork
    BY <1>3
  <2>2. h[2] = new[h[1]]
    BY DEF Lost
  <2>3. QED
    BY <1>5, <2>1, <2>2
<1>7. ASSUME NEW g, Known(old, g), g[1] < fork
      PROVE  Lost(new, g) <=> Lost(old, g)
  BY <1>1, <1>7 DEF Known, Lost
<1>8. ASSUME NEW g, Known(old, g), g[1] <= h[1], ~Lost(old, g), ~Lost(new, h)
      PROVE  ~Lost(new, g)
  <2>1. g[1] \in Nat
    BY <1>2, <1>8 DEF Known
  <2>2. g[1] < fork
    BY <1>1, <1>3, <1>6, <1>8, <2>1
  <2>3. QED
    BY <1>7, <1>8, <2>2
<1>9. Lost(old, h) => Lost(new, h)
  BY <1>6, <1>7
<1>10. QED
  BY <1>4, <1>8, <1>9

\* So what was said of blocks and entries stays true.
LEMMA RelationsStay ==
    ASSUME NEW old, NEW new, ChainOk(old), ChainOk(new), Grows(old, new)
    PROVE  /\ \A b : HeaderOk(old, b) => HeaderOk(new, b)
           /\ \A h, b : Known(old, h) /\ Earlier(old, h, b) => Earlier(new, h, b)
           /\ \A v : EntryOk(old, v) => EntryOk(new, v)
           /\ \A v, w : EntryOk(old, v) /\ EntryOk(old, w) /\ Followed(old, v, w)
                          => Followed(new, v, w)
<1>1. ASSUME NEW b, HeaderOk(old, b)
      PROVE  HeaderOk(new, b)
  <2>1. Known(new, b.hash) /\ (b.number # 0 => Known(new, b.parent))
    BY <1>1, KnownStays DEF HeaderOk
  <2>2. ASSUME b.number # 0, ~Lost(new, b.hash)
        PROVE  ~Lost(new, b.parent)
    <3>1. ~Lost(old, b.hash)
      BY <1>1, <2>2, KnownStays DEF HeaderOk
    <3>2. ~Lost(old, b.parent) /\ Known(old, b.parent) /\ b.parent[1] = b.number - 1
      BY <1>1, <2>2, <3>1 DEF HeaderOk
    <3>3. b.parent[1] <= b.hash[1] /\ Known(old, b.hash)
      BY <1>1, <3>2, RealtimeAssumption DEF HeaderOk, Headers, Numbers
    <3>4. QED
      BY <2>2, <3>2, <3>3, KnownStays
  <2>3. QED
    BY <1>1, <2>1, <2>2 DEF HeaderOk
<1>2. ASSUME NEW h, NEW b, Known(old, h), Earlier(old, h, b)
      PROVE  Earlier(new, h, b)
  BY <1>2, KnownStays DEF Earlier
<1>3. ASSUME NEW v, EntryOk(old, v)
      PROVE  EntryOk(new, v)
  BY <1>3, KnownStays DEF EntryOk
<1>4. ASSUME NEW v, NEW w, EntryOk(old, v), EntryOk(old, w), Followed(old, v, w)
      PROVE  Followed(new, v, w)
  <2>1. Known(old, v[2]) /\ Known(old, w[2]) /\ v[2][1] = v[1] /\ w[2][1] = w[1]
    BY <1>4 DEF EntryOk
  <2>2. ASSUME v[1] + 1 = w[1], ~Lost(new, w[2])
        PROVE  ~Lost(new, v[2])
    <3>1. ~Lost(old, w[2]) /\ ~Lost(old, v[2])
      BY <1>4, <2>1, <2>2, KnownStays DEF Followed
    <3>2. v[2][1] <= w[2][1]
      BY <1>4, <2>1, <2>2, RealtimeAssumption DEF EntryOk, Entries, Numbers
    <3>3. QED
      BY <2>1, <2>2, <3>1, <3>2, KnownStays
  <2>3. v[1] = w[1] => v[2] = w[2] \/ Lost(new, v[2])
    BY <1>4, <2>1, KnownStays DEF Followed
  <2>4. QED
    BY <2>2, <2>3 DEF Followed
<1>5. QED
  BY <1>1, <1>2, <1>3, <1>4

\* A block as its chain announces it: it is canonical, and so is its parent.
LEMMA HeaderFacts ==
    ASSUME NEW ch, ChainOk(ch), NEW n \in DOMAIN ch, NEW b, b = Header(ch, n)
    PROVE  HeaderOk(ch, b) /\ \A h : Known(ch, h) => Earlier(ch, h, b)
<1>1. PICK t \in Numbers : DOMAIN ch = 0..t
  BY DEF ChainOk
<1>2. /\ n \in Numbers /\ ch[n] \in 0..MaxBranch
      /\ n # 0 => n - 1 \in DOMAIN ch /\ n - 1 \in Numbers /\ ch[n - 1] \in 0..MaxBranch
  BY <1>1, RealtimeAssumption DEF ChainOk, Numbers
<1>3. /\ b.number = n /\ b.hash = <<n, ch[n]>>
      /\ n # 0 => b.parent = <<n - 1, ch[n - 1]>>
      /\ b \in Headers
  BY <1>2 DEF Header, Headers, Hashes
<1>4. Known(ch, <<n, ch[n]>>) /\ (n # 0 => Known(ch, <<n - 1, ch[n - 1]>>))
  BY <1>2, RealtimeAssumption DEF Known, Hashes
<1>5. n # 0 => ~Lost(ch, <<n - 1, ch[n - 1]>>)
  BY <1>2 DEF Lost
<1>6. HeaderOk(ch, b)
  BY <1>3, <1>4, <1>5 DEF HeaderOk
<1>7. ASSUME NEW h, Known(ch, h)
      PROVE  Earlier(ch, h, b)
  BY <1>3 DEF Earlier, Lost
<1>8. QED
  BY <1>6, <1>7

\* The tip is the last block.
LEMMA TipFacts ==
    ASSUME ChainOk(chain)
    PROVE  /\ Tip \in Numbers /\ DOMAIN chain = 0..Tip
           /\ \A n \in DOMAIN chain : chain[n] <= chain[Tip]
<1>1. PICK t \in Numbers : DOMAIN chain = 0..t
  BY DEF ChainOk
<1>2. t \in Nat /\ t \in DOMAIN chain /\ \A m \in DOMAIN chain : m <= t
  BY <1>1, RealtimeAssumption DEF Numbers
<1>3. Tip \in DOMAIN chain /\ \A m \in DOMAIN chain : m <= Tip
  BY <1>2 DEF Tip
<1>4. Tip = t
  <2>1. Tip \in Nat /\ Tip <= t /\ t <= Tip
    BY <1>1, <1>2, <1>3
  <2> HIDE DEF Tip
  <2>2. QED
    BY <1>2, <2>1
<1>5. QED
  BY <1>1, <1>2, <1>4 DEF ChainOk

\* What the node does: the chain grows, and blocks of the new chain are
\* announced after the others.
LEMMA NodeFacts ==
    ASSUME ChainOk(chain), heads \in Seq(Headers), Mine \/ Reorganise
    PROVE  /\ ChainOk(chain') /\ Grows(chain, chain') /\ pc # "stopped"
           /\ UNCHANGED <<pc, attempt, block, cursor, window, caches, todo, events, indexed,
                          decided, missed>>
           /\ Len(heads') >= Len(heads) /\ Len(heads') \in Nat
           /\ heads' \in Seq(Headers)
           /\ \A i \in 1..Len(heads) : heads'[i] = heads[i]
           /\ \A i \in 1..Len(heads') :
                i > Len(heads) => \E n \in DOMAIN chain' : heads'[i] = Header(chain', n)
<1> DEFINE Extends(ch) == ChainOk(ch) /\ Grows(chain, ch)
<1>0. /\ Tip \in Numbers /\ Tip \in Nat /\ DOMAIN chain = 0..Tip
      /\ \A n \in DOMAIN chain : chain[n] \in 0..MaxBranch /\ chain[n] <= chain[Tip]
      /\ \A m, n \in DOMAIN chain : m <= n => chain[m] <= chain[n]
  BY TipFacts, RealtimeAssumption DEF ChainOk, Numbers
<1>1. ASSUME NEW ch, NEW first \in Nat, NEW last \in Nat, first <= last,
             Extends(ch), DOMAIN ch = 0..last, Announce(ch, first, last)
      PROVE  /\ ChainOk(chain') /\ Grows(chain, chain') /\ pc # "stopped"
             /\ UNCHANGED <<pc, attempt, block, cursor, window, caches, todo, events, indexed,
                            decided, missed>>
             /\ Len(heads') >= Len(heads) /\ Len(heads') \in Nat
             /\ heads' \in Seq(Headers)
             /\ \A i \in 1..Len(heads) : heads'[i] = heads[i]
             /\ \A i \in 1..Len(heads') :
                  i > Len(heads) => \E n \in DOMAIN chain' : heads'[i] = Header(chain', n)
  <2>1. chain' = ch /\ ChainOk(chain') /\ Grows(chain, chain') /\ pc # "stopped"
    BY <1>1 DEF Announce
  <2>2. UNCHANGED <<pc, attempt, block, cursor, window, caches, todo, events, indexed,
                    decided, missed>>
    BY <1>1 DEF Announce
  <2> DEFINE k == last - first + 1
             s == [i \in 1..k |-> Header(ch, first + i - 1)]
  <2>3. k \in Nat /\ \A i \in 1..k : first + i - 1 \in DOMAIN ch
    BY <1>1
  <2>4. \A i \in 1..k : Header(ch, first + i - 1) \in Headers
    BY <1>1, <2>3, HeaderFacts DEF HeaderOk
  <2>5. s \in Seq(Headers) /\ Len(s) = k
    BY <2>3, <2>4
  <2>6. CASE pc = "connect"
    BY <1>1, <2>1, <2>2, <2>6 DEF Announce
  <2>7. CASE pc # "connect"
    <3>1. heads' = heads \o s
      BY <1>1, <2>7 DEF Announce
    <3>2. /\ Len(heads') = Len(heads) + k /\ heads' \in Seq(Headers)
          /\ \A i \in 1..Len(heads) : heads'[i] = heads[i]
          /\ \A i \in 1..Len(heads') : i > Len(heads) => heads'[i] = s[i - Len(heads)]
      BY <2>3, <2>5, <3>1
    <3>3. ASSUME NEW i \in 1..Len(heads'), i > Len(heads)
          PROVE  \E n \in DOMAIN chain' : heads'[i] = Header(chain', n)
      <4>1. i - Len(heads) \in 1..k
        BY <2>3, <3>2, <3>3
      <4>2. heads'[i] = Header(ch, first + (i - Len(heads)) - 1)
        BY <3>2, <3>3, <4>1
      <4>3. QED
        BY <2>1, <2>3, <4>1, <4>2
    <3>4. QED
      BY <2>1, <2>2, <2>3, <3>2, <3>3
  <2>8. QED
    BY <2>6, <2>7
<1>2. CASE Mine
  <2> DEFINE ch == [n \in 0..(Tip + 1) |-> IF n \in DOMAIN chain THEN chain[n] ELSE chain[Tip]]
  <2>1. Tip < MaxNumber /\ Announce(ch, Tip + 1, Tip + 1)
    BY <1>2 DEF Mine
  <2>2. Tip + 1 \in Numbers /\ DOMAIN ch = 0..(Tip + 1)
    BY <1>0, <2>1, RealtimeAssumption DEF Numbers
  <2>3. /\ \A n \in 0..Tip : ch[n] = chain[n] /\ n < Tip + 1
        /\ ch[Tip + 1] = chain[Tip]
    BY <1>0
  <2>4. /\ \A n \in DOMAIN ch : ch[n] \in 0..MaxBranch
        /\ \A m, n \in DOMAIN ch : m <= n => ch[m] <= ch[n]
    <3>1. \A n \in DOMAIN ch : n \in 0..Tip \/ n = Tip + 1
      BY <1>0
    <3>2. QED
      BY <1>0, <2>3, <3>1
  <2>5. ChainOk(ch)
    BY <2>2, <2>4 DEF ChainOk
  <2>6. Grows(chain, ch)
    <3>1. DOMAIN chain \subseteq DOMAIN ch
      BY <1>0
    <3>2. \A m \in DOMAIN chain : \E n \in DOMAIN ch : chain[m] <= ch[n]
      BY <1>0, <2>3, <3>1
    <3>3. Tip + 1 \in Nat /\ \A n \in DOMAIN chain : ~(n >= Tip + 1)
      BY <1>0
    <3>4. QED
      BY <1>0, <2>3, <3>1, <3>2, <3>3 DEF Grows
  <2>7. Tip + 1 \in Nat
    BY <1>0
  <2> HIDE DEF ch
  <2>8. QED
    BY <1>1, <2>1, <2>2, <2>5, <2>6, <2>7
<1>3. CASE Reorganise
  <2>1. PICK fork \in 1..Tip, last \in (Tip + 1)..MaxNumber :
          /\ chain[Tip] < MaxBranch
          /\ LET ch == [n \in 0..last |-> IF n < fork THEN chain[n] ELSE chain[Tip] + 1]
             IN  \E first \in {fork, last} : Announce(ch, first, last)
    BY <1>3 DEF Reorganise
  <2> DEFINE ch == [n \in 0..last |-> IF n < fork THEN chain[n] ELSE chain[Tip] + 1]
  <2>2. PICK first \in {fork, last} : Announce(ch, first, last)
    BY <2>1
  <2>3. /\ fork \in Nat /\ last \in Nat /\ fork <= Tip /\ Tip < last /\ last \in Numbers
        /\ first \in Nat /\ first <= last /\ DOMAIN ch = 0..last
    BY <1>0, <2>1, <2>2, RealtimeAssumption DEF Numbers
  <2>4. /\ \A n \in DOMAIN ch : n < fork => n \in DOMAIN chain /\ ch[n] = chain[n]
        /\ \A n \in DOMAIN ch : ~(n < fork) => ch[n] = chain[Tip] + 1
    BY <1>0, <2>3
  <2>5. /\ \A n \in DOMAIN ch : ch[n] \in 0..MaxBranch
        /\ \A m, n \in DOMAIN ch : m <= n => ch[m] <= ch[n]
    <3>1. chain[Tip] \in Nat /\ chain[Tip] + 1 \in 0..MaxBranch
      BY <1>0, <2>1, RealtimeAssumption
    <3>2. \A n \in DOMAIN ch : ch[n] \in 0..MaxBranch
      BY <1>0, <2>4, <3>1
    <3>3. ASSUME NEW m \in DOMAIN ch, NEW n \in DOMAIN ch, m <= n
          PROVE  ch[m] <= ch[n]
      <4>1. CASE n < fork
        <5>1. m < fork
          BY <2>3, <3>3, <4>1
        <5>2. QED
          BY <1>0, <2>4, <3>3, <4>1, <5>1
      <4>2. CASE ~(n < fork) /\ m < fork
        <5>1. chain[m] <= chain[Tip] /\ chain[m] \in Nat
          BY <1>0, <2>4, <4>2
        <5>2. QED
          BY <2>4, <3>1, <4>2, <5>1
      <4>3. CASE ~(n < fork) /\ ~(m < fork)
        BY <2>4, <3>1, <4>3
      <4>4. QED
        BY <4>1, <4>2, <4>3
    <3>4. QED
      BY <3>2, <3>3
  <2>6. ChainOk(ch)
    BY <2>3, <2>5 DEF ChainOk
  <2>7. Grows(chain, ch)
    <3>1. DOMAIN chain \subseteq DOMAIN ch
      BY <1>0, <2>3
    <3>2. ch[last] = chain[Tip] + 1 /\ last \in DOMAIN ch
      BY <1>0, <2>3
    <3>3. \A m \in DOMAIN chain : chain[m] < chain[Tip] + 1 /\ chain[m] <= chain[Tip] + 1
      BY <1>0, TipFacts
    <3>4. /\ \A n \in DOMAIN chain : n < fork => ch[n] = chain[n]
          /\ \A n \in DOMAIN chain : n >= fork => ch[n] = chain[Tip] + 1
      <4>1. \A n \in DOMAIN chain : n \in Nat
        BY <1>0
      <4>2. QED
        BY <2>3, <2>4, <3>1, <4>1
    <3>5. QED
      BY <2>3, <3>1, <3>2, <3>3, <3>4 DEF Grows
  <2> HIDE DEF ch
  <2>8. QED
    BY <1>1, <2>2, <2>3, <2>6, <2>7
<1>4. QED
  BY <1>2, <1>3

-----------------------------------------------------------------------------
(* The operations of ChainState. *)

\* A nonempty set of naturals has a least element.
LEMMA LeastNatural ==
    ASSUME NEW T \in SUBSET Nat, T # {}
    PROVE  \E n \in T : \A m \in T : n <= m
<1> DEFINE R == {ss \in Nat \X Nat : ss[1] < ss[2]}
<1>1. IsWellFoundedOn(R, Nat)
  BY NatLessThanWellFounded, Zenon DEF OpToRel
<1>2. PICK n \in T : \A y \in T : ~(<<y, n>> \in R)
  BY <1>1, WFMin, Zenon
<1>3. ASSUME NEW m \in T
      PROVE  n <= m
  <2>1. ~(m < n)
    <3>1. ASSUME m < n PROVE <<m, n>> \in R
      <4>1. <<m, n>> \in Nat \X Nat /\ <<m, n>>[1] < <<m, n>>[2]
        BY <3>1
      <4>2. QED
        BY <4>1, Zenon
    <3>2. QED
      BY <1>2, <3>1, Zenon
  <2>2. QED
    BY <2>1
<1>4. QED
  BY <1>3

\* get_hash returns the hash of the first pair with that number.
LEMMA GetHashFacts ==
    ASSUME NEW w \in Seq(Entries), NEW n
    PROVE  /\ GetHash(w, n) = None => \A i \in 1..Len(w) : w[i][1] # n
           /\ GetHash(w, n) # None =>
                \E k \in 1..Len(w) :
                    /\ w[k][1] = n /\ GetHash(w, n) = w[k][2]
                    /\ \A i \in 1..Len(w) : w[i][1] = n => k <= i
<1>1. Positions(w, n) \in SUBSET Nat
  BY DEF Positions
<1>2. \A i \in 1..Len(w) : w[i][2] \in Hashes
  BY DEF Entries
<1>3. CASE Positions(w, n) = {}
  BY <1>3 DEF GetHash, Positions
<1>4. CASE Positions(w, n) # {}
  <2>1. PICK k \in Positions(w, n) : \A j \in Positions(w, n) : k <= j
    BY <1>1, <1>4, LeastNatural
  <2> DEFINE c == CHOOSE i \in Positions(w, n) : \A j \in Positions(w, n) : i <= j
  <2>2. c \in Positions(w, n) /\ \A j \in Positions(w, n) : c <= j
    BY <2>1
  <2>3. GetHash(w, n) = w[c][2]
    BY <1>4 DEF GetHash
  <2> HIDE DEF c
  <2>4. c \in 1..Len(w) /\ w[c][1] = n /\ \A i \in 1..Len(w) : w[i][1] = n => c <= i
    BY <2>2 DEF Positions
  <2>5. w[c][2] # None
    BY <1>2, <2>4, NoneAssumption
  <2>6. QED
    BY <2>3, <2>4, <2>5
<1>5. QED
  BY <1>3, <1>4

\* push appends, and drops the oldest pair or none.
LEMMA PushFacts ==
    ASSUME NEW w \in Seq(Entries), NEW n \in Numbers, NEW h \in Hashes
    PROVE  /\ Push(w, n, h) \in Seq(Entries)
           /\ \E d \in {0, 1} :
                /\ Len(w) - d \in Nat
                /\ Len(Push(w, n, h)) = Len(w) - d + 1
                /\ \A i \in 1..(Len(w) - d) : Push(w, n, h)[i] = w[i + d]
                /\ Push(w, n, h)[Len(w) - d + 1] = <<n, h>>
<1>1. <<n, h>> \in Entries /\ Len(w) \in Nat
  BY DEF Entries
<1>2. CASE Len(w) >= Capacity
  <2>1. w # <<>> /\ Len(w) >= 1
    BY <1>1, <1>2, RealtimeAssumption
  <2>2. /\ Tail(w) \in Seq(Entries) /\ Len(Tail(w)) = Len(w) - 1
        /\ \A i \in 1..(Len(w) - 1) : Tail(w)[i] = w[i + 1]
    BY <1>1, <2>1
  <2>3. Push(w, n, h) = Append(Tail(w), <<n, h>>)
    BY <1>2 DEF Push
  <2>4. /\ Push(w, n, h) \in Seq(Entries)
        /\ Len(Push(w, n, h)) = Len(w) - 1 + 1
        /\ \A i \in 1..(Len(w) - 1) : Push(w, n, h)[i] = w[i + 1]
        /\ Push(w, n, h)[Len(w) - 1 + 1] = <<n, h>>
    BY <1>1, <2>1, <2>2, <2>3
  <2>5. QED
    BY <1>1, <2>1, <2>4
<1>3. CASE ~(Len(w) >= Capacity)
  <2>1. Push(w, n, h) = Append(w, <<n, h>>)
    BY <1>3 DEF Push
  <2>2. /\ Push(w, n, h) \in Seq(Entries)
        /\ Len(Push(w, n, h)) = Len(w) - 0 + 1
        /\ \A i \in 1..(Len(w) - 0) : Push(w, n, h)[i] = w[i + 0]
        /\ Push(w, n, h)[Len(w) - 0 + 1] = <<n, h>>
    BY <1>1, <2>1
  <2>3. QED
    BY <1>1, <2>2
<1>4. QED
  BY <1>2, <1>3

\* prune_above keeps the pairs up to the last one whose number is not above n.
LEMMA PruneFacts ==
    ASSUME NEW w \in Seq(Entries), NEW n
    PROVE  /\ PruneAbove(w, n) \in Seq(Entries)
           /\ Len(PruneAbove(w, n)) <= Len(w)
           /\ \A i \in 1..Len(PruneAbove(w, n)) : PruneAbove(w, n)[i] = w[i]
           /\ Len(PruneAbove(w, n)) # 0 => w[Len(PruneAbove(w, n))][1] <= n
<1>1. CASE Kept(w, n) = {}
  <2>1. PruneAbove(w, n) = <<>>
    BY <1>1 DEF PruneAbove
  <2>2. QED
    BY <2>1
<1>2. CASE Kept(w, n) # {}
  <2> DEFINE T == {Len(w) - i : i \in Kept(w, n)}
  <2>1. T \in SUBSET Nat /\ T # {}
    BY <1>2 DEF Kept
  <2>2. PICK m \in T : \A k \in T : m <= k
    BY <2>1, LeastNatural
  <2>3. PICK l \in Kept(w, n) : m = Len(w) - l
    BY <2>2
  <2>4. \A j \in Kept(w, n) : j <= l
    <3> SUFFICES ASSUME NEW j \in Kept(w, n)
                 PROVE  j <= l
      OBVIOUS
    <3>1. Len(w) - l <= Len(w) - j
      BY <2>2, <2>3
    <3>2. j \in Nat /\ l \in Nat /\ Len(w) \in Nat
      BY DEF Kept
    <3>3. QED
      BY <3>1, <3>2
  <2> DEFINE c == CHOOSE i \in Kept(w, n) : \A j \in Kept(w, n) : j <= i
  <2>5. c \in Kept(w, n)
    BY <2>4
  <2>6. PruneAbove(w, n) = SubSeq(w, 1, c)
    BY <1>2 DEF PruneAbove
  <2> HIDE DEF c
  <2>7. c \in 1..Len(w) /\ w[c][1] <= n
    BY <2>5 DEF Kept
  <2>8. /\ SubSeq(w, 1, c) \in Seq(Entries) /\ Len(SubSeq(w, 1, c)) = c
        /\ \A i \in 1..c : SubSeq(w, 1, c)[i] = w[i]
    BY <2>7
  <2>9. QED
    BY <2>6, <2>7, <2>8
<1>3. QED
  BY <1>1, <1>2

-----------------------------------------------------------------------------
(* Every step keeps the invariant. *)

\* The node moves: what is known stays, and the new announcements come last.
LEMMA NodeStep == RealInv /\ (Mine \/ Reorganise) => RealInv'
<1> SUFFICES ASSUME RealInv, Mine \/ Reorganise
             PROVE  RealInv'
  OBVIOUS
<1>0. /\ ChainOk(chain') /\ Grows(chain, chain') /\ ChainOk(chain)
      /\ UNCHANGED <<pc, block, cursor, window, logCache, todo, events, indexed, missed>>
  BY NodeFacts DEF RealInv, HeadsInv, caches
<1>1. /\ heads' \in Seq(Headers) /\ Len(heads) \in Nat /\ Len(heads') \in Nat
      /\ Len(heads') >= Len(heads)
      /\ \A i \in 1..Len(heads) : heads'[i] = heads[i]
      /\ \A i \in 1..Len(heads') :
           i > Len(heads) => \E n \in DOMAIN chain' : heads'[i] = Header(chain', n)
  BY NodeFacts DEF RealInv, HeadsInv
<1>2. ASSUME NEW j \in 1..Len(heads')
      PROVE  /\ HeaderOk(chain', heads'[j])
             /\ j \in 1..Len(heads) => heads'[j] = heads[j]
             /\ j \notin 1..Len(heads) => \A h : Known(chain', h) => Earlier(chain', h, heads'[j])
  <2>1. CASE j \in 1..Len(heads)
    BY <1>0, <1>1, <2>1, RelationsStay DEF RealInv, HeadsInv
  <2>2. CASE j \notin 1..Len(heads)
    <3>1. PICK n \in DOMAIN chain' : heads'[j] = Header(chain', n)
      BY <1>1, <2>2
    <3>2. QED
      BY <1>0, <2>2, <3>1, HeaderFacts
  <2>3. QED
    BY <2>1, <2>2
<1>3. WindowInv'
  BY <1>0, RelationsStay DEF RealInv, WindowInv
<1>4. HeadsInv'
  <2>1. ASSUME NEW i \in 1..Len(heads'), NEW j \in 1..Len(heads'), i < j
        PROVE  Earlier(chain', heads'[i].hash, heads'[j])
    <3>1. CASE j \in 1..Len(heads)
      <4>1. i \in 1..Len(heads)
        BY <2>1, <3>1
      <4>2. heads'[i] = heads[i] /\ heads'[j] = heads[j]
        BY <1>1, <3>1, <4>1
      <4>3. Known(chain, heads[i].hash) /\ Earlier(chain, heads[i].hash, heads[j])
        BY <2>1, <3>1, <4>1 DEF RealInv, HeadsInv, HeaderOk
      <4>4. QED
        BY <1>0, <4>2, <4>3, RelationsStay
    <3>2. CASE j \notin 1..Len(heads)
      BY <1>2, <3>2 DEF HeaderOk
    <3>3. QED
      BY <3>1, <3>2
  <2>2. ASSUME NEW i \in 1..Len(window'), NEW j \in 1..Len(heads')
        PROVE  Earlier(chain', window'[i][2], heads'[j])
    <3>0. window' = window /\ Known(chain, window[i][2]) /\ Known(chain', window[i][2])
      BY <1>0, <1>3 DEF RealInv, WindowInv, EntryOk
    <3>1. CASE j \in 1..Len(heads)
      <4>1. heads'[j] = heads[j] /\ Earlier(chain, window[i][2], heads[j])
        BY <1>0, <1>1, <3>1 DEF RealInv, HeadsInv
      <4>2. QED
        BY <1>0, <3>0, <4>1, RelationsStay
    <3>2. CASE j \notin 1..Len(heads)
      BY <1>2, <3>0, <3>2
    <3>3. QED
      BY <3>1, <3>2
  <2>3. QED
    BY <1>1, <1>2, <2>1, <2>2 DEF HeadsInv
<1>5. WalkInv'
  <2> SUFFICES ASSUME pc = "walk"
               PROVE  WalkInv'
    BY <1>0 DEF WalkInv
  <2> DEFINE g == GetHash(window, block.number - 1)
  <2>1. g # None /\ Lost(chain, g) /\ HeaderOk(chain, block)
    BY DEF RealInv, WalkInv
  <2>2. Known(chain, g)
    <3>1. window \in Seq(Entries)
      BY DEF RealInv, WindowInv
    <3>2. PICK k \in 1..Len(window) : g = window[k][2]
      BY <2>1, <3>1, GetHashFacts
    <3>3. QED
      BY <3>2 DEF RealInv, WindowInv, EntryOk
  <2>3. Lost(chain', g) /\ HeaderOk(chain', block)
    BY <1>0, <2>1, <2>2, KnownStays, RelationsStay
  <2>4. QED
    BY <1>0, <2>3 DEF RealInv, WalkInv
<1>6. IndexInv'
  <2>1. \A c, n : (Done(c, n)' <=> Done(c, n)) /\ (Underway(c, n)' <=> Underway(c, n))
    BY <1>0 DEF Done, Underway
  <2>2. pc = "fetch" => HeaderOk(chain', block)
    BY <1>0, RelationsStay DEF RealInv, IndexInv
  <2>3. QED
    BY <1>0, <2>2 DEF RealInv, IndexInv, Done, Underway
<1>7. DataInv'
  BY <1>0, KnownStays DEF RealInv, DataInv
<1>8. QED
  BY <1>0, <1>3, <1>4, <1>5, <1>6, <1>7 DEF RealInv

\* The next block of the stream enters the window, or starts the search.
LEMMA ReceiveStep == RealInv /\ Receive => RealInv'
<1> SUFFICES ASSUME RealInv, Receive
             PROVE  RealInv'
  OBVIOUS
<1> DEFINE b == Head(heads)
           rest == Tail(heads)
<1>0. /\ pc = "wait" /\ heads # <<>> /\ block' = b /\ heads' = rest
      /\ UNCHANGED <<chain, logCache, events, indexed, missed>>
  BY DEF Receive, caches
<1>1. /\ rest \in Seq(Headers) /\ Len(heads) \in Nat /\ Len(rest) = Len(heads) - 1
      /\ 1 \in 1..Len(heads) /\ b = heads[1]
      /\ \A i \in 1..Len(rest) : i + 1 \in 1..Len(heads) /\ rest[i] = heads[i + 1] /\ i \in Nat
  BY <1>0 DEF RealInv, HeadsInv
<1>2. HeaderOk(chain, b) /\ b \in Headers /\ Known(chain, b.hash) /\ b.hash[1] = b.number
  BY <1>1 DEF RealInv, HeadsInv, HeaderOk
<1>3. /\ \A j \in 1..Len(rest) : HeaderOk(chain, rest[j]) /\ Earlier(chain, b.hash, rest[j])
      /\ \A i, j \in 1..Len(rest) : i < j => Earlier(chain, rest[i].hash, rest[j])
      /\ \A i \in 1..Len(window) : Earlier(chain, window[i][2], b)
      /\ \A i \in 1..Len(window), j \in 1..Len(rest) : Earlier(chain, window[i][2], rest[j])
  <2>1. \A j \in 1..Len(rest) : 1 < j + 1
    BY <1>1
  <2>2. \A i, j \in 1..Len(rest) : i < j => i + 1 < j + 1
    BY <1>1
  <2>3. QED
    BY <1>1, <2>1, <2>2 DEF RealInv, HeadsInv
<1>4. window \in Seq(Entries) /\ \A i \in 1..Len(window) : EntryOk(chain, window[i])
  BY DEF RealInv, WindowInv
<1>5. b.number \in Numbers /\ b.hash \in Hashes
  BY <1>2 DEF Headers
<1>6. DataInv'
  BY <1>0 DEF RealInv, DataInv
<1>7. CASE ~Mismatch(b)
  <2>0. window' = Push(window, b.number, b.hash) /\ pc' = "fetch" /\ todo' = Contracts
    BY <1>0, <1>7 DEF Receive
  <2>1. PICK d \in {0, 1} :
          /\ Len(window) - d \in Nat /\ Len(window') = Len(window) - d + 1
          /\ \A i \in 1..(Len(window) - d) : window'[i] = window[i + d]
          /\ window'[Len(window) - d + 1] = <<b.number, b.hash>>
    BY <1>4, <1>5, <2>0, PushFacts
  <2>2. window' \in Seq(Entries)
    BY <1>4, <1>5, <2>0, PushFacts
  <2>3. ASSUME NEW i \in 1..Len(window')
        PROVE  \/ i + d \in 1..Len(window) /\ i \in 1..(Len(window) - d) /\ window'[i] = window[i + d]
               \/ i = Len(window') /\ window'[i] = <<b.number, b.hash>>
    <3>1. i \in 1..(Len(window) - d) \/ i = Len(window) - d + 1
      BY <2>1
    <3>2. i \in 1..(Len(window) - d) => i + d \in 1..Len(window)
      BY <1>4, <2>1
    <3>3. QED
      BY <2>1, <3>1, <3>2
  <2>4. EntryOk(chain, <<b.number, b.hash>>)
    BY <1>2, <1>5 DEF EntryOk, Entries
  <2>5. ASSUME NEW i \in 1..Len(window)
        PROVE  Followed(chain, window[i], <<b.number, b.hash>>)
    <3>1. EntryOk(chain, window[i]) /\ window[i][1] \in Nat /\ b.number \in Nat
      BY <1>4, <1>5, RealtimeAssumption DEF EntryOk, Entries, Numbers
    <3>2. window[i][1] = b.number => window[i][2] = b.hash \/ Lost(chain, window[i][2])
      BY <1>3, <3>1 DEF Earlier, EntryOk
    <3>3. ASSUME window[i][1] + 1 = b.number, ~Lost(chain, b.hash)
          PROVE  ~Lost(chain, window[i][2])
      <4>1. b.number # 0 /\ window[i][1] = b.number - 1
        BY <3>1, <3>3
      <4>2. GetHash(window, b.number - 1) # None
        BY <1>4, <4>1, GetHashFacts
      <4>3. PICK k \in 1..Len(window) :
              /\ window[k][1] = b.number - 1 /\ GetHash(window, b.number - 1) = window[k][2]
              /\ \A j \in 1..Len(window) : window[j][1] = b.number - 1 => k <= j
        BY <1>4, <4>2, GetHashFacts
      <4>4. window[k][2] = b.parent
        <5>1. window # <<>>
          BY <1>4
        <5>2. QED
          BY <1>7, <4>1, <4>2, <4>3, <5>1 DEF Mismatch
      <4>5. ~Lost(chain, window[k][2])
        BY <1>2, <3>3, <4>1, <4>4 DEF HeaderOk
      <4>6. k <= i
        BY <4>1, <4>3
      <4>7. CASE k = i
        BY <4>5, <4>7
      <4>8. CASE k # i
        <5>1. k < i
          BY <4>6, <4>8
        <5>2. Followed(chain, window[k], window[i])
          BY <5>1 DEF RealInv, WindowInv
        <5>3. window[k][2] = window[i][2]
          BY <4>1, <4>3, <4>5, <5>2 DEF Followed
        <5>4. QED
          BY <4>5, <5>3
      <4>9. QED
        BY <4>7, <4>8
    <3>4. QED
      BY <3>2, <3>3 DEF Followed
  <2>6. WindowInv'
    <3>1. ASSUME NEW i \in 1..Len(window')
          PROVE  EntryOk(chain, window'[i])
      BY <1>4, <2>3, <2>4
    <3>2. ASSUME NEW i \in 1..Len(window'), NEW j \in 1..Len(window'), i < j
          PROVE  Followed(chain, window'[i], window'[j])
      <4>1. /\ i + d \in 1..Len(window) /\ window'[i] = window[i + d]
        BY <2>1, <2>3, <3>2
      <4>2. CASE j + d \in 1..Len(window) /\ window'[j] = window[j + d]
        <5>1. i + d < j + d
          BY <2>1, <3>2
        <5>2. QED
          BY <4>1, <4>2, <5>1 DEF RealInv, WindowInv
      <4>3. CASE window'[j] = <<b.number, b.hash>>
        BY <2>5, <4>1, <4>3
      <4>4. QED
        BY <2>3, <4>2, <4>3
    <3>3. QED
      BY <1>0, <2>2, <3>1, <3>2 DEF WindowInv
  <2>7. HeadsInv'
    <3>1. ASSUME NEW i \in 1..Len(window'), NEW j \in 1..Len(rest)
          PROVE  Earlier(chain, window'[i][2], rest[j])
      <4>1. CASE i + d \in 1..Len(window) /\ window'[i] = window[i + d]
        BY <1>3, <4>1
      <4>2. CASE window'[i] = <<b.number, b.hash>>
        <5>1. window'[i][2] = b.hash
          BY <4>2
        <5>2. QED
          BY <1>3, <5>1
      <4>3. QED
        BY <2>3, <4>1, <4>2
    <3>2. QED
      BY <1>0, <1>1, <1>3, <3>1 DEF HeadsInv
  <2>8. WalkInv'
    BY <2>0 DEF WalkInv
  <2>9. IndexInv'
    <3>1. ASSUME NEW i \in 1..Len(window'), NEW c \in Contracts
          PROVE  (Done(c, window[i][1]) \/ Underway(c, window[i][1]))'
      <4>1. CASE i + d \in 1..Len(window) /\ window'[i] = window[i + d]
        <5>1. Done(c, window[i + d][1])
          BY <1>0, <4>1 DEF RealInv, IndexInv
        <5>2. QED
          BY <1>0, <4>1, <5>1 DEF Done
      <4>2. CASE window'[i] = <<b.number, b.hash>>
        BY <1>0, <2>0, <4>2 DEF Underway
      <4>3. QED
        BY <2>3, <4>1, <4>2
    <3>2. QED
      BY <1>0, <1>2, <2>0, <3>1 DEF IndexInv
  <2>10. QED
    BY <1>0, <1>6, <2>6, <2>7, <2>8, <2>9 DEF RealInv
<1>8. CASE Mismatch(b)
  <2>0. window' = window /\ pc' = "walk" /\ cursor' = b.number - 1 /\ todo' = todo
    BY <1>0, <1>8 DEF Receive
  <2>1. WindowInv' /\ HeadsInv'
    BY <1>0, <1>1, <1>3, <2>0 DEF RealInv, WindowInv, HeadsInv
  <2>2. /\ b.number # 0 /\ GetHash(window, b.number - 1) # None
        /\ GetHash(window, b.number - 1) # b.parent
    BY <1>8 DEF Mismatch
  <2>3. Lost(chain, GetHash(window, b.number - 1))
    <3>1. PICK k \in 1..Len(window) :
            window[k][1] = b.number - 1 /\ GetHash(window, b.number - 1) = window[k][2]
      BY <1>4, <2>2, GetHashFacts
    <3>2. QED
      BY <1>3, <1>4, <2>2, <3>1 DEF Earlier, EntryOk
  <2>4. b.number - 1 \in Nat
    BY <1>5, <2>2, RealtimeAssumption DEF Numbers
  <2>5. WalkInv'
    BY <1>0, <1>2, <2>0, <2>2, <2>3, <2>4 DEF WalkInv
  <2>6. IndexInv'
    BY <1>0, <2>0 DEF RealInv, IndexInv, Done
  <2>7. QED
    BY <1>0, <1>6, <2>1, <2>5, <2>6 DEF RealInv
<1>9. QED
  BY <1>7, <1>8

\* The search moves down, prunes the window or gives up.
LEMMA WalkStep == RealInv /\ Walk => RealInv'
<1> SUFFICES ASSUME RealInv, Walk
             PROVE  RealInv'
  OBVIOUS
<1>0. /\ pc = "walk" /\ UNCHANGED <<chain, heads, block, logCache, todo, events, indexed, missed>>
  BY DEF Walk, node
<1>1. window \in Seq(Entries)
  BY DEF RealInv, WindowInv
<1>2. DataInv'
  BY <1>0 DEF RealInv, DataInv
<1>3. PICK h \in Hashes :
        \/ GetHash(window, cursor) \in {None, h} /\ Decide(cursor + 1)
        \/ GetHash(window, cursor) \notin {None, h} /\ Descend
  BY DEF Walk
<1>4. CASE Decide(cursor + 1)
  <2> DEFINE n == SaturatingSub(cursor + 1, 1)
  <2>0. window' = PruneAbove(window, n) /\ pc' = "rollback"
    BY <1>4 DEF Decide
  <2>1. /\ window' \in Seq(Entries) /\ Len(window') <= Len(window)
        /\ \A i \in 1..Len(window') : window'[i] = window[i] /\ i \in 1..Len(window)
    <3> HIDE DEF n
    <3>1. /\ window' \in Seq(Entries) /\ Len(window') <= Len(window)
          /\ \A i \in 1..Len(window') : window'[i] = window[i]
      BY <1>1, <2>0, PruneFacts
    <3>2. Len(window) \in Nat /\ Len(window') \in Nat
      BY <1>1, <3>1
    <3>3. QED
      BY <3>1, <3>2
  <2> HIDE DEF n
  <2>2. WindowInv'
    BY <1>0, <2>1 DEF RealInv, WindowInv
  <2>3. HeadsInv'
    BY <1>0, <2>1 DEF RealInv, HeadsInv
  <2>4. WalkInv'
    BY <2>0 DEF WalkInv
  <2>5. IndexInv'
    BY <1>0, <2>0, <2>1 DEF RealInv, IndexInv, Done
  <2>6. QED
    BY <1>0, <1>2, <2>2, <2>3, <2>4, <2>5 DEF RealInv
<1>5. CASE GetHash(window, cursor) \notin {None, h} /\ Descend
  <2>0. window' = window /\ pc' \in {"walk", "stopped"}
    BY <1>0, <1>5 DEF Descend
  <2>1. WindowInv' /\ HeadsInv'
    BY <1>0, <2>0 DEF RealInv, WindowInv, HeadsInv
  <2>2. IndexInv'
    BY <1>0, <2>0 DEF RealInv, IndexInv, Done
  <2>3. WalkInv'
    <3> SUFFICES ASSUME pc' = "walk"
                 PROVE  WalkInv'
      BY DEF WalkInv
    <3>1. cursor # 0 /\ cursor' = cursor - 1
      BY <1>0, <1>5 DEF Descend
    <3>2. /\ cursor \in Nat /\ cursor <= block.number - 1 /\ block.number \in Nat
      BY <1>0, RealtimeAssumption DEF RealInv, WalkInv, HeaderOk, Headers, Numbers
    <3>3. cursor' \in Nat /\ cursor' <= block.number - 1 /\ cursor' + 1 = cursor
      BY <3>1, <3>2
    <3>4. GetHash(window, cursor' + 1) # None
      BY <1>5, <3>3
    <3>5. QED
      BY <1>0, <2>0, <3>3, <3>4 DEF RealInv, WalkInv
  <2>4. QED
    BY <1>0, <1>2, <2>1, <2>2, <2>3 DEF RealInv
<1>6. QED
  BY <1>3, <1>4, <1>5

\* One worker's logs of the block, from the cache or the node.
LEMMA FetchStep == RealInv /\ (\E c \in Contracts : Fetch(c) \/ FetchFails(c)) => RealInv'
<1> SUFFICES ASSUME RealInv, NEW c \in Contracts, Fetch(c) \/ FetchFails(c)
             PROVE  RealInv'
  OBVIOUS
<1> DEFINE n == block.number
<1>0. /\ pc = "fetch" /\ c \in todo /\ todo' = todo \ {c}
      /\ UNCHANGED <<chain, heads, pc, block, window, indexed>>
  BY DEF Fetch, FetchFails, node
<1>1. n \in Numbers /\ n \in DOMAIN chain
  BY <1>0 DEF RealInv, IndexInv, HeaderOk, Headers, Known
<1>2. WindowInv' /\ HeadsInv' /\ WalkInv'
  BY <1>0 DEF RealInv, WindowInv, HeadsInv, WalkInv
<1>4. CASE Fetch(c)
  <2> DEFINE cached == logCache[c][n]
             h == IF cached # None THEN cached
                  ELSE IF n \in DOMAIN chain THEN Canonical(n) ELSE None
  <2>0. /\ events' = (IF h = None THEN events ELSE events \cup {<<c, h>>})
        /\ logCache' \in {logCache, [logCache EXCEPT ![c][n] = h]} /\ missed' = missed
    BY <1>4 DEF Fetch
  <2>1. Known(chain, h) /\ h[1] = n /\ h # None /\ h \in Hashes
    <3>1. CASE cached # None
      <4>1. h = cached /\ Known(chain, cached) /\ cached[1] = n
        BY <1>1, <3>1 DEF RealInv, DataInv
      <4>2. QED
        BY <4>1, NoneAssumption DEF Known
    <3>2. CASE cached = None
      <4>1. h = <<n, chain[n]>> /\ ChainOk(chain)
        BY <1>1, <3>2 DEF Canonical, RealInv
      <4>2. chain[n] \in 0..MaxBranch
        BY <1>1, <4>1 DEF ChainOk
      <4>3. h \in Hashes /\ h[1] = n /\ h[2] = chain[n] /\ chain[n] <= chain[n]
        BY <1>1, <4>1, <4>2, RealtimeAssumption DEF Hashes
      <4>4. QED
        BY <1>1, <4>3, NoneAssumption DEF Known
    <3>3. QED
      BY <3>1, <3>2
  <2> HIDE DEF h, cached
  <2>2. events' = events \cup {<<c, h>>}
    BY <2>0, <2>1
  <2>3. DataInv'
    <3>1. logCache' \in [Contracts -> [Numbers -> Hashes \cup {None}]]
      BY <1>1, <2>0, <2>1 DEF RealInv, DataInv
    <3>2. ASSUME NEW d \in Contracts, NEW m \in Numbers
          PROVE  logCache'[d][m] = logCache[d][m] \/ (logCache'[d][m] = h /\ m = n)
      BY <1>1, <2>0, <2>1 DEF RealInv, DataInv
    <3>3. ASSUME NEW d \in Contracts, NEW m \in Numbers, logCache'[d][m] # None
          PROVE  Known(chain, logCache'[d][m]) /\ logCache'[d][m][1] = m
      <4>1. CASE logCache'[d][m] = logCache[d][m]
        BY <3>3, <4>1 DEF RealInv, DataInv
      <4>2. CASE logCache'[d][m] = h /\ m = n
        BY <2>1, <4>2
      <4>3. QED
        BY <3>2, <4>1, <4>2
    <3>4. ASSUME NEW d \in Contracts, NEW g \in Hashes, <<d, g>> \in events' \cup indexed
          PROVE  Known(chain, g)
      BY <2>1, <2>2, <3>4 DEF RealInv, DataInv
    <3>5. QED
      BY <1>0, <3>1, <3>3, <3>4 DEF DataInv
  <2>4. ASSUME NEW d \in Contracts, NEW m
        PROVE  Done(d, m) \/ Underway(d, m) => Done(d, m)' \/ Underway(d, m)'
    <3>1. Done(d, m) => Done(d, m)'
      BY <1>0, <2>0 DEF Done
    <3>2. ASSUME Underway(d, m)
          PROVE  Underway(d, m)'
      <4>1. m = n /\ block' = block
        BY <1>0, <3>2 DEF Underway
      <4>2. CASE d = c
        <5>1. <<d, h>> \in events' /\ h[1] = m /\ h \in Hashes
          BY <2>1, <2>2, <4>1, <4>2
        <5>2. QED
          BY <4>1, <5>1 DEF Underway
      <4>3. CASE d # c
        BY <1>0, <2>2, <3>2, <4>3 DEF Underway
      <4>4. QED
        BY <4>2, <4>3
    <3>3. QED
      BY <3>1, <3>2
  <2>5. IndexInv'
    BY <1>0, <2>4 DEF RealInv, IndexInv
  <2>6. QED
    BY <1>0, <1>2, <2>3, <2>5 DEF RealInv
<1>5. CASE FetchFails(c)
  <2>0. events' = events /\ logCache' = logCache /\ missed' = missed \cup {<<c, n>>}
    BY <1>5 DEF FetchFails, caches
  <2>1. DataInv'
    BY <1>0, <2>0 DEF RealInv, DataInv
  <2>2. ASSUME NEW d \in Contracts, NEW m
        PROVE  Done(d, m) \/ Underway(d, m) => Done(d, m)' \/ Underway(d, m)'
    BY <1>0, <2>0 DEF Done, Underway
  <2>3. IndexInv'
    BY <1>0, <2>2 DEF RealInv, IndexInv
  <2>4. QED
    BY <1>0, <1>2, <2>1, <2>3 DEF RealInv
<1>6. QED
  BY <1>4, <1>5

\* The handlers of the block and the flush.
LEMMA ApplyStep == RealInv /\ Apply => RealInv'
<1> SUFFICES ASSUME RealInv, Apply
             PROVE  RealInv'
  OBVIOUS
<1>0. /\ pc = "fetch" /\ todo = {} /\ pc' = "wait" /\ events' = {}
      /\ UNCHANGED <<chain, heads, block, window, logCache>>
  BY DEF Apply, node, caches
<1>1. PICK ok \in SUBSET events :
        /\ indexed' = indexed \cup ok
        /\ missed' = missed \cup {<<e[1], block.number>> : e \in events \ ok}
  BY DEF Apply
<1>2. WindowInv' /\ HeadsInv' /\ WalkInv'
  BY <1>0 DEF RealInv, WindowInv, HeadsInv, WalkInv
<1>3. DataInv'
  BY <1>0, <1>1 DEF RealInv, DataInv
<1>4. ASSUME NEW c \in Contracts, NEW n, Done(c, n) \/ Underway(c, n)
      PROVE  Done(c, n)'
  <2>1. CASE Done(c, n)
    BY <1>1, <2>1 DEF Done
  <2>2. CASE Underway(c, n)
    <3>1. PICK h \in Hashes : h[1] = n /\ <<c, h>> \in events /\ n = block.number
      BY <1>0, <2>2 DEF Underway
    <3>2. CASE <<c, h>> \in ok
      BY <1>1, <3>1, <3>2 DEF Done
    <3>3. CASE <<c, h>> \notin ok
      <4>1. <<<<c, h>>[1], block.number>> \in missed'
        BY <1>1, <3>1, <3>3
      <4>2. QED
        BY <3>1, <4>1 DEF Done
    <3>4. QED
      BY <3>2, <3>3
  <2>3. QED
    BY <1>4, <2>1, <2>2
<1>5. IndexInv'
  BY <1>0, <1>4 DEF RealInv, IndexInv
<1>6. QED
  BY <1>0, <1>2, <1>3, <1>5 DEF RealInv

\* The other steps only move the loop.
LEMMA OtherStep ==
    RealInv /\ (Connect \/ ConnectFails \/ Disconnect \/ HandleReorg \/ Fails \/ UNCHANGED vars)
        => RealInv'
<1> SUFFICES ASSUME RealInv,
                    Connect \/ ConnectFails \/ Disconnect \/ HandleReorg \/ Fails
                      \/ UNCHANGED vars
             PROVE  RealInv'
  OBVIOUS
<1>1. /\ UNCHANGED <<chain, heads, block, cursor, window, logCache, todo, events, indexed, missed>>
      /\ \/ pc' = pc \/ pc' = "stopped"
         \/ pc \in {"connect", "rollback"} /\ pc' = "wait"
  BY DEF Connect, ConnectFails, Disconnect, HandleReorg, Fails, vars, node, caches
<1>2. WindowInv' /\ HeadsInv' /\ WalkInv' /\ DataInv'
  BY <1>1 DEF RealInv, WindowInv, HeadsInv, WalkInv, DataInv
<1>3. \A c, n : (Done(c, n)' <=> Done(c, n)) /\ (Underway(c, n)' <=> Underway(c, n))
  BY <1>1 DEF Done, Underway
<1>4. IndexInv'
  <2>1. CASE pc' = pc
    BY <1>1, <1>3, <2>1 DEF RealInv, IndexInv
  <2>2. CASE pc' = "stopped"
    BY <2>2 DEF IndexInv
  <2>3. CASE pc \in {"connect", "rollback"} /\ pc' = "wait"
    BY <1>1, <1>3, <2>3 DEF RealInv, IndexInv
  <2>4. QED
    BY <1>1, <2>1, <2>2, <2>3
<1>5. QED
  BY <1>1, <1>2, <1>4 DEF RealInv

LEMMA RealStep == RealInv /\ [Next]_vars => RealInv'
BY NodeStep, ReceiveStep, WalkStep, FetchStep, ApplyStep, OtherStep DEF Next, Loop

LEMMA RealInit == Init => RealInv
<1> SUFFICES ASSUME Init
             PROVE  RealInv
  OBVIOUS
<1>1. ChainOk(chain)
  <2>1. DOMAIN chain = 0..0 /\ chain[0] = 0 /\ 0 \in Numbers /\ 0 \in 0..MaxBranch
    BY RealtimeAssumption DEF Init, Numbers
  <2>2. \A n \in DOMAIN chain : n = 0
    BY <2>1
  <2>3. QED
    BY <2>1, <2>2 DEF ChainOk
<1>2. heads = <<>> /\ window = <<>> /\ pc = "connect"
  BY DEF Init
<1>3. HeadsInv /\ WindowInv /\ WalkInv /\ IndexInv
  BY <1>2 DEF HeadsInv, WindowInv, WalkInv, IndexInv
<1>4. DataInv
  BY DEF Init, DataInv
<1>5. QED
  BY <1>1, <1>3, <1>4 DEF RealInv

LEMMA RealInvariance == Spec => []RealInv
BY RealInit, RealStep, PTL DEF Spec

-----------------------------------------------------------------------------
(* The theorems. *)

\* For any chain, any reorganisations and any window, a search for a fork starts
\* only when the stored hash of the parent is orphaned.
THEOREM NeverFalseReorg == Spec => []NoFalseReorg
<1>1. RealInv => NoFalseReorg
  BY DEF RealInv, WalkInv, NoFalseReorg, Orphaned, Canonical, Lost
<1>2. QED
  BY <1>1, RealInvariance, PTL

\* For any chain and window, what the window holds between two blocks was
\* indexed or its loss logged; on a chain that never forked, with the logs of
\* that very block.
THEOREM WindowIsIndexed == Spec => []WindowIndexed
<1>1. RealInv => WindowIndexed
  <2> SUFFICES ASSUME RealInv, pc = "wait", NEW i \in 1..Len(window), NEW c \in Contracts,
                      <<c, window[i][1]>> \notin missed
               PROVE  \E h \in Hashes : h[1] = window[i][1] /\ <<c, h>> \in indexed
                                          /\ (~Forked => h = window[i][2])
    BY DEF WindowIndexed
  <2>1. PICK h \in Hashes : h[1] = window[i][1] /\ <<c, h>> \in indexed
    BY DEF RealInv, IndexInv, Done
  <2>2. Known(chain, h) /\ EntryOk(chain, window[i])
    BY <2>1 DEF RealInv, DataInv, WindowInv
  <2>3. ASSUME ~Forked
        PROVE  h = window[i][2]
    <3>1. \A g : Known(chain, g) => g[2] = 0
      <4> SUFFICES ASSUME NEW g, Known(chain, g)
                   PROVE  g[2] = 0
        OBVIOUS
      <4>1. PICK n \in DOMAIN chain : g[2] <= chain[n]
        BY DEF Known
      <4>2. chain[n] = 0
        BY <2>3 DEF Forked
      <4>3. g[2] \in Nat
        BY RealtimeAssumption DEF Known, Hashes
      <4>4. QED
        BY <4>1, <4>2, <4>3
    <3>2. /\ h \in Hashes /\ window[i][2] \in Hashes /\ h[1] = window[i][2][1]
          /\ h[2] = 0 /\ window[i][2][2] = 0
      BY <2>1, <2>2, <3>1 DEF EntryOk, Known
    <3>3. QED
      BY <3>2 DEF Hashes
  <2>4. QED
    BY <2>1, <2>3
<1>2. QED
  BY <1>1, RealInvariance, PTL

\* In a window without holes the numbers do not fall, and no number between
\* two of them is left out.
LEMMA NoHoles ==
    ASSUME NEW w \in Seq(Entries),
           \A i \in 2..Len(w) : w[i][1] - w[i - 1][1] \in {0, 1},
           NEW i \in 1..Len(w), NEW k \in 1..Len(w), i < k
    PROVE  /\ w[i][1] <= w[k][1]
           /\ w[i][1] < w[k][1] => \E j \in 1..Len(w) : i < j /\ w[j][1] = w[i][1] + 1
<1>1. Len(w) \in Nat /\ \A j \in 1..Len(w) : w[j][1] \in Nat
  BY RealtimeAssumption DEF Entries, Numbers
<1>2. \A j \in 1..Len(w) : j > i => j - 1 \in 1..Len(w) /\ j - 1 >= i
  BY <1>1
<1>3. \A j \in 1..Len(w) : j > i => w[j][1] = w[j - 1][1] \/ w[j][1] = w[j - 1][1] + 1
  <2> SUFFICES ASSUME NEW j \in 1..Len(w), j > i
               PROVE  w[j][1] = w[j - 1][1] \/ w[j][1] = w[j - 1][1] + 1
    OBVIOUS
  <2>1. j \in 2..Len(w) /\ w[j][1] \in Nat /\ w[j - 1][1] \in Nat
    BY <1>1, <1>2
  <2>2. QED
    BY <2>1
<1>4. w[i][1] <= w[k][1]
  <2> SUFFICES ASSUME ~(w[i][1] <= w[k][1])
               PROVE  FALSE
    OBVIOUS
  <2> DEFINE T == {j \in 1..Len(w) : j > i /\ w[j][1] < w[i][1]}
  <2>1. T \in SUBSET Nat /\ k \in T
    BY <1>1
  <2>2. PICK j \in T : \A m \in T : j <= m
    BY <2>1, LeastNatural
  <2>3. j - 1 \in 1..Len(w) /\ j - 1 >= i /\ w[j][1] < w[i][1] /\ w[j - 1][1] <= w[j][1]
    <3>1. w[j - 1][1] \in Nat /\ j - 1 \in 1..Len(w) /\ j - 1 >= i
      BY <1>1, <1>2
    <3>2. QED
      BY <1>3, <3>1
  <2>4. j - 1 # i /\ w[j - 1][1] < w[i][1]
    BY <1>1, <2>3
  <2>5. j - 1 \in T
    BY <2>3, <2>4
  <2>6. j \in Nat /\ j <= j - 1
    BY <2>2, <2>5
  <2>7. QED
    BY <2>6
<1>5. ASSUME w[i][1] < w[k][1]
      PROVE  \E j \in 1..Len(w) : i < j /\ w[j][1] = w[i][1] + 1
  <2> DEFINE T == {j \in 1..Len(w) : j > i /\ w[j][1] > w[i][1]}
  <2>1. T \in SUBSET Nat /\ k \in T
    BY <1>1, <1>5
  <2>2. PICK j \in T : \A m \in T : j <= m
    BY <2>1, LeastNatural
  <2>3. j - 1 \notin T
    <3>1. j \in Nat /\ ~(j <= j - 1)
      OBVIOUS
    <3>2. QED
      BY <2>2, <3>1
  <2>4. j - 1 \in 1..Len(w) /\ j - 1 >= i /\ w[j - 1][1] \in Nat /\ w[j][1] > w[i][1]
    BY <1>1, <1>2
  <2>5. w[j - 1][1] <= w[i][1]
    <3>1. CASE j - 1 = i
      BY <1>1, <3>1
    <3>2. CASE j - 1 # i
      <4>1. j - 1 > i
        BY <2>4, <3>2
      <4>2. ~(w[j - 1][1] > w[i][1])
        BY <2>3, <2>4, <4>1
      <4>3. QED
        BY <1>1, <2>4, <4>2
    <3>3. QED
      BY <3>1, <3>2
  <2>6. w[j][1] = w[i][1] + 1
    BY <1>1, <1>3, <2>4, <2>5
  <2>7. QED
    BY <2>6
<1>6. QED
  BY <1>4, <1>5

\* Below a canonical entry a window without holes is canonical.
LEMMA CanonicalBelow ==
    ASSUME NEW ch, NEW w \in Seq(Entries),
           \A i, j \in 1..Len(w) : i < j => Followed(ch, w[i], w[j]),
           \A i \in 2..Len(w) : w[i][1] - w[i - 1][1] \in {0, 1},
           NEW k \in 1..Len(w), ~Lost(ch, w[k][2]),
           \A i \in 1..Len(w) : w[i][1] = w[k][1] => k <= i
    PROVE  \A i \in 1..Len(w) : w[i][1] <= w[k][1] => ~Lost(ch, w[i][2])
<1> DEFINE Bad == {i \in 1..Len(w) : w[i][1] <= w[k][1] /\ Lost(ch, w[i][2])}
           T == {w[k][1] - w[i][1] : i \in Bad}
<1> SUFFICES ASSUME Bad # {}
             PROVE  FALSE
  OBVIOUS
<1>1. Len(w) \in Nat /\ \A j \in 1..Len(w) : w[j][1] \in Nat
  BY RealtimeAssumption DEF Entries, Numbers
<1>2. T \in SUBSET Nat /\ T # {}
  <2>1. \A i \in Bad : w[k][1] - w[i][1] \in Nat
    BY <1>1
  <2>2. QED
    BY <2>1
<1>3. PICK t \in T : \A u \in T : t <= u
  BY <1>2, LeastNatural
<1>4. PICK i \in Bad : t = w[k][1] - w[i][1]
  BY <1>3
<1>5. CASE w[i][1] = w[k][1]
  <2>1. i # k /\ k <= i
    BY <1>4, <1>5
  <2>2. k < i
    BY <1>4, <2>1
  <2>3. QED
    BY <1>4, <1>5, <2>2 DEF Followed
<1>6. CASE w[i][1] # w[k][1]
  <2>1. w[i][1] < w[k][1] /\ i # k
    BY <1>1, <1>4, <1>6
  <2>2. ~(k < i)
    <3> SUFFICES ASSUME k < i
                 PROVE  FALSE
      OBVIOUS
    <3>1. w[k][1] <= w[i][1]
      BY <1>4, NoHoles
    <3>2. QED
      BY <1>1, <1>4, <2>1, <3>1
  <2>3. i < k
    BY <1>4, <2>1, <2>2
  <2>4. PICK j \in 1..Len(w) : i < j /\ w[j][1] = w[i][1] + 1
    BY <1>4, <2>1, <2>3, NoHoles
  <2>5. Lost(ch, w[j][2])
    BY <1>4, <2>4 DEF Followed
  <2>6. w[j][1] <= w[k][1]
    BY <1>1, <1>4, <2>1, <2>4
  <2>7. j \in Bad
    BY <2>5, <2>6
  <2>8. t <= w[k][1] - w[j][1]
    BY <1>3, <2>7
  <2>9. QED
    BY <1>1, <1>4, <2>4, <2>8
<1>7. QED
  BY <1>5, <1>6

\* A window without holes that holds number n + 1 and a number below n holds n.
LEMMA NumberBetween ==
    ASSUME NEW w \in Seq(Entries),
           \A i \in 2..Len(w) : w[i][1] - w[i - 1][1] \in {0, 1},
           NEW n \in Nat, NEW k \in 1..Len(w), w[k][1] = n + 1,
           NEW i \in 1..Len(w), w[i][1] < n
    PROVE  \E j \in 1..Len(w) : w[j][1] = n
<1> DEFINE Low == {j \in 1..Len(w) : w[j][1] < n}
           T == {n - w[j][1] : j \in Low}
<1> SUFFICES ASSUME \A j \in 1..Len(w) : w[j][1] # n
             PROVE  FALSE
  OBVIOUS
<1>1. Len(w) \in Nat /\ \A j \in 1..Len(w) : w[j][1] \in Nat
  BY RealtimeAssumption DEF Entries, Numbers
<1>2. T \in SUBSET Nat /\ n - w[i][1] \in T
  <2>1. \A j \in Low : n - w[j][1] \in Nat
    BY <1>1
  <2>2. QED
    BY <2>1
<1>3. PICK t \in T : \A u \in T : t <= u
  BY <1>2, LeastNatural
<1>4. PICK j \in Low : t = n - w[j][1]
  BY <1>3
<1>5. j < k
  <2> SUFFICES ASSUME ~(j < k)
               PROVE  FALSE
    OBVIOUS
  <2>1. j # k
    BY <1>1, <1>4
  <2>2. k < j
    BY <1>4, <2>1
  <2>3. w[k][1] <= w[j][1]
    BY <1>4, <2>2, NoHoles
  <2>4. QED
    BY <1>1, <1>4, <2>3
<1>6. PICK m \in 1..Len(w) : w[m][1] = w[j][1] + 1
  <2>1. w[j][1] < w[k][1]
    BY <1>1, <1>4
  <2>2. QED
    BY <1>4, <1>5, <2>1, NoHoles
<1>7. w[m][1] < n
  <2>1. w[m][1] # n
    OBVIOUS
  <2>2. QED
    BY <1>1, <1>4, <1>6, <2>1
<1>8. t <= n - w[m][1]
  BY <1>3, <1>7
<1>9. QED
  BY <1>1, <1>4, <1>6, <1>8

\* For any chain, reorganisations and window: when the detector decides on a
\* fork with a window without holes and block rows that are not stale, the
\* pruned window holds canonical hashes only.
THEOREM WindowAlwaysFollowsFork == Spec => WindowFollowsFork
<1> DEFINE Follows ==
       (/\ pc = "walk" /\ pc' = "rollback"
        /\ Contiguous
        /\ \A n \in Numbers : blockCache[n] = None \/ ~Orphaned(blockCache[n]))
       => \A i \in 1..Len(window') : ~Orphaned(window'[i][2])
<1>1. RealInv /\ [Next]_vars => Follows
  <2> SUFFICES ASSUME RealInv, [Next]_vars, pc = "walk", pc' = "rollback", Contiguous,
                      \A n \in Numbers : blockCache[n] = None \/ ~Orphaned(blockCache[n]),
                      NEW i \in 1..Len(window')
               PROVE  ~Lost(chain, window'[i][2])
    BY DEF Orphaned, Canonical, Lost
  <2>1. Walk
    BY DEF Next, Loop, vars, Mine, Reorganise, Announce, Connect, ConnectFails, Disconnect,
           Receive, HandleReorg, Apply, Fetch, FetchFails, Fails
  <2>2. PICK h \in Hashes :
          /\ LookUp(cursor, h)
          /\ \/ GetHash(window, cursor) \in {None, h} /\ Decide(cursor + 1)
             \/ GetHash(window, cursor) \notin {None, h} /\ Descend
    BY <2>1 DEF Walk
  <2>3. GetHash(window, cursor) \in {None, h} /\ window' = PruneAbove(window, SaturatingSub(cursor + 1, 1))
    BY <2>2 DEF Descend, Decide
  <2>4. /\ cursor \in Nat /\ cursor <= block.number - 1 /\ block.number \in Numbers
        /\ GetHash(window, block.number - 1) # None
        /\ cursor = block.number - 1 \/ GetHash(window, cursor + 1) # None
    BY DEF RealInv, WalkInv, HeaderOk, Headers
  <2>5. cursor \in Numbers /\ SaturatingSub(cursor + 1, 1) = cursor
    BY <2>4, RealtimeAssumption DEF Numbers, SaturatingSub
  <2>6. /\ window \in Seq(Entries)
        /\ \A m, n \in 1..Len(window) : m < n => Followed(chain, window[m], window[n])
        /\ \A m \in 2..Len(window) : window[m][1] - window[m - 1][1] \in {0, 1}
    BY DEF RealInv, WindowInv, Contiguous
  <2>7. /\ \A m \in 1..Len(window) : window[m][1] \in Nat
        /\ Len(window) \in Nat
    BY <2>6, RealtimeAssumption DEF Entries, Numbers
  <2> DEFINE l == Len(window')
  <2>8. /\ window' \in Seq(Entries) /\ l <= Len(window) /\ l \in Nat
        /\ \A m \in 1..l : window'[m] = window[m]
        /\ l # 0 => window[l][1] <= cursor
    BY <2>3, <2>5, <2>6, PruneFacts
  <2>9. i \in 1..Len(window) /\ window'[i] = window[i] /\ window[i][1] <= cursor
    <3>1. i \in 1..Len(window) /\ l \in 1..Len(window) /\ l # 0
      BY <2>7, <2>8
    <3>2. CASE i = l
      BY <2>8, <3>1, <3>2
    <3>3. CASE i # l
      <4>1. i < l
        BY <2>8, <3>3
      <4>2. window[i][1] <= window[l][1] /\ window[l][1] <= cursor
        BY <2>6, <2>8, <3>1, <4>1, NoHoles
      <4>3. window[i][1] <= cursor
        BY <2>4, <2>7, <3>1, <4>2
      <4>4. QED
        BY <2>8, <3>1, <4>3
    <3>4. QED
      BY <3>2, <3>3
  <2>10. CASE GetHash(window, cursor) = None
    <3>1. \A m \in 1..Len(window) : window[m][1] # cursor
      BY <2>6, <2>10, GetHashFacts
    <3>2. GetHash(window, cursor + 1) # None
      BY <2>4, <2>10
    <3>3. PICK k \in 1..Len(window) : window[k][1] = cursor + 1
      BY <2>6, <3>2, GetHashFacts
    <3>4. window[i][1] < cursor
      BY <2>4, <2>7, <2>9, <3>1
    <3>5. \E m \in 1..Len(window) : window[m][1] = cursor
      BY <2>4, <2>6, <2>9, <3>3, <3>4, NumberBetween
    <3>6. QED
      BY <3>1, <3>5
  <2>11. CASE GetHash(window, cursor) # None
    <3>1. PICK k \in 1..Len(window) :
            /\ window[k][1] = cursor /\ GetHash(window, cursor) = window[k][2]
            /\ \A m \in 1..Len(window) : window[m][1] = cursor => k <= m
      BY <2>6, <2>11, GetHashFacts
    <3>2. window[k][2] = h
      BY <2>3, <2>11, <3>1
    <3>3. ~Lost(chain, h)
      <4>1. CASE GetBlock(cursor) # None /\ h = GetBlock(cursor)
        BY <2>5, <4>1 DEF GetBlock, Orphaned, Canonical, Lost
      <4>2. CASE cursor \in DOMAIN chain /\ h = Canonical(cursor)
        BY <4>2 DEF Canonical, Lost
      <4>3. QED
        BY <2>2, <4>1, <4>2 DEF LookUp
    <3>4. ~Lost(chain, window[i][2])
      BY <2>6, <2>9, <3>1, <3>2, <3>3, CanonicalBelow
    <3>5. QED
      BY <2>9, <3>4
  <2>12. QED
    BY <2>10, <2>11
<1>2. QED
  BY <1>1, RealInvariance, PTL DEF Spec, WindowFollowsFork
=============================================================================
