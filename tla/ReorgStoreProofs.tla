-------------------------- MODULE ReorgStoreProofs --------------------------
(***************************************************************************)
(* Proofs about the shadow table and its replay, for any keys, values,     *)
(* number of blocks and of writes, and any confirmation depth: what        *)
(* pruning leaves is enough to undo every block that is not final, and a   *)
(* rollback restores the table, however often it is interrupted and begun  *)
(* again, unless a key was written twice in one of the undone blocks.      *)
(*                                                                         *)
(* A second attempt replays every inverse on a table the first attempt has *)
(* half undone, so the rows in between may be wrong (an UPDATE finds no    *)
(* row, an INSERT finds one).  That the last statement of a key comes out  *)
(* right nevertheless is because consecutive inverses of a key fit: an     *)
(* INSERT is followed by a DELETE and nothing else is.  So a wrong row     *)
(* meets a DELETE before it matters, and where there is none every inverse *)
(* of the key is an UPDATE or its only one an INSERT (Startable).          *)
(***************************************************************************)
EXTENDS ReorgStore, WellFoundedInduction, TLAPS

Rows == [text : Texts, number : Numbers \cup {Null}]
Entries == [key : Keys, row : Rows, block : Nat, op : {"DELETE", "INSERT", "UPDATE"}]

-----------------------------------------------------------------------------
(* Shadow tables, as sequences s. *)

\* The row an entry's key had before the write.
RowBefore(e) == IF e.op = "DELETE" THEN Absent ELSE e.row

\* Position i holds the oldest entry of key k above block b.
FirstAbove(s, k, b, i) ==
    /\ i \in 1..Len(s) /\ s[i].key = k /\ s[i].block > b
    /\ \A j \in 1..Len(s) : s[j].key = k /\ s[j].block > b => i <= j

NoneAbove(s, k, b) == \A i \in 1..Len(s) : s[i].key = k => ~(s[i].block > b)

\* With row r in the table now, undoing key k to the end of block b gives old.
Undoes(s, r, k, b, old) ==
    /\ \A i : FirstAbove(s, k, b, i) => SameText(RowBefore(s[i]), old)
    /\ NoneAbove(s, k, b) => SameText(r, old)

Sorted(s) == \A i, j \in 1..Len(s) : i < j => s[i].block <= s[j].block

\* Consecutive entries of a key fit: where a row was deleted (its inverse is an
\* INSERT) the next write inserted one.
Adjacent(s, i, j) ==
    /\ i < j /\ s[i].key = s[j].key
    /\ \A m \in 1..Len(s) : i < m /\ m < j => s[m].key # s[i].key
Linked(s) ==
    \A i, j \in 1..Len(s) :
        Adjacent(s, i, j) => (s[i].op = "INSERT" <=> s[j].op = "DELETE")

\* ...and the last one of a key fits the row r in the table.
LastFits(s, k, r) ==
    \A i \in 1..Len(s) :
        s[i].key = k /\ (\A m \in 1..Len(s) : i < m => s[m].key # k)
            => (s[i].op = "INSERT" <=> r = Absent)

\* Replaying the entries at positions P, all of one key, from the last to the
\* first, ends well if the key's row is r.
Startable(s, P, r) ==
    /\ (\A i \in P : s[i].op = "UPDATE") => r # Absent
    /\ \A i : P = {i} /\ s[i].op = "INSERT" => r = Absent \/ r.text = s[i].row.text

-----------------------------------------------------------------------------
(* The inductive invariant. *)

TypeInv ==
    /\ table \in [Keys -> Rows \cup {Absent}]
    /\ shadow \in Seq(Entries)
    /\ now \in Nat \ {0} /\ top \in Nat /\ now <= top /\ now <= MaxBlock + 1
    /\ pc \in {"idle", "replay", "interrupted", "restored"}
    /\ pc # "idle" => fork \in 1..MaxBlock /\ fork <= top
    /\ rows \subseteq 1..Len(shadow) /\ (pc # "replay" => rows = {})
    /\ asOf \in [0..MaxBlock -> [Keys -> Rows \cup {Absent}]]
    /\ tied \in BOOLEAN

\* The shadow table is in the order of the blocks.
OrderInv ==
    /\ Sorted(shadow)
    /\ pc = "idle" => \A i \in 1..Len(shadow) : shadow[i].block <= now
    /\ pc = "restored" => \A i \in 1..Len(shadow) : shadow[i].block < fork

\* Block b can still be the last one a rollback leaves.
Live(b) == ~IsFinalized(b + 1, top)

Of(T, k) == {i \in T : shadow[i].key = k}

IdleInv ==
    pc = "idle" =>
        /\ \A k \in Keys : LastFits(shadow, k, table[k])
        /\ \A k \in Keys, b \in 0..MaxBlock :
             Live(b) => Undoes(shadow, table[k], k, b, asOf[b][k])

\* A rollback is under way or was interrupted: it can be begun (again).
UndoInv ==
    pc \in {"replay", "interrupted"} =>
        /\ Live(fork - 1)
        /\ \A i, j \in Affected(fork) :
             i # j /\ shadow[i].key = shadow[j].key => shadow[i].block # shadow[j].block
        /\ \A k \in Keys, b \in 0..(fork - 1) :
             Live(b) => Undoes(shadow, table[k], k, b, asOf[b][k])
        /\ \A k \in Keys : NoneAbove(shadow, k, fork - 1) => LastFits(shadow, k, table[k])
        /\ \A k \in Keys :
             Of(Affected(fork), k) # {} => Startable(shadow, Of(Affected(fork), k), table[k])

\* What this attempt has still to replay of a key are its oldest entries; a key
\* with nothing left to replay is restored.
ReplayInv ==
    pc = "replay" =>
        /\ rows \subseteq Affected(fork)
        /\ \A i \in rows, j \in Affected(fork) :
             j < i /\ shadow[j].key = shadow[i].key => j \in rows
        /\ \A k \in Keys :
             IF Of(rows, k) # {} THEN Startable(shadow, Of(rows, k), table[k])
             ELSE \A i : FirstAbove(shadow, k, fork - 1, i)
                           => SameText(table[k], RowBefore(shadow[i]))

RestoredInv ==
    pc = "restored" =>
        /\ Live(fork - 1)
        /\ \A k \in Keys : LastFits(shadow, k, table[k])
        /\ \A k \in Keys, b \in 0..(fork - 1) :
             Live(b) => Undoes(shadow, table[k], k, b, asOf[b][k])

StoreInv ==
    /\ TypeInv
    /\ OrderInv
    /\ ~tied => Linked(shadow) /\ IdleInv /\ UndoInv /\ ReplayInv /\ RestoredInv

-----------------------------------------------------------------------------
(* Least and greatest positions. *)

\* A nonempty set of naturals has a least element.
LEMMA LeastNatural ==
    ASSUME NEW T \in SUBSET Nat, T # {}
    PROVE  \E n \in T : \A m \in T : n <= m
<1> DEFINE R == {ss \in Nat \X Nat : ss[1] < ss[2]}
<1>1. IsWellFoundedOn(R, Nat)
  BY NatLessThanWellFounded, Zenon DEF OpToRel
<1>2. PICK n \in T : \A y \in T : ~(<<y, n>> \in R)
  BY <1>1, WFMin, Zenon
<1>3. ASSUME NEW m \in T
      PROVE  n <= m
  <2>1. ~(m < n)
    <3>1. ASSUME m < n PROVE <<m, n>> \in R
      <4>1. <<m, n>> \in Nat \X Nat /\ <<m, n>>[1] < <<m, n>>[2]
        BY <3>1
      <4>2. QED
        BY <4>1, Zenon
    <3>2. QED
      BY <1>2, <3>1, Zenon
  <2>2. QED
    BY <2>1
<1>4. QED
  BY <1>3

\* A nonempty set of positions has a greatest element.
LEMMA GreatestPosition ==
    ASSUME NEW n \in Nat, NEW T \in SUBSET (1..n), T # {}
    PROVE  \E i \in T : \A j \in T : j <= i
<1> DEFINE D == {n - i : i \in T}
<1>1. \A i \in T : i \in Nat /\ n - i \in Nat
  OBVIOUS
<1>2. D \in SUBSET Nat /\ D # {}
  BY <1>1
<1>3. PICK d \in D : \A e \in D : d <= e
  BY <1>2, LeastNatural
<1>4. PICK i \in T : d = n - i
  BY <1>3
<1>5. ASSUME NEW j \in T
      PROVE  j <= i
  <2>1. n - i <= n - j
    BY <1>3, <1>4
  <2>2. QED
    BY <1>1, <2>1
<1>6. QED
  BY <1>5

-----------------------------------------------------------------------------
(* Deleting from a shadow table. *)

\* P are the positions of s above d up to l.
Interval(s, P, d, l) ==
    /\ s \in Seq(Entries) /\ d \in Nat /\ l \in Nat /\ d <= l /\ l <= Len(s)
    /\ \A i \in 1..Len(s) : i \in P <=> d < i /\ i <= l

\* t is that part of s.
PartOf(s, d, l, t) ==
    /\ t \in Seq(Entries) /\ Len(t) = l - d
    /\ \A i \in 1..(l - d) : t[i] = s[i + d]

\* Keeping an interval of positions gives that part of the sequence.
LEMMA KeepInterval ==
    ASSUME NEW s, NEW P, NEW d, NEW l, Interval(s, P, d, l)
    PROVE  PartOf(s, d, l, Keep(s, P))
<1>a. /\ s \in Seq(Entries) /\ d \in Nat /\ l \in Nat /\ d <= l /\ l <= Len(s)
      /\ \A i \in 1..Len(s) : i \in P <=> d < i /\ i <= l
  BY DEF Interval
<1> USE <1>a
<1> DEFINE n == Len(s)
           Part(m) == [j \in 1..m |-> s[j + d]]
           Upto(i) == IF i <= d THEN 0 ELSE IF i <= l THEN i - d ELSE l - d
           G == [i \in 0..n |-> Part(Upto(i))]
           Body(F, i) == IF i = 0 THEN <<>>
                         ELSE IF i \in P THEN Append(F[i - 1], s[i]) ELSE F[i - 1]
           H(F) == F = [i \in 0..n |-> Body(F, i)]
<1>0. n \in Nat
  OBVIOUS
<1>1. ASSUME NEW m \in Nat, m <= l - d
      PROVE  /\ Part(m) \in Seq(Entries) /\ Len(Part(m)) = m
             /\ \A j \in 1..m : Part(m)[j] = s[j + d]
  <2>1. \A j \in 1..m : j + d \in 1..n /\ s[j + d] \in Entries
    BY <1>0, <1>1
  <2>2. QED
    BY <1>1, <2>1
<1>2. ASSUME NEW i \in 0..n
      PROVE  Upto(i) \in Nat /\ Upto(i) <= l - d
  OBVIOUS
<1>3. Part(0) = <<>>
  OBVIOUS
<1>4. ASSUME NEW m \in Nat, m + 1 <= l - d
      PROVE  Part(m + 1) = Append(Part(m), s[m + 1 + d])
  <2>1. Part(m) \in Seq(Entries) /\ Len(Part(m)) = m /\ \A j \in 1..m : Part(m)[j] = s[j + d]
    <3>1. m <= l - d
      BY <1>4
    <3>2. QED
      BY <1>1, <3>1
  <2>2. DOMAIN Part(m + 1) = 1..(m + 1) /\ \A j \in 1..(m + 1) : Part(m + 1)[j] = s[j + d]
    OBVIOUS
  <2> HIDE DEF Part
  <2>3. /\ DOMAIN Append(Part(m), s[m + 1 + d]) = 1..(m + 1)
        /\ \A j \in 1..m : Append(Part(m), s[m + 1 + d])[j] = s[j + d]
        /\ Append(Part(m), s[m + 1 + d])[m + 1] = s[m + 1 + d]
    BY <2>1
  <2>4. QED
    BY <2>2, <2>3 DEF Part
<1>5. H(G)
  <2>1. ASSUME NEW i \in 0..n
        PROVE  G[i] = Body(G, i)
    <3>0. G[i] = Part(Upto(i)) /\ (i # 0 => i - 1 \in 0..n /\ G[i - 1] = Part(Upto(i - 1)))
      BY <1>0
    <3> HIDE DEF G, Part
    <3>1. CASE i = 0
      BY <1>3, <3>0, <3>1
    <3>2. CASE i # 0 /\ i \in P
      <4>1. d < i /\ i <= l /\ i \in 1..n
        BY <1>0, <3>2
      <4>2. Upto(i - 1) = i - 1 - d /\ Upto(i) = i - d /\ i - 1 - d \in Nat
        BY <1>0, <4>1
      <4>3. i - d = (i - 1 - d) + 1 /\ i = (i - 1 - d) + 1 + d /\ (i - 1 - d) + 1 <= l - d
        BY <1>0, <4>1
      <4>4. Part(i - d) = Append(Part(i - 1 - d), s[i])
        BY <1>4, <4>2, <4>3
      <4>5. QED
        BY <3>0, <3>2, <4>2, <4>4
    <3>3. CASE i # 0 /\ i \notin P
      <4>1. i \in 1..n /\ ~(d < i /\ i <= l)
        BY <1>0, <3>3
      <4>2. Upto(i - 1) = Upto(i)
        BY <1>0, <4>1
      <4>3. QED
        BY <3>0, <3>3, <4>2
    <3>4. QED
      BY <3>1, <3>2, <3>3
  <2>2. QED
    BY <2>1
<1> DEFINE K == CHOOSE F : H(F)
<1>6. Keep(s, P) = K[n]
  BY DEF Keep
<1>7. H(K)
  BY <1>5
<1>8. \A i \in 0..n : K[i] = G[i]
  <2> DEFINE T == {i \in 0..n : K[i] # G[i]}
  <2>0. \A i \in 0..n : K[i] = Body(K, i) /\ G[i] = Body(G, i)
    <3> HIDE DEF K, G
    <3>1. QED
      BY <1>5, <1>7
  <2> HIDE DEF K, G
  <2> SUFFICES ASSUME T # {}
               PROVE  FALSE
    OBVIOUS
  <2>1. T \in SUBSET Nat
    BY <1>0
  <2>2. PICK i \in T : \A j \in T : i <= j
    BY <2>1, LeastNatural
  <2>3. CASE i = 0
    BY <2>0, <2>2, <2>3
  <2>4. CASE i # 0
    <3>1. i - 1 \in 0..n /\ i - 1 \notin T
      BY <1>0, <2>2, <2>4
    <3>2. K[i - 1] = G[i - 1]
      BY <3>1
    <3>3. QED
      BY <2>0, <2>2, <2>4, <3>2
  <2>5. QED
    BY <2>3, <2>4
<1>9. Keep(s, P) = Part(l - d)
  <2>1. G[n] = Part(Upto(n)) /\ n \in 0..n
    BY <1>0
  <2>2. Upto(n) = l - d
    BY <1>0
  <2> HIDE DEF K, G, Part, Upto
  <2>3. QED
    BY <1>6, <1>8, <2>1, <2>2
<1>10. QED
  <2>1. l - d \in Nat /\ l - d <= l - d
    OBVIOUS
  <2> HIDE DEF Part
  <2>2. QED
    BY <1>1, <1>9, <2>1 DEF PartOf

\* The entries of a shadow table and their fields.
LEMMA EntryTypes ==
    ASSUME NEW s \in Seq(Entries)
    PROVE  /\ Len(s) \in Nat
           /\ \A i \in 1..Len(s) :
                /\ s[i] \in Entries
                /\ s[i].key \in Keys /\ s[i].row \in Rows /\ s[i].block \in Nat
                /\ s[i].op \in {"DELETE", "INSERT", "UPDATE"}
<1>1. Len(s) \in Nat /\ \A i \in 1..Len(s) : s[i] \in Entries
  OBVIOUS
<1>2. ASSUME NEW e \in Entries
      PROVE  /\ e.key \in Keys /\ e.row \in Rows /\ e.block \in Nat
             /\ e.op \in {"DELETE", "INSERT", "UPDATE"}
  BY DEF Entries
<1>3. QED
  BY <1>1, <1>2

\* A sorted shadow table is cut in two at any block.
LEMMA SortedCut ==
    ASSUME NEW s \in Seq(Entries), Sorted(s), NEW f \in Nat
    PROVE  \E l \in Nat : l <= Len(s) /\ \A i \in 1..Len(s) : s[i].block >= f <=> l < i
<1> DEFINE T == {i \in 1..Len(s) : s[i].block >= f}
<1>0. Len(s) \in Nat /\ \A i \in 1..Len(s) : s[i].block \in Nat
  BY EntryTypes
<1>1. CASE T = {}
  <2>1. \A i \in 1..Len(s) : s[i].block >= f <=> Len(s) < i
    BY <1>0, <1>1
  <2>2. Len(s) \in Nat /\ Len(s) <= Len(s)
    BY <1>0
  <2>3. QED
    BY <2>1, <2>2, Zenon
<1>2. CASE T # {}
  <2>0. T \in SUBSET Nat
    BY <1>0
  <2>1. PICK m \in T : \A i \in T : m <= i
    <3> HIDE DEF T
    <3>1. QED
      BY <1>2, <2>0, LeastNatural
  <2>2. m - 1 \in Nat /\ m - 1 <= Len(s) /\ m \in 1..Len(s) /\ s[m].block >= f
    BY <1>0, <2>1
  <2>3. ASSUME NEW i \in 1..Len(s)
        PROVE  s[i].block >= f <=> m - 1 < i
    <3>1. s[i].block >= f => m <= i
      BY <2>1
    <3>2. m < i => s[m].block <= s[i].block
      BY <2>2 DEF Sorted
    <3>3. QED
      BY <1>0, <2>2, <3>1, <3>2
  <2>4. QED
    BY <2>2, <2>3
<1>3. QED
  BY <1>1, <1>2

\* A key with an entry above block b has an oldest one.
LEMMA FirstExists ==
    ASSUME NEW s \in Seq(Entries), NEW k, NEW b \in Nat, ~NoneAbove(s, k, b)
    PROVE  \E i : FirstAbove(s, k, b, i)
<1> DEFINE T == {i \in 1..Len(s) : s[i].key = k /\ s[i].block > b}
<1>1. T \in SUBSET Nat /\ T # {}
  BY EntryTypes DEF NoneAbove
<1>2. PICK i \in T : \A j \in T : i <= j
  <2> HIDE DEF T
  <2>1. QED
    BY <1>1, LeastNatural
<1>3. QED
  BY <1>2 DEF FirstAbove

\* Rows that agree on their text: an equivalence.
LEMMA SameTextEquivalence ==
    /\ \A r : SameText(r, r)
    /\ \A r, s : SameText(r, s) => SameText(s, r)
    /\ \A r, s, t : SameText(r, s) /\ SameText(s, t) => SameText(r, t)
BY DEF SameText

-----------------------------------------------------------------------------
(* record_flush appends an entry. *)

\* Appending an entry no older than the others that fits the key's last one.
LEMMA AppendFits ==
    ASSUME NEW s \in Seq(Entries), NEW e \in Entries, NEW new,
           Sorted(s), Linked(s),
           \A i \in 1..Len(s) : s[i].block <= e.block,
           \A i \in 1..Len(s) :
              s[i].key = e.key /\ (\A m \in 1..Len(s) : i < m => s[m].key # e.key)
                  => (s[i].op = "INSERT" <=> e.op = "DELETE"),
           e.op = "INSERT" <=> new = Absent
    PROVE  /\ Sorted(Append(s, e)) /\ Linked(Append(s, e))
           /\ LastFits(Append(s, e), e.key, new)
           /\ \A k, r : k # e.key /\ LastFits(s, k, r) => LastFits(Append(s, e), k, r)
<1> DEFINE t == Append(s, e)
           n == Len(s)
<1>1. /\ n \in Nat /\ Len(t) = n + 1 /\ t[n + 1] = e
      /\ \A i \in 1..n : t[i] = s[i]
      /\ \A i \in 1..(n + 1) : i \in 1..n \/ i = n + 1
      /\ \A i \in 1..n : i \in 1..(n + 1) /\ i < n + 1 /\ s[i].block \in Nat
      /\ e.block \in Nat
  <2>1. n \in Nat /\ Len(t) = n + 1 /\ t[n + 1] = e /\ \A i \in 1..n : t[i] = s[i]
    OBVIOUS
  <2>2. \A i \in 1..n : s[i].block \in Nat
    BY EntryTypes
  <2>3. e.block \in Nat
    BY DEF Entries
  <2>4. QED
    BY <2>1, <2>2, <2>3
<1> HIDE DEF t, n
<1>2. Sorted(t)
  <2> SUFFICES ASSUME NEW i \in 1..(n + 1), NEW j \in 1..(n + 1), i < j
               PROVE  t[i].block <= t[j].block
    BY <1>1 DEF Sorted
  <2>1. i \in 1..n
    BY <1>1
  <2>2. CASE j \in 1..n
    BY <1>1, <2>1, <2>2 DEF Sorted, n
  <2>3. CASE j = n + 1
    BY <1>1, <2>1, <2>3 DEF n
  <2>4. QED
    BY <1>1, <2>2, <2>3
<1>3. Linked(t)
  <2> SUFFICES ASSUME NEW i \in 1..(n + 1), NEW j \in 1..(n + 1), Adjacent(t, i, j)
               PROVE  t[i].op = "INSERT" <=> t[j].op = "DELETE"
    BY <1>1 DEF Linked
  <2>1. /\ i < j /\ t[i].key = t[j].key
        /\ \A m \in 1..(n + 1) : i < m /\ m < j => t[m].key # t[i].key
    BY <1>1 DEF Adjacent
  <2>2. i \in 1..n
    BY <1>1, <2>1
  <2>3. CASE j \in 1..n
    <3>1. Adjacent(s, i, j)
      BY <1>1, <2>1, <2>2, <2>3 DEF Adjacent, n
    <3>2. QED
      BY <1>1, <2>2, <2>3, <3>1 DEF Linked, n
  <2>4. CASE j = n + 1
    <3>1. s[i].key = e.key /\ \A m \in 1..n : i < m => s[m].key # e.key
      BY <1>1, <2>1, <2>2, <2>4
    <3>2. s[i].op = "INSERT" <=> e.op = "DELETE"
      BY <2>2, <3>1 DEF n
    <3>3. QED
      BY <1>1, <2>2, <2>4, <3>2
  <2>5. QED
    BY <1>1, <2>3, <2>4
<1>4. LastFits(t, e.key, new)
  <2> SUFFICES ASSUME NEW i \in 1..(n + 1), \A m \in 1..(n + 1) : i < m => t[m].key # e.key
               PROVE  t[i].op = "INSERT" <=> new = Absent
    BY <1>1 DEF LastFits
  <2>1. i = n + 1
    BY <1>1
  <2>2. QED
    BY <1>1, <2>1
<1>5. ASSUME NEW k, NEW r, k # e.key, LastFits(s, k, r)
      PROVE  LastFits(t, k, r)
  <2> SUFFICES ASSUME NEW i \in 1..(n + 1), t[i].key = k,
                      \A m \in 1..(n + 1) : i < m => t[m].key # k
               PROVE  t[i].op = "INSERT" <=> r = Absent
    BY <1>1 DEF LastFits
  <2>1. i \in 1..n
    BY <1>1, <1>5
  <2>2. s[i].key = k /\ \A m \in 1..n : i < m => s[m].key # k
    BY <1>1, <2>1
  <2>3. QED
    BY <1>1, <1>5, <2>1, <2>2 DEF LastFits, n
<1>6. QED
  BY <1>2, <1>3, <1>4, <1>5 DEF t

\* A new entry of another key changes nothing; one of this key that holds the
\* row before it undoes as much as was undone before.
LEMMA AppendUndoes ==
    ASSUME NEW s \in Seq(Entries), NEW e \in Entries, NEW k, NEW b \in Nat, NEW old,
           NEW r, NEW new, Undoes(s, r, k, b, old),
           \/ e.key # k /\ new = r
           \/ e.key = k /\ e.block > b /\ SameText(RowBefore(e), r)
    PROVE  Undoes(Append(s, e), new, k, b, old)
<1> DEFINE t == Append(s, e)
           n == Len(s)
<1>1. /\ n \in Nat /\ Len(t) = n + 1 /\ t[n + 1] = e
      /\ \A i \in 1..n : t[i] = s[i] /\ i \in 1..(n + 1)
      /\ \A i \in 1..(n + 1) : i \in 1..n \/ i = n + 1
  OBVIOUS
<1> HIDE DEF t, n
<1>2. ASSUME NEW i, FirstAbove(t, k, b, i)
      PROVE  SameText(RowBefore(t[i]), old)
  <2>1. /\ i \in 1..(n + 1) /\ t[i].key = k /\ t[i].block > b
        /\ \A j \in 1..(n + 1) : t[j].key = k /\ t[j].block > b => i <= j
    BY <1>1, <1>2 DEF FirstAbove
  <2>2. CASE i \in 1..n
    <3>1. FirstAbove(s, k, b, i)
      BY <1>1, <2>1, <2>2 DEF FirstAbove, n
    <3>2. QED
      BY <1>1, <2>2, <3>1 DEF Undoes
  <2>3. CASE i = n + 1
    <3>1. NoneAbove(s, k, b)
      <4> SUFFICES ASSUME NEW j \in 1..n, s[j].key = k, s[j].block > b
                   PROVE  FALSE
        BY DEF NoneAbove, n
      <4>1. i <= j
        BY <1>1, <2>1
      <4>2. QED
        BY <1>1, <2>3, <4>1
    <3>2. SameText(r, old)
      BY <3>1 DEF Undoes
    <3>3. SameText(RowBefore(e), r)
      BY <1>1, <2>1, <2>3
    <3>4. QED
      BY <1>1, <2>3, <3>2, <3>3, SameTextEquivalence
  <2>4. QED
    BY <1>1, <2>1, <2>2, <2>3
<1>3. ASSUME NoneAbove(t, k, b)
      PROVE  SameText(new, old)
  <2>1. e.key # k
    BY <1>1, <1>3 DEF NoneAbove
  <2>2. NoneAbove(s, k, b)
    BY <1>1, <1>3 DEF NoneAbove, n
  <2>3. QED
    BY <2>1, <2>2 DEF Undoes
<1>4. QED
  BY <1>2, <1>3 DEF Undoes, t

\* Where no entry is above block b, the row undone to b is the row itself.
LEMMA UndoesNothing ==
    ASSUME NEW s \in Seq(Entries), NEW k, NEW b \in Nat, NEW r,
           \A i \in 1..Len(s) : s[i].block <= b
    PROVE  Undoes(s, r, k, b, r)
<1>1. \A i \in 1..Len(s) : s[i].block \in Nat /\ ~(s[i].block > b)
  BY EntryTypes
<1>2. QED
  BY <1>1, SameTextEquivalence DEF Undoes, FirstAbove

-----------------------------------------------------------------------------
(* clear_before_block keeps the end of the shadow table, the clean-up after a *)
(* rollback its beginning.                                                  *)

\* t is s without its first d entries.
LEMMA SuffixFits ==
    ASSUME NEW s \in Seq(Entries), NEW t \in Seq(Entries), NEW d \in Nat, d <= Len(s),
           Len(t) = Len(s) - d, \A i \in 1..(Len(s) - d) : t[i] = s[i + d],
           Sorted(s), Linked(s)
    PROVE  /\ Sorted(t) /\ Linked(t)
           /\ \A k, r : LastFits(s, k, r) => LastFits(t, k, r)
<1> DEFINE n == Len(s)
<1>1. n \in Nat /\ \A i \in 1..(n - d) : i \in Nat /\ i + d \in 1..n /\ t[i] = s[i + d]
  BY EntryTypes
<1>2. \A m \in 1..n : d < m => m - d \in 1..(n - d) /\ (m - d) + d = m
  BY <1>1
<1> HIDE DEF n
<1>3. Len(t) = n - d
  BY DEF n
<1>4. Sorted(t)
  <2> SUFFICES ASSUME NEW i \in 1..(n - d), NEW j \in 1..(n - d), i < j
               PROVE  t[i].block <= t[j].block
    BY <1>3 DEF Sorted
  <2>1. i + d < j + d /\ i + d \in 1..n /\ j + d \in 1..n
    BY <1>1
  <2>2. QED
    BY <1>1, <2>1 DEF Sorted, n
<1>5. Linked(t)
  <2> SUFFICES ASSUME NEW i \in 1..(n - d), NEW j \in 1..(n - d), Adjacent(t, i, j)
               PROVE  t[i].op = "INSERT" <=> t[j].op = "DELETE"
    BY <1>3 DEF Linked
  <2>1. /\ i < j /\ t[i].key = t[j].key
        /\ \A m \in 1..(n - d) : i < m /\ m < j => t[m].key # t[i].key
    BY <1>3 DEF Adjacent
  <2>2. i + d < j + d /\ i + d \in 1..n /\ j + d \in 1..n
    BY <1>1, <2>1
  <2>3. ASSUME NEW m \in 1..n, i + d < m, m < j + d
        PROVE  s[m].key # s[i + d].key
    <3>1. d < m /\ i < m - d /\ m - d < j
      BY <1>1, <2>3
    <3>2. m - d \in 1..(n - d) /\ t[m - d] = s[m]
      BY <1>1, <1>2, <3>1
    <3>3. t[m - d].key # t[i].key
      BY <2>1, <3>1, <3>2
    <3>4. QED
      BY <1>1, <3>2, <3>3
  <2>4. Adjacent(s, i + d, j + d)
    BY <1>1, <2>1, <2>2, <2>3 DEF Adjacent, n
  <2>5. QED
    BY <1>1, <2>2, <2>4 DEF Linked, n
<1>6. ASSUME NEW k, NEW r, LastFits(s, k, r)
      PROVE  LastFits(t, k, r)
  <2> SUFFICES ASSUME NEW i \in 1..(n - d), t[i].key = k,
                      \A m \in 1..(n - d) : i < m => t[m].key # k
               PROVE  t[i].op = "INSERT" <=> r = Absent
    BY <1>3 DEF LastFits
  <2>1. ASSUME NEW m \in 1..n, i + d < m
        PROVE  s[m].key # k
    <3>1. d < m /\ i < m - d
      BY <1>1, <2>1
    <3>2. m - d \in 1..(n - d) /\ t[m - d] = s[m]
      BY <1>1, <1>2, <3>1
    <3>3. QED
      BY <3>1, <3>2
  <2>2. QED
    BY <1>1, <1>6, <2>1 DEF LastFits, n
<1>7. QED
  BY <1>4, <1>5, <1>6

\* ...and undoes as much as s where those d entries are not above the block.
LEMMA SuffixUndoes ==
    ASSUME NEW s \in Seq(Entries), NEW t \in Seq(Entries), NEW d \in Nat, d <= Len(s),
           Len(t) = Len(s) - d, \A i \in 1..(Len(s) - d) : t[i] = s[i + d],
           NEW b \in Nat, \A i \in 1..Len(s) : i <= d => s[i].block <= b,
           NEW k, NEW r, NEW old, Undoes(s, r, k, b, old)
    PROVE  Undoes(t, r, k, b, old)
<1> DEFINE n == Len(s)
<1>1. n \in Nat /\ \A i \in 1..(n - d) : i \in Nat /\ i + d \in 1..n /\ t[i] = s[i + d]
  BY EntryTypes
<1>2. \A m \in 1..n : d < m => m - d \in 1..(n - d) /\ (m - d) + d = m
  BY <1>1
<1>3. \A m \in 1..n : m \in Nat /\ s[m].block \in Nat /\ (s[m].block > b => d < m)
  BY <1>1, EntryTypes
<1> HIDE DEF n
<1>4. Len(t) = n - d
  BY DEF n
<1>5. ASSUME NEW i, FirstAbove(t, k, b, i)
      PROVE  SameText(RowBefore(t[i]), old)
  <2>1. /\ i \in 1..(n - d) /\ t[i].key = k /\ t[i].block > b
        /\ \A j \in 1..(n - d) : t[j].key = k /\ t[j].block > b => i <= j
    BY <1>4, <1>5 DEF FirstAbove
  <2>2. ASSUME NEW m \in 1..n, s[m].key = k, s[m].block > b
        PROVE  i + d <= m
    <3>1. d < m /\ m - d \in 1..(n - d) /\ t[m - d] = s[m]
      BY <1>1, <1>2, <1>3, <2>2
    <3>2. i <= m - d
      BY <2>1, <2>2, <3>1
    <3>3. QED
      BY <1>1, <1>3, <2>1, <3>1, <3>2
  <2>3. FirstAbove(s, k, b, i + d)
    BY <1>1, <2>1, <2>2 DEF FirstAbove, n
  <2>4. QED
    BY <1>1, <2>1, <2>3 DEF Undoes
<1>6. ASSUME NoneAbove(t, k, b)
      PROVE  SameText(r, old)
  <2>1. ASSUME NEW m \in 1..n, s[m].key = k, s[m].block > b
        PROVE  FALSE
    <3>1. d < m /\ m - d \in 1..(n - d) /\ t[m - d] = s[m]
      BY <1>1, <1>2, <1>3, <2>1
    <3>2. QED
      BY <1>4, <1>6, <2>1, <3>1 DEF NoneAbove
  <2>2. NoneAbove(s, k, b)
    BY <2>1 DEF NoneAbove, n
  <2>3. QED
    BY <2>2 DEF Undoes
<1>7. QED
  BY <1>5, <1>6 DEF Undoes

\* t is the first l entries of s.
LEMMA PrefixFits ==
    ASSUME NEW s \in Seq(Entries), NEW t \in Seq(Entries), NEW l \in Nat, l <= Len(s),
           Len(t) = l, \A i \in 1..l : t[i] = s[i],
           Sorted(s), Linked(s)
    PROVE  Sorted(t) /\ Linked(t)
<1> DEFINE n == Len(s)
<1>1. n \in Nat /\ \A i \in 1..l : i \in 1..n
  BY EntryTypes
<1>2. Sorted(t)
  BY <1>1 DEF Sorted
<1>3. ASSUME NEW i \in 1..l, NEW j \in 1..l, Adjacent(t, i, j)
      PROVE  t[i].op = "INSERT" <=> t[j].op = "DELETE"
  <2>1. /\ i < j /\ t[i].key = t[j].key
        /\ \A m \in 1..l : i < m /\ m < j => t[m].key # t[i].key
    BY <1>3 DEF Adjacent
  <2>2. ASSUME NEW m \in 1..n, i < m, m < j
        PROVE  m \in 1..l
    BY <1>1, <2>2
  <2>3. Adjacent(s, i, j)
    BY <1>1, <2>1, <2>2 DEF Adjacent
  <2>4. QED
    BY <1>1, <2>3 DEF Linked
<1>4. QED
  BY <1>2, <1>3 DEF Linked

\* The first l entries of s are those not above block f.  Where every key that
\* has an entry above f has the row before the oldest of them, what is left
\* undoes the earlier blocks and fits the table.
LEMMA PrefixUndoes ==
    ASSUME NEW s \in Seq(Entries), NEW t \in Seq(Entries), NEW l \in Nat, l <= Len(s),
           Len(t) = l, \A i \in 1..l : t[i] = s[i],
           NEW f \in Nat, \A i \in 1..Len(s) : s[i].block > f <=> l < i,
           NEW k, NEW r, \A i : FirstAbove(s, k, f, i) => SameText(r, RowBefore(s[i])),
           NEW b \in Nat, b <= f, NEW old, Undoes(s, r, k, b, old)
    PROVE  Undoes(t, r, k, b, old)
<1> DEFINE n == Len(s)
<1>1. /\ n \in Nat
      /\ \A i \in 1..l : i \in 1..n /\ t[i] = s[i]
      /\ \A i \in 1..n : i \in 1..l \/ l < i
      /\ \A i \in 1..n : s[i].block \in Nat /\ (l < i => s[i].block > f /\ s[i].block > b)
  BY EntryTypes
<1> HIDE DEF n
<1>2. ASSUME NEW i, FirstAbove(t, k, b, i)
      PROVE  SameText(RowBefore(t[i]), old)
  <2>1. /\ i \in 1..l /\ t[i].key = k /\ t[i].block > b
        /\ \A j \in 1..l : t[j].key = k /\ t[j].block > b => i <= j
    BY <1>2 DEF FirstAbove
  <2>2. ASSUME NEW j \in 1..n, s[j].key = k, s[j].block > b
        PROVE  i <= j
    BY <1>1, <2>1, <2>2
  <2>3. FirstAbove(s, k, b, i)
    BY <1>1, <2>1, <2>2 DEF FirstAbove, n
  <2>4. QED
    BY <1>1, <2>1, <2>3 DEF Undoes
<1>3. ASSUME NoneAbove(t, k, b)
      PROVE  SameText(r, old)
  <2>0. ASSUME NEW i \in 1..n, s[i].key = k, s[i].block > b
        PROVE  l < i
    BY <1>1, <1>3, <2>0 DEF NoneAbove
  <2>1. CASE NoneAbove(s, k, f)
    <3>1. NoneAbove(s, k, b)
      BY <1>1, <2>0, <2>1 DEF NoneAbove, n
    <3>2. QED
      BY <3>1 DEF Undoes
  <2>2. CASE ~NoneAbove(s, k, f)
    <3>1. PICK i : FirstAbove(s, k, f, i)
      BY <2>2, FirstExists
    <3>2. i \in 1..n /\ s[i].key = k /\ s[i].block > f /\ s[i].block > b
      BY <1>1, <3>1 DEF FirstAbove, n
    <3>3. ASSUME NEW j \in 1..n, s[j].key = k, s[j].block > b
          PROVE  i <= j
      BY <1>1, <2>0, <3>1, <3>3 DEF FirstAbove, n
    <3>4. FirstAbove(s, k, b, i)
      BY <3>2, <3>3 DEF FirstAbove, n
    <3>5. SameText(r, RowBefore(s[i])) /\ SameText(RowBefore(s[i]), old)
      BY <3>1, <3>4 DEF Undoes
    <3>6. QED
      BY <3>5, SameTextEquivalence
  <2>3. QED
    BY <2>1, <2>2
<1>4. QED
  BY <1>2, <1>3 DEF Undoes

LEMMA PrefixLast ==
    ASSUME NEW s \in Seq(Entries), NEW t \in Seq(Entries), NEW l \in Nat, l <= Len(s),
           Len(t) = l, \A i \in 1..l : t[i] = s[i], Linked(s),
           NEW f \in Nat, \A i \in 1..Len(s) : s[i].block > f <=> l < i,
           NEW k, NEW r, \A i : FirstAbove(s, k, f, i) => SameText(r, RowBefore(s[i])),
           NoneAbove(s, k, f) => LastFits(s, k, r)
    PROVE  LastFits(t, k, r)
<1> DEFINE n == Len(s)
<1>1. /\ n \in Nat
      /\ \A i \in 1..l : i \in 1..n /\ t[i] = s[i]
      /\ \A i \in 1..n : i \in 1..l \/ l < i
      /\ \A i \in 1..n : l < i <=> s[i].block > f
  BY EntryTypes
<1> HIDE DEF n
<1> SUFFICES ASSUME NEW i \in 1..l, t[i].key = k, \A m \in 1..l : i < m => t[m].key # k
             PROVE  t[i].op = "INSERT" <=> r = Absent
  BY DEF LastFits
<1>2. CASE NoneAbove(s, k, f)
  <2>1. ASSUME NEW m \in 1..n, i < m
        PROVE  s[m].key # k
    BY <1>1, <1>2, <2>1 DEF NoneAbove, n
  <2>2. QED
    BY <1>1, <1>2, <2>1 DEF LastFits, n
<1>3. CASE ~NoneAbove(s, k, f)
  <2>1. PICK j : FirstAbove(s, k, f, j)
    BY <1>3, FirstExists
  <2>2. /\ j \in 1..n /\ s[j].key = k /\ l < j
        /\ \A m \in 1..n : s[m].key = k /\ l < m => j <= m
    BY <1>1, <2>1 DEF FirstAbove, n
  <2>3. i < j
    BY <1>1, <2>2
  <2>4. ASSUME NEW m \in 1..n, i < m, m < j
        PROVE  s[m].key # k
    BY <1>1, <2>2, <2>4
  <2>5. Adjacent(s, i, j)
    BY <1>1, <2>2, <2>3, <2>4 DEF Adjacent, n
  <2>6. s[i].op = "INSERT" <=> s[j].op = "DELETE"
    BY <1>1, <2>2, <2>5 DEF Linked, n
  <2>7. s[j].row \in Rows /\ s[j].row # Absent
    BY <2>2, EntryTypes, StoreAssumption DEF n, Rows
  <2>8. s[j].op = "DELETE" <=> r = Absent
    BY <2>1, <2>7 DEF SameText, RowBefore
  <2>9. QED
    BY <1>1, <2>6, <2>8
<1>4. QED
  BY <1>2, <1>3

-----------------------------------------------------------------------------
(* rollback_from_block replays one entry. *)

\* The statement for entry e makes row r of its key the row new.
Effect(e, r, new) ==
    /\ e.op = "DELETE" => new = Absent
    /\ e.op = "INSERT" => IF r = Absent THEN new # Absent /\ new.text = e.row.text ELSE new = r
    /\ e.op = "UPDATE" => IF r = Absent THEN new = Absent
                          ELSE new # Absent /\ new.text = e.row.text

LEMMA UndoneEffect ==
    ASSUME TypeInv, NEW e \in Entries
    PROVE  Undone(e) \in Rows \cup {Absent} /\ Effect(e, table[e.key], Undone(e))
<1>1. /\ e.key \in Keys /\ e.row \in Rows /\ e.op \in {"DELETE", "INSERT", "UPDATE"}
  BY DEF Entries
<1>2. /\ AsText(e.row) \in Rows /\ AsText(e.row).text = e.row.text
      /\ AsText(e.row) # Absent
  <2>1. AsText(e.row) \in Rows /\ AsText(e.row).text = e.row.text
    BY <1>1 DEF AsText, Rows
  <2>2. QED
    BY <2>1, StoreAssumption DEF Rows
<1>3. table[e.key] \in Rows \cup {Absent}
  BY <1>1 DEF TypeInv
<1>4. CASE e.op = "DELETE"
  BY <1>4 DEF Undone, Effect
<1>5. CASE e.op = "INSERT"
  BY <1>2, <1>3, <1>5 DEF Undone, Effect
<1>6. CASE e.op = "UPDATE"
  BY <1>2, <1>3, <1>6 DEF Undone, Effect
<1>7. QED
  BY <1>1, <1>4, <1>5, <1>6

\* Replaying position i, the newest of its key among the remaining positions R:
\* the key can be replayed from the start again, and if i was its last one it
\* is restored.
LEMMA ReplayKey ==
    ASSUME shadow \in Seq(Entries), Sorted(shadow), Linked(shadow), fork \in Nat \ {0},
           rows \subseteq Affected(fork),
           \A p \in rows, q \in Affected(fork) :
              q < p /\ shadow[q].key = shadow[p].key => q \in rows,
           NEW i \in rows, \A j \in rows : shadow[j].key = shadow[i].key => j <= i,
           NEW r, NEW new, Effect(shadow[i], r, new),
           Startable(shadow, Of(rows, shadow[i].key), r)
    PROVE  /\ Startable(shadow, Of(Affected(fork), shadow[i].key), new)
           /\ IF Of(rows \ {i}, shadow[i].key) # {}
              THEN Startable(shadow, Of(rows \ {i}, shadow[i].key), new)
              ELSE \A j : FirstAbove(shadow, shadow[i].key, fork - 1, j)
                            => SameText(new, RowBefore(shadow[j]))
<1> DEFINE n == Len(shadow)
           k == shadow[i].key
           A == Affected(fork)
           P == Of(rows, k)
           Q == Of(A, k)
           T == Of(rows \ {i}, k)
<1>a. A = {j \in 1..n : shadow[j].block >= fork}
  BY DEF Affected
<1>b. /\ P = {j \in rows : shadow[j].key = k}
      /\ Q = {j \in A : shadow[j].key = k}
      /\ T = {j \in rows \ {i} : shadow[j].key = k}
  BY DEF Of
<1>c. /\ rows \subseteq A /\ Startable(shadow, P, r)
      /\ \A p \in rows, q \in A : q < p /\ shadow[q].key = shadow[p].key => q \in rows
  OBVIOUS
<1> HIDE DEF A, P, Q, T
<1>0. /\ n \in Nat
      /\ \A j \in 1..n : j \in Nat /\ shadow[j].block \in Nat /\ shadow[j].row \in Rows
                         /\ shadow[j].op \in {"DELETE", "INSERT", "UPDATE"}
      /\ i \in 1..n /\ i \in A /\ i \in P /\ i \in Q
      /\ \A j \in A : j \in 1..n /\ shadow[j].block >= fork
      /\ \A j \in rows : j \in A
      /\ \A row \in Rows : row # Absent
  BY <1>a, <1>b, <1>c, EntryTypes, StoreAssumption DEF Rows
<1>1. /\ \A j \in P : j \in rows /\ j \in Q /\ shadow[j].key = k /\ j <= i
      /\ \A j \in T : j \in P /\ j # i /\ j < i
      /\ \A j \in P : j = i \/ j \in T
  BY <1>a, <1>b, <1>c, <1>0
<1>2. /\ (\A j \in P : shadow[j].op = "UPDATE") => r # Absent
      /\ P = {i} /\ shadow[i].op = "INSERT" => r = Absent \/ r.text = shadow[i].row.text
  BY <1>a, <1>b, <1>c DEF Startable
<1>3. Startable(shadow, Q, new)
  <2>1. ASSUME \A j \in Q : shadow[j].op = "UPDATE"
        PROVE  new # Absent
    BY <1>0, <1>1, <1>2, <2>1 DEF Effect
  <2>2. ASSUME NEW q, Q = {q}, shadow[q].op = "INSERT"
        PROVE  new = Absent \/ new.text = shadow[q].row.text
    <3>1. q = i /\ P = {i}
      BY <1>0, <1>1, <2>2
    <3>2. QED
      BY <1>2, <2>2, <3>1 DEF Effect
  <2>3. QED
    BY <2>1, <2>2 DEF Startable
<1>4. ASSUME T # {}
      PROVE  Startable(shadow, T, new)
  <2>1. T \in SUBSET (1..n)
    BY <1>a, <1>b, <1>c, <1>0
  <2>2. PICK p \in T : \A j \in T : j <= p
    <3> HIDE DEF n
    <3>1. QED
      BY <1>0, <1>4, <2>1, GreatestPosition
  <2>3. p \in rows /\ p \in A /\ p \in 1..n /\ p < i /\ shadow[p].key = k /\ shadow[p].block >= fork
    BY <1>0, <1>1, <2>2
  <2>4. ASSUME NEW m \in 1..n, p < m, m < i
        PROVE  shadow[m].key # k
    <3>0. SUFFICES ASSUME shadow[m].key = k PROVE FALSE
      OBVIOUS
    <3>1. shadow[p].block <= shadow[m].block
      BY <2>3, <2>4 DEF Sorted
    <3>2. m \in A
      BY <1>a, <1>b, <1>c, <1>0, <2>3, <3>1
    <3>3. m \in rows
      BY <1>a, <1>b, <1>c, <2>4, <3>0, <3>2
    <3>4. m \in T
      BY <1>a, <1>b, <1>c, <1>0, <2>4, <3>0, <3>3
    <3>5. QED
      BY <1>0, <2>2, <2>3, <2>4, <3>4
  <2>5. Adjacent(shadow, p, i)
    BY <2>3, <2>4 DEF Adjacent
  <2>6. shadow[p].op = "INSERT" <=> shadow[i].op = "DELETE"
    BY <1>0, <2>3, <2>5 DEF Linked
  <2>7. ASSUME \A j \in T : shadow[j].op = "UPDATE"
        PROVE  new # Absent
    <3>1. shadow[i].op # "DELETE"
      BY <2>2, <2>6, <2>7
    <3>2. CASE shadow[i].op = "UPDATE"
      <4>1. r # Absent
        BY <1>1, <1>2, <2>7, <3>2
      <4>2. QED
        BY <3>2, <4>1 DEF Effect
    <3>3. CASE shadow[i].op = "INSERT"
      BY <3>3 DEF Effect
    <3>4. QED
      BY <1>0, <3>1, <3>2, <3>3
  <2>8. ASSUME NEW j, T = {j}, shadow[j].op = "INSERT"
        PROVE  new = Absent
    <3>1. p = j
      BY <2>2, <2>8
    <3>2. QED
      BY <2>6, <2>8, <3>1 DEF Effect
  <2>9. QED
    BY <2>7, <2>8 DEF Startable
<1>5. ASSUME T = {}, NEW j, FirstAbove(shadow, k, fork - 1, j)
      PROVE  SameText(new, RowBefore(shadow[j]))
  <2>1. /\ j \in 1..n /\ shadow[j].key = k /\ shadow[j].block > fork - 1
        /\ \A m \in 1..n : shadow[m].key = k /\ shadow[m].block > fork - 1 => j <= m
    BY <1>5 DEF FirstAbove
  <2>2. j \in A /\ j <= i
    BY <1>a, <1>b, <1>c, <1>0, <2>1
  <2>3. j \in rows
    <3>1. CASE j = i
      BY <3>1
    <3>2. CASE j < i
      BY <1>a, <1>b, <1>c, <2>1, <2>2, <3>2
    <3>3. QED
      BY <1>0, <2>1, <2>2, <3>1, <3>2
  <2>4. j = i
    BY <1>a, <1>b, <1>c, <1>5, <2>1, <2>3
  <2>5. P = {i}
    BY <1>0, <1>1, <1>5
  <2>6. CASE shadow[i].op = "DELETE"
    BY <2>4, <2>6 DEF Effect, SameText, RowBefore
  <2>7. CASE shadow[i].op = "INSERT"
    BY <1>0, <1>2, <2>4, <2>5, <2>7 DEF Effect, SameText, RowBefore
  <2>8. CASE shadow[i].op = "UPDATE"
    <3>1. r # Absent
      BY <1>2, <2>5, <2>8
    <3>2. QED
      BY <1>0, <2>4, <2>8, <3>1 DEF Effect, SameText, RowBefore
  <2>9. QED
    BY <1>0, <2>6, <2>7, <2>8
<1>6. QED
  BY <1>3, <1>4, <1>5 DEF P, Q, T, A

\* The first replay of a key begins well: its newest entry fits the table.
LEMMA StartKey ==
    ASSUME NEW s \in Seq(Entries), Sorted(s), NEW f \in Nat, NEW k, NEW r, LastFits(s, k, r),
           NEW Q, Q = {j \in 1..Len(s) : s[j].block >= f /\ s[j].key = k}, Q # {}
    PROVE  Startable(s, Q, r)
<1> DEFINE n == Len(s)
<1>0. n \in Nat /\ \A j \in 1..n : j \in Nat /\ s[j].block \in Nat
  BY EntryTypes
<1>1. Q \in SUBSET (1..n)
  OBVIOUS
<1>2. PICK q \in Q : \A j \in Q : j <= q
  <2> HIDE DEF n
  <2>1. QED
    BY <1>0, <1>1, GreatestPosition
<1>3. q \in 1..n /\ s[q].block >= f /\ s[q].key = k
  OBVIOUS
<1>4. ASSUME NEW m \in 1..n, q < m, s[m].key = k
      PROVE  FALSE
  <2>1. s[q].block <= s[m].block
    BY <1>3, <1>4 DEF Sorted
  <2>2. m \in Q
    BY <1>0, <1>3, <1>4, <2>1
  <2>3. QED
    BY <1>0, <1>2, <1>3, <1>4, <2>2
<1>5. s[q].op = "INSERT" <=> r = Absent
  BY <1>3, <1>4 DEF LastFits
<1>6. (\A i \in Q : s[i].op = "UPDATE") => r # Absent
  BY <1>5
<1>7. ASSUME NEW i, Q = {i}, s[i].op = "INSERT"
      PROVE  r = Absent
  <2>1. q = i
    BY <1>2, <1>7, Zenon
  <2>2. QED
    BY <1>5, <1>7, <2>1
<1>8. QED
  BY <1>6, <1>7, Zenon DEF Startable

-----------------------------------------------------------------------------
(* The steps. *)

LEMMA InitStore == Init => StoreInv
<1> SUFFICES ASSUME Init
             PROVE  StoreInv
  OBVIOUS
<1>1. TypeInv
  BY StoreAssumption DEF Init, TypeInv
<1>2. Len(shadow) = 0 /\ 1..Len(shadow) = {}
  BY DEF Init
<1>3. OrderInv
  BY <1>2 DEF Init, OrderInv, Sorted
<1>4. Linked(shadow) /\ \A k \in Keys : LastFits(shadow, k, table[k])
  BY <1>2 DEF Linked, LastFits
<1>5. ASSUME NEW k \in Keys, NEW b \in 0..MaxBlock
      PROVE  Undoes(shadow, table[k], k, b, asOf[b][k])
  <2>1. asOf[b][k] = table[k]
    BY DEF Init
  <2>2. QED
    BY <1>2, <2>1, SameTextEquivalence DEF Undoes, FirstAbove
<1>6. QED
  BY <1>1, <1>3, <1>4, <1>5 DEF Init, StoreInv, IdleInv, UndoInv, ReplayInv, RestoredInv

LEMMA NextBlockStep == ASSUME StoreInv, NextBlock PROVE StoreInv'
<1>0. /\ TypeInv /\ OrderInv /\ now \in Nat \ {0} /\ top \in Nat /\ now <= top
      /\ pc = "idle" /\ pc' = "idle" /\ now' = now + 1 /\ top' \in Nat /\ top <= top'
      /\ now' <= top' /\ now' <= MaxBlock + 1
      /\ table' = table /\ shadow' = shadow /\ fork' = fork /\ rows' = rows /\ asOf' = asOf
      /\ tied' = tied
  BY StoreAssumption DEF StoreInv, TypeInv, NextBlock
<1>1. TypeInv'
  BY <1>0 DEF TypeInv
<1>2. OrderInv'
  <2>1. \A i \in 1..Len(shadow) : shadow[i].block \in Nat
    BY <1>0, EntryTypes DEF TypeInv
  <2>2. QED
    BY <1>0, <2>1 DEF OrderInv, Sorted
<1>3. ASSUME ~tied
      PROVE  Linked(shadow) /\ IdleInv'
  <2>1. \A b \in 0..MaxBlock : Live(b)' => Live(b)
    BY <1>0, StoreAssumption DEF Live, IsFinalized
  <2>2. Linked(shadow) /\ IdleInv
    BY <1>3 DEF StoreInv
  <2>3. QED
    BY <1>0, <2>1, <2>2 DEF IdleInv
<1>4. QED
  BY <1>0, <1>1, <1>2, <1>3 DEF StoreInv, UndoInv, ReplayInv, RestoredInv

LEMMA RecordFlushStep ==
    ASSUME StoreInv, NEW k \in Keys,
           NEW new \in [text : Texts, number : Numbers] \cup {Absent}, RecordFlush(k, new)
    PROVE  StoreInv'
<1> DEFINE e == Inverse(k, table[k], new)
<1>0. /\ TypeInv /\ OrderInv /\ now \in Nat \ {0} /\ top \in Nat
      /\ pc = "idle" /\ pc' = "idle" /\ now' = now /\ top' = top
      /\ fork' = fork /\ rows' = rows /\ rows = {} /\ tied' = tied
      /\ table \in [Keys -> Rows \cup {Absent}]
      /\ table' = [table EXCEPT ![k] = new]
      /\ new # Absent \/ table[k] # Absent
      /\ shadow \in Seq(Entries) /\ shadow' = Append(shadow, e)
      /\ asOf \in [0..MaxBlock -> [Keys -> Rows \cup {Absent}]]
      /\ asOf' = [b \in 0..MaxBlock |-> IF b >= now THEN table' ELSE asOf[b]]
  BY DEF StoreInv, TypeInv, RecordFlush
<1>1. new \in Rows \cup {Absent} /\ table[k] \in Rows \cup {Absent}
  BY <1>0 DEF Rows
<1>2. \A row \in Rows : row # Absent
  BY StoreAssumption DEF Rows
<1>3. /\ e \in Entries /\ e.key = k /\ e.block = now
      /\ e.op = "DELETE" <=> table[k] = Absent
      /\ e.op = "INSERT" <=> new = Absent
      /\ RowBefore(e) = table[k]
  <2>1. (IF table[k] = Absent THEN new ELSE table[k]) \in Rows
    BY <1>0, <1>1
  <2>2. QED
    BY <1>0, <2>1 DEF Inverse, Entries, RowBefore
<1> HIDE DEF e
<1>4. table' \in [Keys -> Rows \cup {Absent}]
  BY <1>0, <1>1
<1>5. shadow' \in Seq(Entries)
  BY <1>0, <1>3
<1>6. asOf' \in [0..MaxBlock -> [Keys -> Rows \cup {Absent}]]
  BY <1>0, <1>4
<1>7. TypeInv'
  BY <1>0, <1>4, <1>5, <1>6 DEF TypeInv
<1>8. \A i \in 1..Len(shadow') : shadow'[i].block <= now
  <2>1. \A i \in 1..Len(shadow) : shadow[i].block <= now
    BY <1>0 DEF OrderInv
  <2>2. QED
    BY <1>0, <1>3, <2>1
<1>9. OrderInv'
  <2>1. Sorted(shadow')
    <3>1. /\ Sorted(shadow) /\ Len(shadow) \in Nat
          /\ \A i \in 1..Len(shadow) : shadow[i].block <= now
      BY <1>0 DEF OrderInv
    <3>2. /\ Len(shadow') = Len(shadow) + 1 /\ shadow'[Len(shadow) + 1] = e
          /\ \A i \in 1..Len(shadow) : shadow'[i] = shadow[i]
      BY <1>0, <1>3
    <3>3. QED
      BY <1>3, <1>0, <3>1, <3>2 DEF Sorted
  <2>2. QED
    BY <1>0, <1>8, <2>1 DEF OrderInv
<1>10. ASSUME ~tied
       PROVE  Linked(shadow') /\ IdleInv'
  <2>0. /\ Linked(shadow) /\ Sorted(shadow)
        /\ \A i \in 1..Len(shadow) : shadow[i].block <= e.block
        /\ \A q \in Keys : LastFits(shadow, q, table[q])
        /\ \A q \in Keys, b \in 0..MaxBlock :
             Live(b) => Undoes(shadow, table[q], q, b, asOf[b][q])
    BY <1>0, <1>3, <1>10 DEF StoreInv, IdleInv, OrderInv
  <2>1. \A i \in 1..Len(shadow) :
           shadow[i].key = e.key /\ (\A m \in 1..Len(shadow) : i < m => shadow[m].key # e.key)
               => (shadow[i].op = "INSERT" <=> e.op = "DELETE")
    BY <1>3, <2>0 DEF LastFits
  <2>2. /\ Linked(shadow') /\ LastFits(shadow', k, new)
        /\ \A q, r : q # k /\ LastFits(shadow, q, r) => LastFits(shadow', q, r)
    BY <1>0, <1>3, <2>0, <2>1, AppendFits
  <2>3. \A q \in Keys : LastFits(shadow', q, table'[q])
    BY <1>0, <2>0, <2>2
  <2>4. ASSUME NEW q \in Keys, NEW b \in 0..MaxBlock, Live(b)'
        PROVE  Undoes(shadow', table'[q], q, b, asOf'[b][q])
    <3>0. b \in Nat
      BY StoreAssumption
    <3>1. CASE b >= now
      <4>1. asOf'[b][q] = table'[q]
        BY <1>0, <3>1
      <4>2. \A i \in 1..Len(shadow') : shadow'[i].block <= b
        <5>1. \A i \in 1..Len(shadow') : shadow'[i].block \in Nat
          BY <1>5, EntryTypes
        <5>2. QED
          BY <1>0, <1>8, <3>0, <3>1, <5>1
      <4>3. QED
        BY <1>5, <3>0, <4>1, <4>2, UndoesNothing
    <3>2. CASE ~(b >= now)
      <4>1. asOf'[b][q] = asOf[b][q] /\ now > b
        BY <1>0, <3>0, <3>2
      <4>2. Undoes(shadow, table[q], q, b, asOf[b][q])
        BY <1>0, <2>0, <2>4 DEF Live
      <4>3. CASE q = k
        BY <1>0, <1>3, <3>0, <4>1, <4>2, <4>3, AppendUndoes, SameTextEquivalence
      <4>4. CASE q # k
        <5>1. table'[q] = table[q]
          BY <1>0, <4>4
        <5>2. QED
          BY <1>0, <1>3, <3>0, <4>1, <4>2, <4>4, <5>1, AppendUndoes
      <4>5. QED
        BY <4>3, <4>4
    <3>3. QED
      BY <3>1, <3>2
  <2>5. QED
    BY <2>2, <2>3, <2>4 DEF IdleInv
<1>11. QED
  BY <1>0, <1>7, <1>9, <1>10 DEF StoreInv, UndoInv, ReplayInv, RestoredInv

LEMMA ClearBeforeStep == ASSUME StoreInv, ClearBefore PROVE StoreInv'
<1> DEFINE f == FinalizedBlock(now)
<1>0. /\ TypeInv /\ OrderInv /\ now \in Nat \ {0} /\ top \in Nat /\ now <= top
      /\ pc = "idle" /\ pc' = "idle" /\ now' = now /\ top' = top
      /\ table' = table /\ fork' = fork /\ rows' = rows /\ rows = {} /\ asOf' = asOf
      /\ tied' = tied
      /\ shadow \in Seq(Entries) /\ shadow' = Keep(shadow, Affected(f))
      /\ Sorted(shadow) /\ \A i \in 1..Len(shadow) : shadow[i].block <= now
  BY DEF StoreInv, TypeInv, OrderInv, ClearBefore
<1>1. f \in Nat /\ \A b \in 0..MaxBlock : b \in Nat /\ (Live(b) => f <= b)
  BY <1>0, StoreAssumption DEF FinalizedBlock, Live, IsFinalized
<1> HIDE DEF f
<1>2. PICK d \in Nat : /\ d <= Len(shadow)
                       /\ \A i \in 1..Len(shadow) : shadow[i].block >= f <=> d < i
  BY <1>0, <1>1, SortedCut
<1>3. \A i \in 1..Len(shadow) : i \in Affected(f) <=> d < i /\ i <= Len(shadow)
  BY <1>0, <1>2 DEF Affected
<1>4. /\ shadow' \in Seq(Entries) /\ Len(shadow') = Len(shadow) - d
      /\ \A i \in 1..(Len(shadow) - d) : shadow'[i] = shadow[i + d]
  <2>1. Interval(shadow, Affected(f), d, Len(shadow))
    BY <1>0, <1>2, <1>3 DEF Interval
  <2>2. PartOf(shadow, d, Len(shadow), shadow')
    BY <1>0, <2>1, KeepInterval
  <2>3. QED
    BY <2>2 DEF PartOf
<1>5. TypeInv'

  BY <1>0, <1>4 DEF TypeInv
<1>6. OrderInv'
  <2>1. Sorted(shadow')
    <3>1. \A i \in 1..(Len(shadow) - d) : i + d \in 1..Len(shadow)
      BY <1>0, <1>2
    <3>2. \A i, j \in 1..(Len(shadow) - d) : i < j => i + d < j + d
      BY <1>0, <1>2
    <3>3. QED
      BY <1>0, <1>4, <3>1, <3>2 DEF Sorted
  <2>2. \A i \in 1..Len(shadow') : shadow'[i].block <= now
    <3>1. \A i \in 1..(Len(shadow) - d) : i + d \in 1..Len(shadow)
      BY <1>0, <1>2
    <3>2. QED
      BY <1>0, <1>4, <3>1
  <2>3. QED
    BY <1>0, <2>1, <2>2 DEF OrderInv
<1>7. ASSUME ~tied
      PROVE  Linked(shadow') /\ IdleInv'
  <2>0. /\ Linked(shadow)
        /\ \A q \in Keys : LastFits(shadow, q, table[q])
        /\ \A q \in Keys, b \in 0..MaxBlock :
             Live(b) => Undoes(shadow, table[q], q, b, asOf[b][q])
    BY <1>0, <1>7 DEF StoreInv, IdleInv
  <2>1. Linked(shadow') /\ \A q, r : LastFits(shadow, q, r) => LastFits(shadow', q, r)
    BY <1>0, <1>2, <1>4, <2>0, SuffixFits
  <2>2. ASSUME NEW q \in Keys, NEW b \in 0..MaxBlock, Live(b)'
        PROVE  Undoes(shadow', table[q], q, b, asOf[b][q])
    <3>1. Live(b) /\ b \in Nat /\ f <= b
      BY <1>0, <1>1, <2>2 DEF Live
    <3>2. ASSUME NEW i \in 1..Len(shadow), i <= d
          PROVE  shadow[i].block <= b
      <4>1. i \in Nat /\ shadow[i].block \in Nat /\ ~(shadow[i].block >= f)
        BY <1>0, <1>2, <3>2, EntryTypes
      <4>2. QED
        BY <1>1, <3>1, <4>1
    <3>3. Undoes(shadow, table[q], q, b, asOf[b][q])
      BY <2>0, <3>1
    <3>4. QED
      BY <1>0, <1>2, <1>4, <3>1, <3>2, <3>3, SuffixUndoes
  <2>3. QED
    BY <1>0, <2>0, <2>1, <2>2 DEF IdleInv
<1>8. QED
  BY <1>0, <1>5, <1>6, <1>7 DEF StoreInv, UndoInv, ReplayInv, RestoredInv

LEMMA StartRollbackStep ==
    ASSUME StoreInv, NEW f \in 1..MaxBlock, StartRollback(f)
    PROVE  StoreInv'
<1>0. /\ TypeInv /\ OrderInv /\ now \in Nat \ {0} /\ top \in Nat /\ now <= top
      /\ pc \in {"idle", "interrupted"} /\ pc' = "replay" /\ now' = now /\ top' = top
      /\ table' = table /\ fork' = f /\ rows' = Affected(f) /\ asOf' = asOf
      /\ shadow \in Seq(Entries) /\ shadow' = shadow /\ Sorted(shadow) /\ tied \in BOOLEAN
      /\ f \in Nat \ {0}
      /\ pc = "interrupted" => f = fork
      /\ tied' = (tied \/ \E i, j \in Affected(f) :
                     /\ i # j /\ shadow[i].key = shadow[j].key
                     /\ shadow[i].block = shadow[j].block)
  BY StoreAssumption DEF StoreInv, TypeInv, OrderInv, StartRollback
<1>1. tied' \in BOOLEAN /\ (tied => tied')
  BY <1>0, Zenon
<1>2. f <= top
  <2>1. CASE pc = "idle"
    BY <1>0, <2>1 DEF StartRollback
  <2>2. CASE pc = "interrupted"
    BY <1>0, <2>2 DEF TypeInv
  <2>3. QED
    BY <1>0, <2>1, <2>2
<1>3. TypeInv'
  <2>1. Affected(f) \subseteq 1..Len(shadow)
    BY DEF Affected
  <2>2. QED
    BY <1>0, <1>1, <1>2, <2>1 DEF TypeInv
<1>4. OrderInv'
  BY <1>0 DEF OrderInv
<1>5. ASSUME ~tied'
      PROVE  Linked(shadow) /\ UndoInv' /\ ReplayInv'
  <2>0. ~tied
    BY <1>1, <1>5
  <2>1. /\ Linked(shadow)
        /\ \A k \in Keys, b \in 0..(f - 1) :
             Live(b) => Undoes(shadow, table[k], k, b, asOf[b][k])
        /\ Live(f - 1)
        /\ \A k \in Keys : NoneAbove(shadow, k, f - 1) => LastFits(shadow, k, table[k])
        /\ \A k \in Keys :
             Of(Affected(f), k) # {} => Startable(shadow, Of(Affected(f), k), table[k])
    <3>1. CASE pc = "idle"
      <4>1. Linked(shadow) /\ IdleInv
        BY <2>0 DEF StoreInv
      <4>2. \A b \in 0..(f - 1) : b \in 0..MaxBlock
        BY <1>0, StoreAssumption
      <4>3. Live(f - 1)
        <5>1. (f - 1) + 1 = f
          BY <1>0
        <5>2. QED
          BY <3>1, <5>1 DEF StartRollback, Live
      <4>4. ASSUME NEW k \in Keys, Of(Affected(f), k) # {}
            PROVE  Startable(shadow, Of(Affected(f), k), table[k])
        <5> DEFINE Q == Of(Affected(f), k)
                   r == table[k]
        <5>1. Q = {j \in 1..Len(shadow) : shadow[j].block >= f /\ shadow[j].key = k}
          BY DEF Of, Affected
        <5>2. LastFits(shadow, k, r) /\ Q # {}
          BY <3>1, <4>1, <4>4 DEF IdleInv
        <5> HIDE DEF Q, r
        <5>3. Startable(shadow, Q, r)
          BY <1>0, <5>1, <5>2, StartKey
        <5>4. QED
          BY <5>3 DEF Q, r
      <4>5. QED
        BY <3>1, <4>1, <4>2, <4>3, <4>4 DEF IdleInv
    <3>2. CASE pc = "interrupted"
      BY <1>0, <2>0, <3>2 DEF StoreInv, UndoInv
    <3>3. QED
      BY <1>0, <3>1, <3>2
  <2>2. \A i, j \in Affected(f) :
           i # j /\ shadow[i].key = shadow[j].key => shadow[i].block # shadow[j].block
    BY <1>0, <1>5
  <2>3. Affected(f)' = Affected(f) /\ \A T, k : Of(T, k)' = Of(T, k) /\ \A b : Live(b)' = Live(b)
    BY <1>0 DEF Affected, Of, Live
  <2>4. UndoInv'
    BY <1>0, <2>1, <2>2 DEF UndoInv, Affected, Of, Live
  <2>5. ASSUME NEW k \in Keys, Of(Affected(f), k) = {}, NEW i, FirstAbove(shadow, k, f - 1, i)
        PROVE  FALSE
    <3>1. /\ i \in 1..Len(shadow) /\ shadow[i].key = k /\ shadow[i].block > f - 1
          /\ shadow[i].block \in Nat
      BY <1>0, <2>5, EntryTypes DEF FirstAbove
    <3>2. shadow[i].block >= f
      BY <1>0, <3>1
    <3>3. QED
      BY <2>5, <3>1, <3>2 DEF Of, Affected
  <2>6. ReplayInv'
    <3>1. rows' \subseteq (Affected(fork))'
      BY <1>0 DEF Affected
    <3>2. ASSUME NEW k \in Keys
          PROVE  (IF Of(rows, k) # {} THEN Startable(shadow, Of(rows, k), table[k])
                  ELSE \A i : FirstAbove(shadow, k, fork - 1, i)
                                => SameText(table[k], RowBefore(shadow[i])))'
      <4>1. (Of(rows, k))' = Of(Affected(f), k)
        BY <1>0 DEF Of
      <4>2. QED
        BY <1>0, <2>1, <2>5, <4>1
    <3>3. \A i \in rows', j \in (Affected(fork))' : j \in rows'
      BY <1>0 DEF Affected
    <3>4. QED
      BY <3>1, <3>2, <3>3 DEF ReplayInv
  <2>7. QED
    BY <2>1, <2>4, <2>6
<1>6. QED
  BY <1>0, <1>3, <1>4, <1>5 DEF StoreInv, IdleInv, RestoredInv

LEMMA ReplayStep == ASSUME StoreInv, NEW i, Replay(i) PROVE StoreInv'
<1> DEFINE k == shadow[i].key
           new == Undone(shadow[i])
<1>0. /\ TypeInv /\ OrderInv /\ pc = "replay" /\ pc' = "replay"
      /\ now' = now /\ top' = top /\ fork' = fork /\ asOf' = asOf /\ shadow' = shadow
      /\ tied' = tied /\ fork \in 1..MaxBlock /\ fork \in Nat \ {0}
      /\ i \in rows /\ rows \subseteq 1..Len(shadow) /\ rows' = rows \ {i}
      /\ shadow \in Seq(Entries) /\ Sorted(shadow)
      /\ table \in [Keys -> Rows \cup {Absent}]
      /\ table' = [table EXCEPT ![k] = new]
      /\ \A j \in rows : shadow[j].block <= shadow[i].block
  BY StoreAssumption DEF StoreInv, TypeInv, OrderInv, Replay, InOrder
<1>1. i \in 1..Len(shadow) /\ shadow[i] \in Entries /\ k \in Keys
  BY <1>0, EntryTypes
<1>2. new \in Rows \cup {Absent} /\ Effect(shadow[i], table[k], new)
  BY <1>0, <1>1, UndoneEffect
<1> HIDE DEF new
<1>3. TypeInv'
  <2>1. table' \in [Keys -> Rows \cup {Absent}]
    BY <1>0, <1>1, <1>2
  <2>2. QED
    BY <1>0, <2>1 DEF TypeInv
<1>4. OrderInv'
  BY <1>0 DEF OrderInv
<1>5. ASSUME ~tied
      PROVE  Linked(shadow) /\ UndoInv' /\ ReplayInv'
  <2>0. Linked(shadow) /\ UndoInv /\ ReplayInv
    BY <1>5 DEF StoreInv
  <2>1. /\ rows \subseteq Affected(fork)
        /\ \A p \in rows, q \in Affected(fork) :
             q < p /\ shadow[q].key = shadow[p].key => q \in rows
        /\ Startable(shadow, {j \in rows : shadow[j].key = k}, table[k])
    BY <1>0, <1>1, <2>0 DEF ReplayInv, Of
  <2>2. Affected(fork) = {j \in 1..Len(shadow) : shadow[j].block >= fork}
    BY DEF Affected
  <2>3. ASSUME NEW j \in rows, shadow[j].key = k
        PROVE  j <= i
    <3> SUFFICES ASSUME i < j
                 PROVE  FALSE
      BY <1>0, <1>1
    <3>1. i # j /\ i \in Affected(fork) /\ j \in Affected(fork) /\ j \in 1..Len(shadow)
      BY <1>0, <1>1, <2>1
    <3>2. shadow[i].block # shadow[j].block
      BY <1>0, <2>0, <2>3, <3>1 DEF UndoInv
    <3>3. shadow[i].block <= shadow[j].block /\ shadow[j].block <= shadow[i].block
      BY <1>0, <1>1, <3>1 DEF Sorted
    <3>4. shadow[i].block \in Nat /\ shadow[j].block \in Nat
      BY <1>0, <1>1, <3>1, EntryTypes
    <3>5. QED
      BY <3>2, <3>3, <3>4
  <2>4. /\ Startable(shadow, {j \in Affected(fork) : shadow[j].key = k}, new)
        /\ IF {j \in rows \ {i} : shadow[j].key = k} # {}
           THEN Startable(shadow, {j \in rows \ {i} : shadow[j].key = k}, new)
           ELSE \A j : FirstAbove(shadow, k, fork - 1, j)
                         => SameText(new, RowBefore(shadow[j]))
    <3> DEFINE r == table[k]
    <3>1. Effect(shadow[i], r, new) /\ Startable(shadow, Of(rows, k), r)
      BY <1>2, <2>1 DEF Of
    <3> HIDE DEF r
    <3>2. /\ Startable(shadow, Of(Affected(fork), k), new)
          /\ IF Of(rows \ {i}, k) # {}
             THEN Startable(shadow, Of(rows \ {i}, k), new)
             ELSE \A j : FirstAbove(shadow, k, fork - 1, j)
                           => SameText(new, RowBefore(shadow[j]))
      BY <1>0, <2>0, <2>1, <2>3, <3>1, ReplayKey
    <3>3. QED
      BY <3>2 DEF Of
  <2>5. table'[k] = new /\ \A q \in Keys : q # k => table'[q] = table[q]
    BY <1>0, <1>1
  <2>6. \A b \in 0..(fork - 1) : ~NoneAbove(shadow, k, b)
    <3>1. shadow[i].block \in Nat /\ shadow[i].block >= fork
      BY <1>0, <1>1, <2>1, <2>2, EntryTypes
    <3>2. \A b \in 0..(fork - 1) : shadow[i].block > b
      BY <1>0, <3>1
    <3>3. QED
      BY <1>1, <3>2 DEF NoneAbove
  <2>7. UndoInv'
    <3>1. ASSUME NEW q \in Keys, NEW b \in 0..(fork - 1), Live(b)
          PROVE  Undoes(shadow, table'[q], q, b, asOf[b][q])
      <4>1. Undoes(shadow, table[q], q, b, asOf[b][q])
        BY <1>0, <2>0, <3>1 DEF UndoInv
      <4>2. QED
        BY <2>5, <2>6, <4>1 DEF Undoes
    <3>2. ASSUME NEW q \in Keys, NoneAbove(shadow, q, fork - 1)
          PROVE  LastFits(shadow, q, table'[q])
      <4>1. fork - 1 \in 0..(fork - 1)
        BY <1>0
      <4>2. q # k
        BY <2>6, <3>2, <4>1
      <4>3. QED
        BY <1>0, <2>0, <2>5, <3>2, <4>2 DEF UndoInv
    <3>3. ASSUME NEW q \in Keys, Of(Affected(fork), q) # {}
          PROVE  Startable(shadow, Of(Affected(fork), q), table'[q])
      <4>1. CASE q = k
        BY <2>4, <2>5, <4>1 DEF Of
      <4>2. CASE q # k
        BY <1>0, <2>0, <2>5, <3>3, <4>2 DEF UndoInv
      <4>3. QED
        BY <4>1, <4>2
    <3>4. /\ Live(fork - 1)
          /\ \A p, j \in Affected(fork) :
               p # j /\ shadow[p].key = shadow[j].key => shadow[p].block # shadow[j].block
      BY <1>0, <2>0 DEF UndoInv
    <3>5. /\ Affected(fork)' = Affected(fork)
          /\ \A b : Live(b)' = Live(b)
      BY <1>0 DEF Affected, Live
    <3>6. \A q : (Of(Affected(fork), q))' = Of(Affected(fork), q)
      BY <1>0, <3>5 DEF Of
    <3>7. QED
      BY <1>0, <3>1, <3>2, <3>3, <3>4, <3>5, <3>6 DEF UndoInv
  <2>8. ReplayInv'
    <3>1. rows' \subseteq (Affected(fork))' /\ Affected(fork)' = Affected(fork)
      BY <1>0, <2>1 DEF Affected
    <3>2. ASSUME NEW p \in rows', NEW j \in Affected(fork), j < p,
                 shadow[j].key = shadow[p].key
          PROVE  j \in rows'
      <4>1. p \in rows /\ p # i /\ j \in rows
        BY <1>0, <2>1, <3>2
      <4>2. j # i
        <5> SUFFICES ASSUME j = i
                     PROVE  FALSE
          OBVIOUS
        <5>1. p <= i
          BY <2>3, <3>2, <4>1
        <5>2. QED
          BY <1>0, <1>1, <3>2, <4>1, <5>1
      <4>3. QED
        BY <1>0, <4>1, <4>2
    <3>3. ASSUME NEW q \in Keys
          PROVE  (IF Of(rows, q) # {} THEN Startable(shadow, Of(rows, q), table[q])
                  ELSE \A j : FirstAbove(shadow, q, fork - 1, j)
                                => SameText(table[q], RowBefore(shadow[j])))'
      <4>1. (Of(rows, q))' = {j \in rows \ {i} : shadow[j].key = q}
        BY <1>0 DEF Of
      <4>2. CASE q = k
        BY <1>0, <2>4, <2>5, <4>1, <4>2
      <4>3. CASE q # k
        <5>1. {j \in rows \ {i} : shadow[j].key = q} = Of(rows, q)
          BY <4>3 DEF Of
        <5>2. IF Of(rows, q) # {} THEN Startable(shadow, Of(rows, q), table[q])
              ELSE \A j : FirstAbove(shadow, q, fork - 1, j)
                            => SameText(table[q], RowBefore(shadow[j]))
          BY <1>0, <2>0 DEF ReplayInv
        <5>3. QED
          BY <1>0, <2>5, <4>1, <4>3, <5>1, <5>2
      <4>4. QED
        BY <4>2, <4>3
    <3>4. QED
      BY <1>0, <3>1, <3>2, <3>3 DEF ReplayInv
  <2>9. QED
    BY <2>0, <2>7, <2>8
<1>6. QED
  BY <1>0, <1>3, <1>4, <1>5 DEF StoreInv, IdleInv, RestoredInv

LEMMA InterruptStep == ASSUME StoreInv, Interrupt PROVE StoreInv'
<1>0. /\ TypeInv /\ OrderInv /\ pc = "replay" /\ pc' = "interrupted"
      /\ table' = table /\ shadow' = shadow /\ now' = now /\ top' = top /\ fork' = fork
      /\ rows' = {} /\ asOf' = asOf /\ tied' = tied
  BY DEF StoreInv, Interrupt
<1>1. TypeInv'
  BY <1>0 DEF TypeInv
<1>2. OrderInv'
  BY <1>0 DEF OrderInv
<1>3. UndoInv => UndoInv'
  <2>1. /\ Affected(fork)' = Affected(fork)
        /\ \A b : Live(b)' = Live(b)
    BY <1>0 DEF Affected, Live
  <2>2. \A q : (Of(Affected(fork), q))' = Of(Affected(fork), q)
    BY <1>0, <2>1 DEF Of
  <2>3. QED
    BY <1>0, <2>1, <2>2 DEF UndoInv
<1>4. QED
  BY <1>0, <1>1, <1>2, <1>3 DEF StoreInv, IdleInv, ReplayInv, RestoredInv

LEMMA CleanUpStep == ASSUME StoreInv, CleanUp PROVE StoreInv'
<1> DEFINE P == 1..Len(shadow) \ Affected(fork)
           f == fork - 1
<1>0. /\ TypeInv /\ OrderInv /\ pc = "replay" /\ pc' = "restored" /\ rows = {} /\ rows' = {}
      /\ table' = table /\ now' = now /\ top' = top /\ fork' = fork /\ asOf' = asOf
      /\ tied' = tied /\ fork \in Nat \ {0} /\ fork \in 1..MaxBlock
      /\ shadow \in Seq(Entries) /\ Sorted(shadow) /\ shadow' = Keep(shadow, P)
  BY StoreAssumption DEF StoreInv, TypeInv, OrderInv, CleanUp
<1>1. PICK l \in Nat : /\ l <= Len(shadow)
                       /\ \A i \in 1..Len(shadow) : shadow[i].block >= fork <=> l < i
  BY <1>0, SortedCut
<1>2. \A i \in 1..Len(shadow) : i \in P <=> 0 < i /\ i <= l
  BY <1>0, <1>1 DEF Affected
<1>3. /\ shadow' \in Seq(Entries) /\ Len(shadow') = l
      /\ \A i \in 1..l : shadow'[i] = shadow[i]
  <2>1. Interval(shadow, P, 0, l)
    BY <1>0, <1>1, <1>2 DEF Interval
  <2>2. PartOf(shadow, 0, l, shadow')
    <3> HIDE DEF P
    <3>1. QED
      BY <1>0, <2>1, KeepInterval
  <2>3. QED
    BY <2>2 DEF PartOf
<1>4. \A i \in 1..Len(shadow) : shadow[i].block > f <=> l < i
  <2>1. \A i \in 1..Len(shadow) : shadow[i].block \in Nat
    BY <1>0, EntryTypes
  <2>2. QED
    BY <1>0, <1>1, <2>1
<1>5. f \in Nat /\ \A b \in 0..f : b \in Nat /\ b <= f
  BY <1>0
<1> HIDE DEF P, f
<1>6. TypeInv'
  BY <1>0, <1>3 DEF TypeInv
<1>7. OrderInv'
  <2>1. Sorted(shadow')
    <3>1. \A i \in 1..l : i \in 1..Len(shadow)
      BY <1>0, <1>1
    <3>2. QED
      BY <1>0, <1>3, <3>1 DEF Sorted
  <2>2. \A i \in 1..l : shadow'[i].block < fork
    <3>1. \A i \in 1..l : i \in 1..Len(shadow) /\ ~(l < i)
      BY <1>0, <1>1
    <3>2. \A i \in 1..l : ~(shadow[i].block >= fork) /\ shadow[i].block \in Nat
      BY <1>0, <1>1, <3>1, EntryTypes
    <3>3. QED
      BY <1>0, <1>3, <3>2
  <2>3. QED
    BY <1>0, <1>3, <2>1, <2>2 DEF OrderInv
<1>8. ASSUME ~tied
      PROVE  Linked(shadow') /\ RestoredInv'
  <2>0. /\ Linked(shadow) /\ Live(f)
        /\ \A k \in Keys, b \in 0..f :
             Live(b) => Undoes(shadow, table[k], k, b, asOf[b][k])
        /\ \A k \in Keys : NoneAbove(shadow, k, f) => LastFits(shadow, k, table[k])
        /\ \A k \in Keys : \A i :
             FirstAbove(shadow, k, f, i) => SameText(table[k], RowBefore(shadow[i]))
    <3>1. \A k : Of(rows, k) = {}
      BY <1>0 DEF Of
    <3>2. QED
      BY <1>0, <1>8, <3>1 DEF StoreInv, UndoInv, ReplayInv, f
  <2>1. Linked(shadow')
    BY <1>0, <1>1, <1>3, <2>0, PrefixFits
  <2>2. ASSUME NEW k \in Keys
        PROVE  LastFits(shadow', k, table[k])
    <3> DEFINE r == table[k]
    <3>1. /\ \A i : FirstAbove(shadow, k, f, i) => SameText(r, RowBefore(shadow[i]))
          /\ NoneAbove(shadow, k, f) => LastFits(shadow, k, r)
      BY <2>0
    <3> HIDE DEF r
    <3>2. LastFits(shadow', k, r)
      BY <1>0, <1>1, <1>3, <1>4, <1>5, <2>0, <3>1, PrefixLast
    <3>3. QED
      BY <3>2 DEF r
  <2>3. ASSUME NEW k \in Keys, NEW b \in 0..f, Live(b)
        PROVE  Undoes(shadow', table[k], k, b, asOf[b][k])
    <3> DEFINE r == table[k]
               old == asOf[b][k]
    <3>1. /\ \A i : FirstAbove(shadow, k, f, i) => SameText(r, RowBefore(shadow[i]))
          /\ Undoes(shadow, r, k, b, old)
      BY <2>0, <2>3
    <3>2. b \in Nat /\ b <= f
      BY <1>5
    <3> HIDE DEF r, old
    <3>3. Undoes(shadow', r, k, b, old)
      BY <1>0, <1>1, <1>3, <1>4, <1>5, <3>1, <3>2, PrefixUndoes
    <3>4. QED
      BY <3>3 DEF r, old
  <2>4. \A b : Live(b)' = Live(b)
    BY <1>0 DEF Live
  <2>5. QED
    BY <1>0, <2>0, <2>1, <2>2, <2>3, <2>4 DEF RestoredInv, f
<1>9. QED
  BY <1>0, <1>6, <1>7, <1>8 DEF StoreInv, IdleInv, UndoInv, ReplayInv

LEMMA ResumeStep == ASSUME StoreInv, Resume PROVE StoreInv'
<1>0. /\ TypeInv /\ OrderInv /\ pc = "restored" /\ pc' = "idle"
      /\ table' = table /\ shadow' = shadow /\ top' = top /\ fork' = fork
      /\ rows' = rows /\ tied' = tied /\ now' = fork
      /\ fork \in Nat \ {0} /\ fork \in 1..MaxBlock /\ fork <= MaxBlock + 1
      /\ shadow \in Seq(Entries) /\ \A i \in 1..Len(shadow) : shadow[i].block < fork
      /\ table \in [Keys -> Rows \cup {Absent}]
      /\ asOf \in [0..MaxBlock -> [Keys -> Rows \cup {Absent}]]
      /\ asOf' = [b \in 0..MaxBlock |-> IF b >= fork - 1 THEN table ELSE asOf[b]]
  BY StoreAssumption DEF StoreInv, TypeInv, OrderInv, Resume
<1>1. \A i \in 1..Len(shadow) : shadow[i].block \in Nat
  BY <1>0, EntryTypes
<1>2. TypeInv'
  <2>1. asOf' \in [0..MaxBlock -> [Keys -> Rows \cup {Absent}]]
    BY <1>0
  <2>2. QED
    BY <1>0, <2>1 DEF TypeInv
<1>3. OrderInv'
  BY <1>0, <1>1 DEF OrderInv
<1>4. ASSUME ~tied
      PROVE  Linked(shadow) /\ IdleInv'
  <2>0. Linked(shadow) /\ RestoredInv
    BY <1>4 DEF StoreInv
  <2>1. ASSUME NEW k \in Keys, NEW b \in 0..MaxBlock, Live(b)'
        PROVE  Undoes(shadow, table[k], k, b, asOf'[b][k])
    <3>0. b \in Nat /\ Live(b)
      BY <1>0, <2>1, StoreAssumption DEF Live
    <3>1. CASE b >= fork - 1
      <4>1. asOf'[b][k] = table[k]
        BY <1>0, <3>1
      <4>2. \A i \in 1..Len(shadow) : shadow[i].block <= b
        BY <1>0, <1>1, <3>0, <3>1
      <4>3. QED
        BY <1>0, <3>0, <4>1, <4>2, UndoesNothing
    <3>2. CASE ~(b >= fork - 1)
      <4>1. asOf'[b][k] = asOf[b][k] /\ b \in 0..(fork - 1)
        BY <1>0, <3>0, <3>2
      <4>2. QED
        BY <1>0, <2>0, <3>0, <4>1 DEF RestoredInv
    <3>3. QED
      BY <3>1, <3>2
  <2>2. QED
    BY <1>0, <2>0, <2>1 DEF IdleInv, RestoredInv
<1>5. QED
  BY <1>0, <1>2, <1>3, <1>4 DEF StoreInv, UndoInv, ReplayInv, RestoredInv

LEMMA StutterStep == ASSUME StoreInv, UNCHANGED vars PROVE StoreInv'
<1>0. /\ table' = table /\ shadow' = shadow /\ now' = now /\ top' = top /\ pc' = pc
      /\ fork' = fork /\ rows' = rows /\ asOf' = asOf /\ tied' = tied
  BY DEF vars
<1>1. /\ Affected(fork)' = Affected(fork)
      /\ \A b : Live(b)' = Live(b)
  BY <1>0 DEF Affected, Live
<1>2. \A q : (Of(Affected(fork), q))' = Of(Affected(fork), q) /\ (Of(rows, q))' = Of(rows, q)
  BY <1>0, <1>1 DEF Of
<1>3. TypeInv' /\ OrderInv'
  BY <1>0 DEF StoreInv, TypeInv, OrderInv
<1>4. (IdleInv => IdleInv') /\ (UndoInv => UndoInv')
  BY <1>0, <1>1, <1>2 DEF IdleInv, UndoInv
<1>5. (ReplayInv => ReplayInv') /\ (RestoredInv => RestoredInv')
  BY <1>0, <1>1, <1>2 DEF ReplayInv, RestoredInv
<1>6. QED
  BY <1>0, <1>3, <1>4, <1>5 DEF StoreInv

-----------------------------------------------------------------------------
(* The theorems. *)

\* StoreInv is an invariant of every behaviour of the store.
THEOREM StoreInvariant == Spec => []StoreInv
<1>1. Init => StoreInv
  BY InitStore
<1>2. StoreInv /\ [Next]_vars => StoreInv'
  <2> SUFFICES ASSUME StoreInv, [Next]_vars
               PROVE  StoreInv'
    OBVIOUS
  <2>1. CASE NextBlock
    BY <2>1, NextBlockStep
  <2>2. CASE ClearBefore
    BY <2>2, ClearBeforeStep
  <2>3. ASSUME NEW k \in Keys, NEW new \in [text : Texts, number : Numbers] \cup {Absent},
               RecordFlush(k, new)
        PROVE  StoreInv'
    BY <2>3, RecordFlushStep
  <2>4. ASSUME NEW f \in 1..MaxBlock, StartRollback(f)
        PROVE  StoreInv'
    BY <2>4, StartRollbackStep
  <2>5. ASSUME NEW i \in 1..MaxWrites, Replay(i)
        PROVE  StoreInv'
    BY <2>5, ReplayStep
  <2>6. CASE Interrupt
    BY <2>6, InterruptStep
  <2>7. CASE CleanUp
    BY <2>7, CleanUpStep
  <2>8. CASE Resume
    BY <2>8, ResumeStep
  <2>9. CASE UNCHANGED vars
    BY <2>9, StutterStep
  <2>10. QED
    BY <2>1, <2>2, <2>3, <2>4, <2>5, <2>6, <2>7, <2>8, <2>9 DEF Next
<1>3. QED
  BY <1>1, <1>2, PTL DEF Spec

\* rollback_from_block: when it is done, also after attempts that failed half-way
\* and were begun again, the table has the rows and text columns of the end of
\* the block before the fork, unless a key was written twice in an undone block.
THEOREM RollbackAlwaysRestores == Spec => []RollbackRestores
<1>1. StoreInv => RollbackRestores
  <2> SUFFICES ASSUME StoreInv, pc = "restored", ~tied, NEW k \in Keys
               PROVE  SameText(table[k], asOf[fork - 1][k])
    BY DEF RollbackRestores
  <2>1. /\ fork \in Nat \ {0} /\ shadow \in Seq(Entries)
        /\ \A i \in 1..Len(shadow) : shadow[i].block < fork
    BY StoreAssumption DEF StoreInv, TypeInv, OrderInv
  <2>2. \A i \in 1..Len(shadow) : shadow[i].block \in Nat /\ ~(shadow[i].block > fork - 1)
    BY <2>1, EntryTypes
  <2>3. NoneAbove(shadow, k, fork - 1)
    BY <2>2 DEF NoneAbove
  <2>4. fork - 1 \in 0..(fork - 1)
    BY <2>1
  <2>5. Undoes(shadow, table[k], k, fork - 1, asOf[fork - 1][k])
    BY <2>4 DEF StoreInv, RestoredInv
  <2>6. QED
    BY <2>3, <2>5 DEF Undoes
<1>2. QED
  BY <1>1, StoreInvariant, PTL

\* clear_before_block: a row whose text differs from the end of a block that a
\* reorganisation can still go back to has a shadow row above that block.
THEOREM ShadowAlwaysSuffices == Spec => []ShadowSuffices
<1>1. StoreInv => ShadowSuffices
  <2> SUFFICES ASSUME StoreInv, pc = "idle", ~tied, NEW k \in Keys, NEW b \in 0..(now - 1),
                      ~IsFinalized(b + 1, top), ~SameText(table[k], asOf[b][k])
               PROVE  \E i \in 1..Len(shadow) : shadow[i].key = k /\ shadow[i].block > b
    BY DEF ShadowSuffices
  <2>1. b \in 0..MaxBlock
    BY StoreAssumption DEF StoreInv, TypeInv
  <2>2. Undoes(shadow, table[k], k, b, asOf[b][k])
    BY <2>1 DEF StoreInv, IdleInv, Live
  <2>3. ~NoneAbove(shadow, k, b)
    BY <2>2 DEF Undoes
  <2>4. QED
    BY <2>3 DEF NoneAbove
<1>2. QED
  BY <1>1, StoreInvariant, PTL
=============================================================================
