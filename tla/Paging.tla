------------------------------- MODULE Paging -------------------------------
(***************************************************************************)
(* The list query of the GraphQL API (resolver::resolve_list with          *)
(* filters_to_sql and the cursors of pagination.rs), read page by page by  *)
(* a client that follows endCursor while hasNextPage holds, beside an      *)
(* indexer that goes on writing the table.                                 *)
(*                                                                         *)
(* A row has a primary key and one other column, by which the query may    *)
(* order and filter; 0 stands for NULL.  A page carries the column as      *)
(* JSON: serde_json keeps a whole number below 2^64 and makes a floating   *)
(* point number, which is some other number near it, of most larger ones   *)
(* (BigInt columns are NUMERIC).  AsJson is what becomes of each value.    *)
(* totalCount, a second statement that counts what the page's condition    *)
(* selects, is left out.                                                   *)
(***************************************************************************)
EXTENDS Naturals, Sequences, FiniteSets

CONSTANTS
  Pks,          \* primary keys
  Values,       \* the values of the other column that are not NULL
  AsJson,       \* function: the number that JSON makes of a value
  Limits,       \* the limits clients ask for
  Filters,      \* the conditions clients ask for: [op, val] records,
                \* val the set of values it compares with
  MaxWrites,    \* bound: rows written while the client reads
  MaxRows       \* bound: rows after which the client asks for no more pages

Null == 0
NoCursor == <<>>

ASSUME PagingAssumption ==
  /\ Pks \subseteq Nat /\ Values \subseteq Nat \ {Null}
  /\ AsJson \in [Values -> Nat \ {Null}]
  /\ Limits \subseteq Nat /\ MaxWrites \in Nat /\ MaxRows \in Nat
  /\ Filters \subseteq [op : {"all", "in", "notIn", "gte", "eqNull"}, val : SUBSET Nat]

VARIABLES
  rows,         \* the table: a function from some of Pks to values
  query,        \* what the client asked for: where, direction, limit, pkText
  cursor,       \* the after argument of the next page, <<value, key>>
  got,          \* the rows received, as <<value, key>> pairs of the table
  reading,      \* the client has more pages to ask for
  touched,      \* history: keys written since the client started
  writes

pageVars == <<rows, query, cursor, got, reading, touched, writes>>

Contents ==
  UNION {[ks -> Values \cup {Null}] : ks \in {ks \in SUBSET Pks : IsFiniteSet(ks)}}

(* pkText: whether the primary key is a text column.                       *)
PagingInit ==
  /\ rows \in Contents
  /\ query \in [where : Filters, desc : BOOLEAN, limit : Limits, pkText : BOOLEAN]
  /\ cursor = NoCursor /\ got = <<>> /\ reading = TRUE
  /\ touched = {} /\ writes = 0

-----------------------------------------------------------------------------
(* filters_to_sql *)

(* build_condition as Postgres evaluates it on a value: a comparison with  *)
(* NULL selects nothing.  A list that is empty makes no condition at all.  *)
Selects(cond, v) ==
  CASE cond.op = "all" -> TRUE
    [] cond.op = "in" -> cond.val = {} \/ (v # Null /\ v \in cond.val)
    [] cond.op = "notIn" -> cond.val = {} \/ (v # Null /\ v \notin cond.val)
    [] cond.op = "gte" -> v # Null /\ \A x \in cond.val : v >= x
    [] cond.op = "eqNull" -> FALSE

(* resolve_list *)

(* (value, key) > (value, key) in SQL: unknown if a value is NULL.         *)
Greater(a, b) ==
  /\ a[1] # Null /\ b[1] # Null
  /\ a[1] > b[1] \/ (a[1] = b[1] /\ a[2] > b[2])

(* ORDER BY value, key: NULL sorts above every value.                      *)
Sorts(a, b) ==
  LET above(v) == IF v = Null THEN 1 ELSE 0
  IN  \/ above(a[1]) < above(b[1])
      \/ above(a[1]) = above(b[1]) /\ a[1] < b[1]
      \/ a[1] = b[1] /\ a[2] < b[2]

(* The cursor selects the greater rows whatever the direction of the order. *)
Selected(t, q, after) ==
  {r \in {<<t[k], k>> : k \in DOMAIN t} :
     Selects(q.where, r[1]) /\ (after = NoCursor \/ Greater(r, after))}

(* How many of the rows S the order puts before row r.                     *)
Place(S, q, r) == Cardinality({s \in S : IF q.desc THEN Sorts(r, s) ELSE Sorts(s, r)})

(* The rows of the next page and one more.                                 *)
Found(t, q, after) ==
  LET sel == Selected(t, q, after)
      n   == Cardinality(sel)
  IN  [i \in 1 .. (IF n > q.limit + 1 THEN q.limit + 1 ELSE n) |->
         CHOOSE r \in sel : Place(sel, q, r) = i - 1]

(* encode_cursor of a row, as decode_cursor and value_to_sql read it back: *)
(* with the order value of the JSON row.  It is made with as_str of the    *)
(* primary key, so a numeric key gives none.                               *)
CursorOf(q, row) ==
  IF q.pkText THEN <<IF row[1] = Null THEN Null ELSE AsJson[row[1]], row[2]>>
  ELSE NoCursor

(* Mutant: the next page starts after the first row of this one.           *)
FetchPageFromFirst ==
  LET found == Found(rows, query, cursor)
      items == IF Len(found) > query.limit THEN SubSeq(found, 1, query.limit) ELSE found
      end   == IF items # <<>> THEN CursorOf(query, Head(items)) ELSE NoCursor
  IN  /\ reading /\ Len(got) < MaxRows
      /\ got' = got \o items
      /\ cursor' = end
      /\ reading' = (Len(found) > query.limit /\ end # NoCursor)
      /\ UNCHANGED <<rows, query, touched, writes>>

FetchPage ==
  LET found == Found(rows, query, cursor)
      items == IF Len(found) > query.limit THEN SubSeq(found, 1, query.limit) ELSE found
      end   == IF items # <<>> THEN CursorOf(query, items[Len(items)]) ELSE NoCursor
  IN  /\ reading /\ Len(got) < MaxRows
      /\ got' = got \o items
      /\ cursor' = end
      /\ reading' = (Len(found) > query.limit /\ end # NoCursor)
      /\ UNCHANGED <<rows, query, touched, writes>>

(* The indexer inserts, updates or deletes a row.                          *)
WriteRow(k, v) ==
  /\ reading /\ writes < MaxWrites
  /\ rows' = [j \in DOMAIN rows \cup {k} |-> IF j = k THEN v ELSE rows[j]]
  /\ touched' = touched \cup {k}
  /\ writes' = writes + 1
  /\ UNCHANGED <<query, cursor, got, reading>>

DeleteRow(k) ==
  /\ reading /\ writes < MaxWrites /\ k \in DOMAIN rows
  /\ rows' = [j \in DOMAIN rows \ {k} |-> rows[j]]
  /\ touched' = touched \cup {k}
  /\ writes' = writes + 1
  /\ UNCHANGED <<query, cursor, got, reading>>

PagingNext ==
  \/ FetchPage
  \/ \E k \in Pks : DeleteRow(k) \/ \E v \in Values \cup {Null} : WriteRow(k, v)

PagingSpec == PagingInit /\ [][PagingNext]_pageVars

-----------------------------------------------------------------------------
(* What the filter means: a list selects the values in it, also if it has  *)
(* none.                                                                   *)
Wanted(cond, v) ==
  CASE cond.op = "all" -> TRUE
    [] cond.op = "in" -> v \in cond.val
    [] cond.op = "notIn" -> v # Null /\ v \notin cond.val
    [] cond.op = "gte" -> \A x \in cond.val : v >= x
    [] cond.op = "eqNull" -> FALSE

(* The order values received so far are what JSON makes of them.           *)
Exact == \A i \in DOMAIN got : got[i][1] # Null => AsJson[got[i][1]] = got[i][1]

(* resolver.rs:76: in ascending order, as long as no order value that the  *)
(* client has received lost digits in JSON, the pages follow on each other,*)
(* however the table changes in between; and on a table whose primary key  *)
(* is text, with a filter whose lists are not empty, a client that follows *)
(* the cursors gets each row it asked for exactly once: each row that is   *)
(* there all the time, unchanged, and has a value in the order column.     *)
PagesComplete ==
  ~query.desc /\ Exact =>
    /\ \A i \in 1 .. Len(got) - 1 : Sorts(got[i], got[i + 1])
    /\ ~reading /\ query.pkText /\ query.limit > 0 /\ query.where.val # {} =>
         \A k \in DOMAIN rows \ touched :
           rows[k] # Null =>
             Cardinality({i \in DOMAIN got : got[i][2] = k})
               = (IF Wanted(query.where, rows[k]) THEN 1 ELSE 0)
=============================================================================
