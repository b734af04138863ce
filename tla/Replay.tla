------------------------------- MODULE Replay -------------------------------
(***************************************************************************)
(* replay/replay_source.py and replay/data_loader.py: recorded events, the *)
(* order in which a source yields them, and how rows of a file become      *)
(* order book snapshots. An event is an identifier; TimeOf, KindOf and     *)
(* DataOf are its fields.                                                  *)
(***************************************************************************)
EXTENDS Integers, Sequences, FiniteSets, Sums

CONSTANTS EventIds, TimeOf, KindOf

EventKinds == {"SNAPSHOT", "DIFF", "TRADE", "CANDLE"}

ASSUME EventAssumption ==
  /\ TimeOf \in [EventIds -> Nat]
  /\ KindOf \in [EventIds -> EventKinds]

\* ReplayEventType's values: auto() numbers the members as they are listed.
Rank(kind) ==
  CASE kind = "SNAPSHOT" -> 1
    [] kind = "DIFF"     -> 2
    [] kind = "TRADE"    -> 3
    [] kind = "CANDLE"   -> 4

\* The sort key (timestamp, event_type.value).
Precedes(e, f) ==
  \/ TimeOf[e] < TimeOf[f]
  \/ TimeOf[e] = TimeOf[f] /\ Rank(KindOf[e]) < Rank(KindOf[f])

InOrder(list) == \A i, j \in DOMAIN list : i < j => ~Precedes(list[j], list[i])

\* list.sort is stable: elements neither of which precedes the other stay as
\* they are. No such p takes an element twice, so each is a permutation.
Sortings(list) ==
  {p \in [DOMAIN list -> DOMAIN list] :
     \A i, j \in DOMAIN list :
       i < j => \/ Precedes(list[p[i]], list[p[j]])
                \/ ~Precedes(list[p[j]], list[p[i]]) /\ p[i] < p[j]}

Rearranged(list, p) == [i \in DOMAIN list |-> list[p[i]]]

-----------------------------------------------------------------------------
(* Loading snapshots. A row is [time, pair, side, entry]. *)

IsFile(rows) ==
  /\ rows \in Seq({rows[i] : i \in DOMAIN rows})
  /\ \A i \in DOMAIN rows : rows[i].time \in Nat /\ rows[i].side \in {"bid", "ask"}

RowTimes(rows) == {rows[i].time : i \in DOMAIN rows}

RowsAt(rows, t, side) == {i \in DOMAIN rows : rows[i].time = t /\ rows[i].side = side}

\* The rows at some places, in the order of the file.
Entries(rows, places) ==
  LET kept == Ranked(places, LAMBDA i, j : i < j)
  IN  [k \in 1 .. Cardinality(places) |-> rows[kept[k]]]

FirstAt(rows, t) == CHOOSE i \in DOMAIN rows :
  rows[i].time = t /\ \A j \in 1 .. i - 1 : rows[j].time # t

\* Wrong variant, never used: a later row of the same time starts over.
SnapshotOfLast(rows, t, pair) ==
  LET last == CHOOSE i \in DOMAIN rows :
                rows[i].time = t /\ \A j \in i + 1 .. Len(rows) : rows[j].time # t
      entries(side) == Entries(rows, RowsAt(rows, t, side) \cap {last})
  IN  [time |-> t,
       pair |-> IF pair = "" THEN rows[last].pair ELSE pair,
       bids |-> entries("bid"), asks |-> entries("ask")]

\* load_order_book_snapshots_csv groups by time alone: the first row of a time
\* names the pair, and the entries of every row of that time are appended.
SnapshotAt(rows, t, pair) ==
  LET entries(side) == Entries(rows, RowsAt(rows, t, side))
  IN  [time |-> t,
       pair |-> IF pair = "" THEN rows[FirstAt(rows, t)].pair ELSE pair,
       bids |-> entries("bid"), asks |-> entries("ask")]

LoadSnapshots(rows, pair) == {SnapshotAt(rows, t, pair) : t \in RowTimes(rows)}
=============================================================================
