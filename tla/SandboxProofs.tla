---------------------------- MODULE SandboxProofs ----------------------------
(***************************************************************************)
(* The sandbox engine delivers recorded events as EventDelivery promises,  *)
(* for any events, exchanges, ranges and intervals, whatever user code     *)
(* adds to the sources between the steps of a run; run() counts the ticks  *)
(* its range holds, applies every event that was there in time and comes   *)
(* nearer to its end with every step; the lists a book keeps answer as its *)
(* levels would; and a file of snapshots loses no row.                     *)
(***************************************************************************)
EXTENDS Sandbox, SumsProofs, SequenceTheorems

SandboxType ==
  /\ events \in [Exchanges -> Seq(EventIds)]
  /\ sorted \in [Exchanges -> BOOLEAN]
  /\ attached \in Seq(Exchanges)
  /\ range \in [start : Nat, end : Nat]
  /\ cursor \in [Exchanges -> Int]
  /\ phase \in Phases
  /\ span \in [start : Nat, end : Nat]
  /\ timestamp \in Nat
  /\ ticks \in Nat
  /\ todo \in Seq(Exchanges)
  /\ position \in Nat \ {0}
  /\ heard \in [Exchanges -> Seq(EventIds)]

Distinct(list) == \A i, j \in DOMAIN list : list[i] = list[j] => i = j

Owned(x, list) == \A i \in DOMAIN list : OwnerOf[list[i]] = x

\* A source holds events of its exchange, each once, in order when it says so.
SourcesSound ==
  \A x \in Exchanges :
    /\ Distinct(events[x])
    /\ Owned(x, events[x])
    /\ sorted[x] => InOrder(events[x])

\* Only _apply_events_up_to has sources left, and what it reads is sorted.
PlaceSound ==
  /\ phase \notin {"initialize", "replay"} => todo = << >>
  /\ todo = << >> => position = 1
  /\ position > 1 => sorted[Source]

\* The event e lies before the place the run has reached in the source of x.
Passed(x, e) ==
  \/ TimeOf[e] <= cursor[x]
  \/ /\ todo # << >> /\ x = Source
     /\ \E i \in DOMAIN events[x] : i < position /\ events[x][i] = e

HeardPassed ==
  \A x \in Exchanges : \A i \in DOMAIN heard[x] :
    TimeOf[heard[x][i]] <= timestamp /\ Passed(x, heard[x][i])

DeliveryInv == SandboxType /\ SourcesSound /\ PlaceSound /\ HeardPassed

-----------------------------------------------------------------------------
\* A sorting of a list has its elements, once each, in order.
LEMMA SortingSound ==
  ASSUME NEW list \in Seq(EventIds), Distinct(list), NEW p \in Sortings(list)
  PROVE  /\ Rearranged(list, p) \in Seq(EventIds)
         /\ DOMAIN Rearranged(list, p) = DOMAIN list
         /\ Len(Rearranged(list, p)) = Len(list)
         /\ Distinct(Rearranged(list, p))
         /\ InOrder(Rearranged(list, p))
         /\ \A i \in DOMAIN list : \E j \in DOMAIN list : Rearranged(list, p)[i] = list[j]
<1> DEFINE n == Len(list)
           new == Rearranged(list, p)
<1>1. /\ n \in Nat /\ DOMAIN list = 1 .. n
      /\ \A i \in 1 .. n : list[i] \in EventIds
  OBVIOUS
<1>2. /\ p \in [1 .. n -> 1 .. n]
      /\ \A i, j \in 1 .. n :
           i < j => \/ Precedes(list[p[i]], list[p[j]])
                    \/ ~Precedes(list[p[j]], list[p[i]]) /\ p[i] < p[j]
  BY <1>1 DEF Sortings
<1>3. new = [i \in 1 .. n |-> list[p[i]]]
  BY <1>1 DEF Rearranged
<1>4. \A i \in 1 .. n : p[i] \in 1 .. n /\ new[i] = list[p[i]] /\ new[i] \in EventIds
  BY <1>1, <1>2, <1>3
<1>5. new \in Seq(EventIds) /\ DOMAIN new = 1 .. n /\ Len(new) = n
  <2>1. new \in [1 .. n -> EventIds]
    BY <1>3, <1>4
  <2> QED BY <1>1, <2>1, LenProperties, SeqDef
<1> HIDE DEF n, new
<1>6. \A e, f \in EventIds : Precedes(e, f) => ~Precedes(f, e)
  <2> SUFFICES ASSUME NEW e \in EventIds, NEW f \in EventIds PROVE Precedes(e, f) => ~Precedes(f, e)
    OBVIOUS
  <2>1. TimeOf[e] \in Nat /\ TimeOf[f] \in Nat /\ KindOf[e] \in EventKinds /\ KindOf[f] \in EventKinds
    BY EventAssumption
  <2>2. Rank(KindOf[e]) \in Int /\ Rank(KindOf[f]) \in Int
    BY <2>1 DEF EventKinds, Rank
  <2> QED BY <2>1, <2>2 DEF Precedes
<1>7. InOrder(new)
  <2> SUFFICES ASSUME NEW i \in 1 .. n, NEW j \in 1 .. n, i < j PROVE ~Precedes(new[j], new[i])
    BY <1>5 DEF InOrder
  <2>1. new[i] \in EventIds /\ new[j] \in EventIds /\ new[i] = list[p[i]] /\ new[j] = list[p[j]]
    BY <1>4
  <2> QED BY <1>2, <1>6, <2>1
<1>8. ASSUME NEW i \in 1 .. n, NEW j \in 1 .. n, i < j PROVE new[i] # new[j]
  <2>1. p[i] \in 1 .. n /\ p[j] \in 1 .. n /\ new[i] \in EventIds /\ new[j] \in EventIds
        /\ new[i] = list[p[i]] /\ new[j] = list[p[j]]
    BY <1>4
  <2>2. CASE Precedes(list[p[i]], list[p[j]])
    BY <2>1, <2>2, <1>6
  <2>3. CASE p[i] < p[j]
    BY <2>1, <2>3, <1>1 DEF Distinct
  <2> QED BY <1>2, <1>8, <2>2, <2>3
<1>9. Distinct(new)
  <2> SUFFICES ASSUME NEW i \in 1 .. n, NEW j \in 1 .. n, i # j PROVE new[i] # new[j]
    BY <1>5 DEF Distinct
  <2>1. i < j \/ j < i
    BY <1>1
  <2> QED BY <2>1, <1>8
<1> QED BY <1>1, <1>4, <1>5, <1>7, <1>9 DEF new, n

\* Sorting the source of an exchange keeps every source sound.
LEMMA SortKeepsSources ==
  ASSUME SandboxType, SourcesSound, NEW x \in Exchanges, Sort(x)
  PROVE  /\ events' \in [Exchanges -> Seq(EventIds)]
         /\ sorted' \in [Exchanges -> BOOLEAN]
         /\ SourcesSound'
         /\ sorted'[x] /\ \A y \in Exchanges : sorted[y] => sorted'[y]
         /\ \A y \in Exchanges : y # x => events'[y] = events[y]
         /\ Len(events'[x]) = Len(events[x])
<1>1. PICK p \in Sortings(events[x]) :
         /\ events' = [events EXCEPT ![x] = Rearranged(@, p)]
         /\ sorted' = [sorted EXCEPT ![x] = TRUE]
  BY DEF Sort
<1>2. events[x] \in Seq(EventIds) /\ Distinct(events[x]) /\ Owned(x, events[x])
  BY DEF SandboxType, SourcesSound
<1> DEFINE new == Rearranged(events[x], p)
<1>3. /\ new \in Seq(EventIds) /\ DOMAIN new = DOMAIN events[x] /\ Len(new) = Len(events[x])
      /\ Distinct(new) /\ InOrder(new)
      /\ \A i \in DOMAIN events[x] : \E j \in DOMAIN events[x] : new[i] = events[x][j]
  BY <1>2, SortingSound
<1>4. Owned(x, new)
  BY <1>2, <1>3 DEF Owned
<1>5. /\ events' = [events EXCEPT ![x] = new]
      /\ events' \in [Exchanges -> Seq(EventIds)] /\ events'[x] = new
      /\ \A y \in Exchanges : y # x => events'[y] = events[y]
  BY <1>1, <1>3 DEF SandboxType
<1>6. /\ sorted' \in [Exchanges -> BOOLEAN] /\ sorted'[x]
      /\ \A y \in Exchanges : y # x => sorted'[y] = sorted[y]
  BY <1>1 DEF SandboxType
<1> HIDE DEF new
<1>7. SourcesSound'
  <2> SUFFICES ASSUME NEW y \in Exchanges
               PROVE  /\ Distinct(events'[y]) /\ Owned(y, events'[y])
                      /\ sorted'[y] => InOrder(events'[y])
    BY DEF SourcesSound
  <2>1. CASE y = x
    BY <2>1, <1>3, <1>4, <1>5
  <2>2. CASE y # x
    BY <2>2, <1>5, <1>6 DEF SourcesSound
  <2> QED BY <2>1, <2>2
<1> QED BY <1>3, <1>5, <1>6, <1>7

-----------------------------------------------------------------------------
(* User code runs when no source is being read. *)

\* When user code runs no source is being read.
LEMMA NothingRead ==
  ASSUME PlaceSound, UserRuns
  PROVE  todo = << >> /\ position = 1
BY DEF PlaceSound, UserRuns

\* New events keep the sources sound.
LEMMA AddEventsKeeps ==
  ASSUME DeliveryInv, UserRuns, NEW x \in Exchanges, NEW new \in Seq(EventIds),
         Distinct(new), Owned(x, new), \A i \in DOMAIN new : new[i] \notin Added,
         AddEvents(x, new)
  PROVE  DeliveryInv'
<1> DEFINE list == events[x] \o new
           n == Len(events[x])
<1>1. /\ events' = [events EXCEPT ![x] = list]
      /\ sorted' = [sorted EXCEPT ![x] = FALSE]
      /\ UNCHANGED <<attached, range, cursor, phase, span, timestamp, ticks, todo, position, heard>>
  BY DEF AddEvents, replayVars, runVars
<1>2. /\ events[x] \in Seq(EventIds) /\ n \in Nat /\ DOMAIN events[x] = 1 .. n
      /\ list \in Seq(EventIds) /\ Len(list) = n + Len(new) /\ Len(new) \in Nat
      /\ DOMAIN list = 1 .. n + Len(new) /\ DOMAIN new = 1 .. Len(new)
      /\ \A i \in 1 .. n : list[i] = events[x][i]
      /\ \A i \in n + 1 .. n + Len(new) : list[i] = new[i - n]
  BY SMTT(30) DEF DeliveryInv, SandboxType
<1>3. \A i \in 1 .. n, j \in 1 .. Len(new) : events[x][i] # new[j]
  <2>1. \A i \in 1 .. n : events[x][i] \in Added
    BY <1>2 DEF Added, Elements
  <2> QED BY <1>2, <2>1
<1> HIDE DEF list, n
<1>4. Distinct(list)
  <2> SUFFICES ASSUME NEW i \in 1 .. n + Len(new), NEW j \in 1 .. n + Len(new), list[i] = list[j]
               PROVE  i = j
    BY <1>2 DEF Distinct
  <2>1. Distinct(events[x])
    BY DEF DeliveryInv, SourcesSound
  <2>2. CASE i \in 1 .. n /\ j \in 1 .. n
    BY <2>1, <2>2, <1>2 DEF Distinct
  <2>3. CASE i \notin 1 .. n /\ j \notin 1 .. n
    <3>1. i \in n + 1 .. n + Len(new) /\ j \in n + 1 .. n + Len(new)
      BY <1>2, <2>3
    <3>2. i - n \in 1 .. Len(new) /\ j - n \in 1 .. Len(new) /\ new[i - n] = new[j - n]
      BY <1>2, <3>1
    <3>3. i - n = j - n
      BY <1>2, <3>2 DEF Distinct
    <3> QED BY <1>2, <3>3
  <2>4. CASE i \in 1 .. n /\ j \notin 1 .. n
    <3>1. j \in n + 1 .. n + Len(new) /\ j - n \in 1 .. Len(new)
      BY <1>2, <2>4
    <3> QED BY <1>2, <1>3, <2>4, <3>1
  <2>5. CASE i \notin 1 .. n /\ j \in 1 .. n
    <3>1. i \in n + 1 .. n + Len(new) /\ i - n \in 1 .. Len(new)
      BY <1>2, <2>5
    <3> QED BY <1>2, <1>3, <2>5, <3>1
  <2> QED BY <2>2, <2>3, <2>4, <2>5
<1>5. Owned(x, list)
  <2> SUFFICES ASSUME NEW i \in 1 .. n + Len(new) PROVE OwnerOf[list[i]] = x
    BY <1>2 DEF Owned
  <2>1. CASE i \in 1 .. n
    BY <2>1, <1>2 DEF DeliveryInv, SourcesSound, Owned
  <2>2. CASE i \notin 1 .. n
    <3>1. i \in n + 1 .. n + Len(new) /\ i - n \in 1 .. Len(new)
      BY <1>2, <2>2
    <3> QED BY <1>2, <3>1, SMTT(30) DEF Owned
  <2> QED BY <2>1, <2>2
<1>6. /\ events' \in [Exchanges -> Seq(EventIds)] /\ sorted' \in [Exchanges -> BOOLEAN]
      /\ events'[x] = list /\ sorted'[x] = FALSE
      /\ \A y \in Exchanges : y # x => events'[y] = events[y] /\ sorted'[y] = sorted[y]
  BY <1>1, <1>2 DEF DeliveryInv, SandboxType
<1>7. SandboxType'
  BY <1>1, <1>6 DEF DeliveryInv, SandboxType
<1>8. SourcesSound'
  BY <1>4, <1>5, <1>6 DEF DeliveryInv, SourcesSound
<1>9. todo = << >> /\ position = 1
  BY NothingRead DEF DeliveryInv
<1>10. PlaceSound'
  BY <1>1, <1>9 DEF DeliveryInv, PlaceSound
<1>11. HeardPassed'
  BY <1>1, <1>9 DEF DeliveryInv, HeardPassed, Passed
<1> QED BY <1>7, <1>8, <1>10, <1>11 DEF DeliveryInv

\* Attaching a source may sort it, and sets a range of its times.
LEMMA AttachKeeps ==
  ASSUME DeliveryInv, NEW x \in Exchanges, Attach(x)
  PROVE  DeliveryInv'
<1>1. /\ todo = << >> /\ position = 1
      /\ UNCHANGED <<cursor, phase, span, timestamp, ticks, todo, position, heard>>
  BY NothingRead DEF Attach, DeliveryInv, replayVars, runVars
<1>2. attached' \in Seq(Exchanges)
  <2>1. attached \in Seq(Exchanges) /\ Append(attached, x) \in Seq(Exchanges)
    BY DEF DeliveryInv, SandboxType
  <2> QED BY <2>1 DEF Attach
<1>3. /\ events' \in [Exchanges -> Seq(EventIds)] /\ sorted' \in [Exchanges -> BOOLEAN]
      /\ range' \in [start : Nat, end : Nat] /\ SourcesSound'
  <2>1. CASE events[x] # << >> /\ DetectRange(x)
    <3>1. /\ events' \in [Exchanges -> Seq(EventIds)] /\ sorted' \in [Exchanges -> BOOLEAN]
          /\ SourcesSound' /\ Len(events'[x]) = Len(events[x])
      BY <2>1, SortKeepsSources DEF DetectRange, DeliveryInv
    <3>2. Len(events[x]) \in Nat \ {0}
      BY <2>1, EmptySeq DEF DeliveryInv, SandboxType
    <3>3. events'[x][1] \in EventIds /\ events'[x][Len(events[x])] \in EventIds
      <4>1. events'[x] \in Seq(EventIds)
        BY <3>1
      <4>2. 1 \in 1 .. Len(events'[x]) /\ Len(events[x]) \in 1 .. Len(events'[x])
        BY <3>1, <3>2
      <4> QED BY <4>1, <4>2, ElementOfSeq
    <3>4. range' \in [start : Nat, end : Nat]
      BY <2>1, <3>3, EventAssumption DEF DetectRange
    <3> QED BY <3>1, <3>4
  <2>2. CASE UNCHANGED <<events, sorted, range, clock>>
    BY <2>2 DEF DeliveryInv, SandboxType, SourcesSound
  <2> QED BY <2>1, <2>2 DEF Attach
<1>4. SandboxType'
  BY <1>1, <1>2, <1>3 DEF DeliveryInv, SandboxType
<1>5. PlaceSound' /\ HeardPassed'
  BY <1>1 DEF DeliveryInv, PlaceSound, HeardPassed, Passed
<1> QED BY <1>3, <1>4, <1>5 DEF DeliveryInv

\* Nothing the invariant is about changes.
LEMMA OtherwiseKept ==
  ASSUME DeliveryInv,
         UNCHANGED <<events, sorted, attached, range, cursor, phase, span, timestamp, ticks, todo, position, heard>>
  PROVE  DeliveryInv'
BY DEF DeliveryInv, SandboxType, SourcesSound, PlaceSound, HeardPassed, Passed, Source

\* What user code does keeps the delivery invariant.
LEMMA UserStepKeeps ==
  ASSUME DeliveryInv, UserStep
  PROVE  DeliveryInv' /\ UNCHANGED <<heard, timestamp>>
<1>1. ASSUME NEW e \in EventIds, AddTrade(e) \/ AddSnapshot(e) \/ AddCandle(e)
      PROVE  DeliveryInv' /\ UNCHANGED <<heard, timestamp>>
  <2> DEFINE x == OwnerOf[e]
  <2>1. x \in Exchanges
    BY SandboxAssumption
  <2>2. CASE UserRuns /\ e \notin Added /\ AddEvents(x, <<e>>)
    <3>1. <<e>> \in Seq(EventIds) /\ Distinct(<<e>>) /\ Owned(x, <<e>>)
          /\ \A i \in DOMAIN <<e>> : <<e>>[i] \notin Added
      BY <2>2 DEF Distinct, Owned
    <3>2. DeliveryInv'
      BY <2>1, <2>2, <3>1, AddEventsKeeps
    <3> QED BY <2>2, <3>2 DEF AddEvents, replayVars, runVars
  <2>3. CASE /\ UserRuns /\ e \notin Added /\ KindOf[e] = "CANDLE"
             /\ SnapshotOf[e] \notin Added /\ AddEvents(x, <<e, SnapshotOf[e]>>)
    <3> DEFINE f == SnapshotOf[e]
    <3>1. f \in EventIds /\ KindOf[f] = "SNAPSHOT" /\ OwnerOf[f] = x
      BY <2>3, SandboxAssumption
    <3>2. e # f
      BY <2>3, <3>1
    <3> HIDE DEF f
    <3>3. <<e, f>> \in Seq(EventIds) /\ Distinct(<<e, f>>) /\ Owned(x, <<e, f>>)
          /\ \A i \in DOMAIN <<e, f>> : <<e, f>>[i] \notin Added
      BY <2>3, <3>1, <3>2 DEF Distinct, Owned, f
    <3>4. DeliveryInv'
      BY <2>1, <2>3, <3>3, AddEventsKeeps DEF f
    <3> QED BY <2>3, <3>4 DEF AddEvents, replayVars, runVars
  <2> QED BY <1>1, <2>2, <2>3 DEF AddTrade, AddSnapshot, AddCandle, New
<1>2. ASSUME NEW x \in Exchanges, Attach(x)
      PROVE  DeliveryInv' /\ UNCHANGED <<heard, timestamp>>
  BY <1>2, AttachKeeps DEF Attach, replayVars, runVars
<1>3. ASSUME NEW x \in Exchanges, Query(x) \/ Fill(x) \/ ChangeBook(x)
      PROVE  DeliveryInv' /\ UNCHANGED <<heard, timestamp>>
  <2>1. UNCHANGED <<events, sorted, attached, range, cursor, phase, span, timestamp, ticks, todo, position, heard>>
    BY <1>3 DEF Query, Fill, ChangeBook, sourceVars, replayVars, runVars
  <2> QED BY <2>1, OtherwiseKept
<1> QED BY <1>1, <1>2, <1>3 DEF UserStep

-----------------------------------------------------------------------------
(* The steps of a run. *)

\* A call of run() starts a new delivery.
LEMMA RunKeeps ==
  ASSUME DeliveryInv, Run
  PROVE  DeliveryInv' /\ Delivery!Restart
<1>1. /\ UNCHANGED <<events, sorted, attached, range, cursor>>
      /\ phase' = "initialize" /\ span' = range /\ timestamp' = range.start /\ ticks' = 0
      /\ todo' = attached /\ position' = 1 /\ heard' = [x \in Exchanges |-> << >>]
  BY DEF Run, sourceVars
<1>2. SandboxType'
  <2>1. heard' \in [Exchanges -> Seq(EventIds)] /\ range.start \in Nat
    BY <1>1 DEF DeliveryInv, SandboxType
  <2> QED BY <1>1, <2>1 DEF DeliveryInv, SandboxType, Phases
<1>3. SourcesSound' /\ PlaceSound'
  BY <1>1 DEF DeliveryInv, SourcesSound, PlaceSound
<1>4. HeardPassed'
  <2>1. DOMAIN << >> = {}
    OBVIOUS
  <2> QED BY <1>1, <2>1 DEF HeardPassed
<1>5. timestamp' \in Nat
  BY <1>2 DEF SandboxType
<1> QED BY <1>1, <1>2, <1>3, <1>4, <1>5 DEF DeliveryInv, Delivery!Restart, Delivery!Silence

\* The sources a replay has left belong to exchanges.
LEMMA SourceType ==
  ASSUME SandboxType, todo # << >>
  PROVE  Source \in Exchanges /\ Tail(todo) \in Seq(Exchanges)
BY DEF SandboxType, Source

\* A source that changed is sorted before any of it is read.
LEMMA SortSourceKeeps ==
  ASSUME DeliveryInv, SortSource
  PROVE  DeliveryInv' /\ UNCHANGED <<heard, timestamp>>
<1>1. /\ todo # << >> /\ ~sorted[Source] /\ Sort(Source)
      /\ UNCHANGED <<attached, range, cursor, phase, span, timestamp, ticks, todo, position, heard>>
  BY DEF SortSource, Replaying, replayVars, runVars
<1>2. Source \in Exchanges /\ Source' = Source
  BY <1>1, SourceType DEF DeliveryInv, Source
<1>3. /\ events' \in [Exchanges -> Seq(EventIds)] /\ sorted' \in [Exchanges -> BOOLEAN]
      /\ SourcesSound' /\ sorted'[Source]
  BY <1>1, <1>2, SortKeepsSources DEF DeliveryInv
<1>4. position = 1
  BY <1>1 DEF DeliveryInv, SandboxType, PlaceSound
<1>5. SandboxType'
  BY <1>1, <1>3 DEF DeliveryInv, SandboxType
<1>6. PlaceSound'
  BY <1>1, <1>2, <1>4 DEF DeliveryInv, PlaceSound
<1>7. HeardPassed'
  <2> SUFFICES ASSUME NEW x \in Exchanges, NEW i \in DOMAIN heard[x]
               PROVE  TimeOf[heard[x][i]] <= timestamp /\ TimeOf[heard[x][i]] <= cursor[x]
    BY <1>1 DEF HeardPassed, Passed
  <2>1. TimeOf[heard[x][i]] <= timestamp /\ Passed(x, heard[x][i])
    BY DEF DeliveryInv, HeardPassed
  <2>2. events[x] \in Seq(EventIds)
    BY DEF DeliveryInv, SandboxType
  <2> QED BY <2>1, <2>2, <1>4 DEF Passed
<1> QED BY <1>1, <1>3, <1>5, <1>6, <1>7 DEF DeliveryInv

\* The place in a source moves forward; what was heard stays passed.
LEMMA PlaceMoves ==
  ASSUME DeliveryInv, todo # << >>, sorted[Source], Within,
         position' = position + 1, NEW x \in Exchanges, NEW e \in EventIds, Passed(x, e),
         UNCHANGED <<events, cursor, todo>>
  PROVE  Passed(x, e)'
<1>1. position \in Nat /\ Source' = Source /\ x \in Exchanges /\ events[x] \in Seq(EventIds)
  BY DEF DeliveryInv, SandboxType, Source
<1> QED BY <1>1 DEF Passed

\* Skipping an event keeps the delivery invariant.
LEMMA SkipEventKeeps ==
  ASSUME DeliveryInv, SkipEvent
  PROVE  DeliveryInv' /\ UNCHANGED <<heard, timestamp>>
<1>1. /\ todo # << >> /\ sorted[Source] /\ Within /\ position' = position + 1
      /\ UNCHANGED <<events, sorted, attached, range, cursor, phase, span, timestamp, ticks, todo, heard>>
  BY DEF SkipEvent, Replaying, sourceVars, runVars
<1>2. SandboxType'
  BY <1>1, SMTT(30) DEF DeliveryInv, SandboxType
<1>3. SourcesSound' /\ PlaceSound'
  BY <1>1 DEF DeliveryInv, SandboxType, SourcesSound, PlaceSound, Source
<1>4. HeardPassed'
  <2> SUFFICES ASSUME NEW x \in Exchanges, NEW i \in DOMAIN heard[x]
               PROVE  TimeOf[heard[x][i]] <= timestamp /\ Passed(x, heard[x][i])'
    BY <1>1 DEF HeardPassed, Passed
  <2>1. heard[x][i] \in EventIds /\ TimeOf[heard[x][i]] <= timestamp /\ Passed(x, heard[x][i])
    BY DEF DeliveryInv, SandboxType, HeardPassed
  <2>2. ASSUME NEW e \in EventIds, Passed(x, e) PROVE Passed(x, e)'
    BY <1>1, <2>2, PlaceMoves
  <2>3. PICK e \in EventIds : e = heard[x][i]
    BY <2>1
  <2>4. Passed(x, e)'
    BY <2>1, <2>2, <2>3
  <2> QED BY <1>1, <2>1, <2>3, <2>4 DEF Passed
<1> QED BY <1>1, <1>2, <1>3, <1>4 DEF DeliveryInv

\* The event applied is heard once and after none it precedes.
LEMMA ApplyEventHears ==
  ASSUME DeliveryInv, ApplyEvent
  PROVE  /\ Source \in Exchanges /\ NextEvent \in EventIds
         /\ Delivery!Hear(Source, NextEvent)
<1> DEFINE x == Source
           f == NextEvent
<1>1. /\ todo # << >> /\ sorted[x] /\ Within /\ TimeOf[f] > cursor[x]
      /\ heard' = [heard EXCEPT ![x] = Append(@, f)]
      /\ UNCHANGED timestamp
  BY DEF ApplyEvent, Replaying, runVars
<1>2. x \in Exchanges
  BY <1>1, SourceType DEF DeliveryInv
<1>3. /\ events[x] \in Seq(EventIds) /\ position \in DOMAIN events[x] /\ f = events[x][position]
      /\ f \in EventIds /\ TimeOf[f] \in Nat /\ TimeOf[f] <= timestamp /\ cursor[x] \in Int
  <2>1. events[x] \in Seq(EventIds) /\ position \in 1 .. Len(events[x])
    BY <1>1, <1>2 DEF Within, DeliveryInv, SandboxType
  <2>2. f \in EventIds /\ TimeOf[f] <= timestamp
    BY <1>1, <2>1 DEF NextEvent, Within
  <2> QED BY <1>2, <2>1, <2>2, EventAssumption, SMTT(30) DEF NextEvent, DeliveryInv, SandboxType
<1>4. OwnerOf[f] = x
  BY <1>2, <1>3 DEF DeliveryInv, SourcesSound, Owned
<1>5. ASSUME NEW i \in DOMAIN heard[x] PROVE heard[x][i] # f /\ ~Precedes(f, heard[x][i])
  <2> DEFINE e == heard[x][i]
  <2>1. e \in EventIds /\ TimeOf[e] \in Nat /\ Passed(x, e)
    BY <1>2, EventAssumption DEF DeliveryInv, SandboxType, HeardPassed
  <2> HIDE DEF e, x, f
  <2>2. CASE TimeOf[e] <= cursor[x]
    <3>1. TimeOf[e] < TimeOf[f]
      BY <1>1, <1>3, <2>1, <2>2
    <3> QED BY <1>3, <2>1, <3>1 DEF Precedes, e
  <2>3. CASE \E k \in DOMAIN events[x] : k < position /\ events[x][k] = e
    <3>1. PICK k \in DOMAIN events[x] : k < position /\ events[x][k] = e
      BY <2>3
    <3>2. InOrder(events[x]) /\ Distinct(events[x])
      BY <1>1, <1>2 DEF DeliveryInv, SourcesSound
    <3>3. ~Precedes(f, e)
      BY <1>3, <3>1, <3>2 DEF InOrder
    <3>4. k # position
      BY <1>3, <3>1
    <3>5. e # f
      BY <1>3, <3>1, <3>2, <3>4 DEF Distinct
    <3> QED BY <3>3, <3>5 DEF e
  <2> QED BY <2>1, <2>2, <2>3 DEF Passed
<1> HIDE DEF x, f
<1>6. \A i \in DOMAIN heard[x] : ~Delivery!Precedes(f, heard[x][i])
  BY <1>5 DEF Precedes, Delivery!Precedes, Rank, Delivery!Rank
<1>7. Delivery!Hear(x, f)
  BY <1>1, <1>3, <1>4, <1>5, <1>6 DEF Delivery!Hear
<1> QED BY <1>2, <1>3, <1>7 DEF x, f

\* Applying an event keeps the delivery invariant.
LEMMA ApplyEventKeeps ==
  ASSUME DeliveryInv, ApplyEvent
  PROVE  DeliveryInv'
<1>1. PICK x \in Exchanges, f \in EventIds : x = Source /\ f = NextEvent
  BY ApplyEventHears
<1>2. /\ todo # << >> /\ sorted[Source] /\ Within /\ position' = position + 1
      /\ heard' = [heard EXCEPT ![x] = Append(@, f)]
      /\ UNCHANGED <<events, sorted, attached, range, cursor, phase, span, timestamp, ticks, todo>>
  BY <1>1 DEF ApplyEvent, Replaying, sourceVars, runVars
<1>3. heard[x] \in Seq(EventIds) /\ Append(heard[x], f) \in Seq(EventIds) /\ heard'[x] = Append(heard[x], f)
      /\ \A y \in Exchanges : y # x => heard'[y] = heard[y]
  BY <1>2 DEF DeliveryInv, SandboxType
<1>4. SandboxType'
  <2>1. heard' \in [Exchanges -> Seq(EventIds)]
    BY <1>2, <1>3 DEF DeliveryInv, SandboxType
  <2>2. position' \in Nat \ {0}
    BY <1>2 DEF DeliveryInv, SandboxType
  <2> QED BY <1>2, <2>1, <2>2 DEF DeliveryInv, SandboxType
<1>5. SourcesSound' /\ PlaceSound'
  BY <1>2 DEF DeliveryInv, SandboxType, SourcesSound, PlaceSound, Source
<1>6. TimeOf[f] <= timestamp /\ Passed(x, f)'
  <2>a. PICK q \in Nat \ {0}, e \in Seq(EventIds) : q = position /\ e = events[x]
    BY DEF DeliveryInv, SandboxType
  <2>b. q <= Len(e) /\ position' = q + 1
    BY <1>1, <1>2, <2>a DEF Within
  <2>c. q \in DOMAIN e /\ q < q + 1
    BY <2>b
  <2>1. events[x] \in Seq(EventIds) /\ position \in DOMAIN events[x] /\ position < position'
    BY <2>a, <2>b, <2>c
  <2>2. events'[x][position] = f /\ Source' = x /\ todo' # << >>
    BY <1>1, <1>2 DEF NextEvent, Source
  <2>3. \E i \in DOMAIN events'[x] : i < position' /\ events'[x][i] = f
    BY <1>2, <2>1, <2>2
  <2>4. TimeOf[f] <= timestamp
    BY <1>1, <1>2 DEF Within, NextEvent
  <2> QED BY <2>2, <2>3, <2>4 DEF Passed
<1>7. HeardPassed'
  <2> SUFFICES ASSUME NEW y \in Exchanges, NEW i \in DOMAIN heard'[y]
               PROVE  TimeOf[heard'[y][i]] <= timestamp' /\ Passed(y, heard[y][i])'
    BY DEF HeardPassed
  <2>1. PICK e : e = heard'[y][i]
    OBVIOUS
  <2>2. (y = x /\ e = f) \/ \E j \in DOMAIN heard[y] : e = heard[y][j]
    <3>1. CASE y = x
      <4>1. i \in 1 .. Len(heard[x]) + 1 /\ Len(heard[x]) \in Nat
        BY <1>3, <3>1
      <4> QED BY <1>3, <2>1, <3>1, <4>1
    <3>2. CASE y # x
      BY <1>3, <2>1, <3>2
    <3> QED BY <3>1, <3>2
  <2>3. TimeOf[e] <= timestamp /\ Passed(y, e)'
    <3>1. ASSUME NEW j \in DOMAIN heard[y], e = heard[y][j] PROVE TimeOf[e] <= timestamp /\ Passed(y, e)'
      <4>1. e \in EventIds /\ TimeOf[e] <= timestamp /\ Passed(y, e)
        BY <3>1, SMTT(30) DEF DeliveryInv, SandboxType, HeardPassed
      <4> QED BY <1>2, <4>1, PlaceMoves
    <3> QED BY <1>6, <2>2, <3>1
  <2> QED BY <1>2, <2>1, <2>3 DEF Passed
<1> QED BY <1>4, <1>5, <1>7 DEF DeliveryInv

\* The cursor moves to the timestamp, which nothing heard lies behind.
LEMMA EndSourceKeeps ==
  ASSUME DeliveryInv, EndSource
  PROVE  DeliveryInv' /\ UNCHANGED <<heard, timestamp>>
<1>1. PICK x \in Exchanges : x = Source
  BY SourceType DEF EndSource, Replaying, DeliveryInv
<1>2. /\ todo # << >> /\ Replaying /\ todo' = Tail(todo) /\ position' = 1
      /\ cursor' = [cursor EXCEPT ![x] = timestamp]
      /\ UNCHANGED <<events, sorted, attached, range, phase, span, timestamp, ticks, heard>>
  BY <1>1 DEF EndSource, Replaying, sourceVars, runVars
<1>3. SandboxType'
  <2>1. Tail(todo) \in Seq(Exchanges)
    BY <1>2, SourceType DEF DeliveryInv
  <2>2. cursor' \in [Exchanges -> Int]
    BY <1>2 DEF DeliveryInv, SandboxType
  <2> QED BY <1>2, <2>1, <2>2, SMTT(30) DEF DeliveryInv, SandboxType
<1>4. SourcesSound' /\ PlaceSound'
  BY <1>2 DEF DeliveryInv, SourcesSound, PlaceSound, Replaying
<1>5. HeardPassed'
  <2> SUFFICES ASSUME NEW y \in Exchanges, NEW i \in DOMAIN heard[y]
               PROVE  TimeOf[heard[y][i]] <= timestamp /\ TimeOf[heard[y][i]] <= cursor'[y]
    BY <1>2 DEF HeardPassed, Passed
  <2>1. TimeOf[heard[y][i]] <= timestamp /\ Passed(y, heard[y][i])
    BY DEF DeliveryInv, HeardPassed
  <2>2. CASE y = x
    BY <1>2, <2>1, <2>2 DEF DeliveryInv, SandboxType
  <2>3. CASE y # x
    BY <1>1, <1>2, <2>1, <2>3 DEF DeliveryInv, SandboxType, Passed
  <2> QED BY <2>2, <2>3
<1> QED BY <1>2, <1>3, <1>4, <1>5 DEF DeliveryInv

\* The other steps of the loop read no source.
LEMMA LoopStepKeeps ==
  ASSUME DeliveryInv, EndReplay \/ BeginTick \/ ProcessTicks \/ EndTick \/ FinishRun
  PROVE  DeliveryInv' /\ UNCHANGED heard /\ timestamp <= timestamp'
<1>1. /\ UNCHANGED <<events, sorted, attached, range, cursor, span, position, heard>>
      /\ phase' \in Phases
      /\ todo = << >> /\ (todo' = todo \/ (todo' = attached /\ phase' = "replay"))
      /\ timestamp' \in Nat /\ timestamp <= timestamp' /\ ticks' \in Nat
  <2>1. timestamp \in Nat /\ ticks \in Nat /\ TickInterval \in Nat
    BY SandboxAssumption DEF DeliveryInv, SandboxType
  <2>2. phase \notin {"initialize", "replay"} => todo = << >>
    BY DEF DeliveryInv, PlaceSound
  <2>3. CASE EndReplay
    BY <2>1, <2>3 DEF EndReplay, ReplayedAll, sourceVars, replayVars, Phases
  <2>4. CASE BeginTick
    BY <2>1, <2>2, <2>4 DEF BeginTick, sourceVars, Phases
  <2>5. CASE ProcessTicks
    BY <2>1, <2>2, <2>5 DEF ProcessTicks, sourceVars, replayVars, Phases
  <2>6. CASE EndTick
    BY <2>1, <2>2, <2>6 DEF EndTick, sourceVars, replayVars, Phases
  <2>7. CASE FinishRun
    BY <2>1, <2>2, <2>7 DEF FinishRun, sourceVars, replayVars, Phases
  <2> QED BY <2>3, <2>4, <2>5, <2>6, <2>7
<1>2. position = 1
  BY <1>1 DEF DeliveryInv, PlaceSound
<1>3. SandboxType'
  BY <1>1 DEF DeliveryInv, SandboxType
<1>4. SourcesSound' /\ PlaceSound'
  BY <1>1, <1>2 DEF DeliveryInv, SourcesSound, PlaceSound
<1>5. HeardPassed'
  <2> SUFFICES ASSUME NEW y \in Exchanges, NEW i \in DOMAIN heard[y]
               PROVE  TimeOf[heard[y][i]] <= timestamp' /\ TimeOf[heard[y][i]] <= cursor[y]
    BY <1>1 DEF HeardPassed, Passed
  <2>1. TimeOf[heard[y][i]] <= timestamp /\ Passed(y, heard[y][i])
    BY DEF DeliveryInv, HeardPassed
  <2>2. TimeOf[heard[y][i]] \in Nat /\ timestamp \in Nat
    BY EventAssumption DEF DeliveryInv, SandboxType
  <2> QED BY <1>1, <2>1, <2>2 DEF Passed
<1> QED BY <1>1, <1>3, <1>4, <1>5 DEF DeliveryInv

\* The delivery invariant holds at the start, which is a start of EventDelivery.
LEMMA DeliveryInit == Init => DeliveryInv /\ Delivery!Init
<1> SUFFICES ASSUME Init PROVE DeliveryInv /\ Delivery!Init
  OBVIOUS
<1>1. << >> \in Seq(EventIds) /\ << >> \in Seq(Exchanges) /\ DOMAIN << >> = {}
  OBVIOUS
<1>2. \A x \in Exchanges : events[x] = << >> /\ heard[x] = << >>
  BY DEF Init
<1>3. SandboxType
  BY <1>1, SandboxAssumption DEF Init, SandboxType, BeforeAll, Phases
<1>4. SourcesSound /\ HeardPassed
  BY <1>1, <1>2 DEF SourcesSound, HeardPassed, Distinct, Owned, InOrder
<1>5. PlaceSound
  BY DEF Init, PlaceSound
<1>6. Delivery!Init
  BY DEF Init, Delivery!Init, Delivery!Silence
<1> QED BY <1>3, <1>4, <1>5, <1>6 DEF DeliveryInv

\* Every action keeps the delivery invariant and is a step or a stutter of EventDelivery.
LEMMA DeliveryStep ==
  ASSUME DeliveryInv, [Next]_vars
  PROVE  DeliveryInv' /\ [Delivery!Next]_Delivery!dvars
<1>1. timestamp \in Nat
  BY DEF DeliveryInv, SandboxType
<1>2. ASSUME DeliveryInv', UNCHANGED heard, timestamp <= timestamp'
      PROVE  [Delivery!Next]_Delivery!dvars
  <2>1. Delivery!Advance
    BY <1>2 DEF Delivery!Advance, DeliveryInv, SandboxType
  <2> QED BY <2>1 DEF Delivery!Next
<1>3. CASE UserStep
  BY <1>1, <1>2, <1>3, UserStepKeeps
<1>4. CASE Run
  BY <1>4, RunKeeps DEF Delivery!Next
<1>5. CASE SortSource
  BY <1>1, <1>2, <1>5, SortSourceKeeps
<1>6. CASE SkipEvent
  BY <1>1, <1>2, <1>6, SkipEventKeeps
<1>7. CASE ApplyEvent
  BY <1>7, ApplyEventKeeps, ApplyEventHears DEF Delivery!Next
<1>8. CASE EndSource
  BY <1>1, <1>2, <1>8, EndSourceKeeps
<1>9. CASE EndReplay \/ BeginTick \/ ProcessTicks \/ EndTick \/ FinishRun
  BY <1>2, <1>9, LoopStepKeeps
<1>10. CASE UNCHANGED vars
  <2>1. UNCHANGED <<events, sorted, attached, range, cursor, phase, span, timestamp, ticks, todo, position, heard>>
    BY <1>10 DEF vars, sourceVars, replayVars, runVars
  <2> QED BY <1>1, <1>2, <2>1, OtherwiseKept
<1> QED BY <1>3, <1>4, <1>5, <1>6, <1>7, <1>8, <1>9, <1>10 DEF Next, EngineStep

\* The engine implements EventDelivery: to every exchange a run gives each event
\* of its source once, in the order of the sort key and not before its time,
\* though user code adds to the sources between the steps and sources are
\* sorted again while run() goes through them (sandbox_engine.py:234-257).
THEOREM SandboxDelivers == Spec => DeliversInOrder
<1>1. Init => DeliveryInv /\ Delivery!Init
  BY DeliveryInit
<1>2. DeliveryInv /\ [Next]_vars => DeliveryInv' /\ [Delivery!Next]_Delivery!dvars
  BY DeliveryStep
<1> QED BY <1>1, <1>2, PTL DEF Spec, DeliversInOrder, Delivery!Spec

-----------------------------------------------------------------------------
(* The ticks of a run. *)

\* Where run() stands between its first tick and its last.
TickInv ==
  /\ phase # "setup" => timestamp = span.start + ticks * TickInterval
  /\ phase = "initialize" => ticks = 0
  /\ phase \in {"replay", "callback", "matching"} => timestamp <= span.end
  /\ phase \in {"loop", "done"} /\ ticks > 0 => timestamp - TickInterval <= span.end
  /\ phase = "done" => timestamp > span.end

\* The number n of steps of t that lead from s to u, beyond e, where the last
\* began at or before e.
LEMMA StepsCounted ==
  ASSUME NEW s \in Nat, NEW e \in Nat, NEW t \in Nat \ {0}, NEW n \in Nat,
         NEW u \in Nat, u = s + n * t, u > e, n > 0 => u - t <= e
  PROVE  n = IF s > e THEN 0 ELSE 1 + (e - s) \div t
<1>1. CASE n = 0
  <2>1. n * t = 0
    BY <1>1
  <2> QED BY <1>1, <2>1
<1>2. CASE n > 0
  <2> DEFINE m == n - 1
  <2>1. m \in Nat /\ n = m + 1 /\ n * t = m * t + t /\ m * t \in Nat
    BY <1>2
  <2>2. m * t <= e - s /\ e - s < m * t + t
    BY <1>2, <2>1
  <2>3. s <= e
    BY <2>1, <2>2
  <2>4. (e - s) \div t = m
    <3> DEFINE d == e - s
    <3>1. d \in Nat /\ m * t <= d /\ d < m * t + t
      BY <2>2, <2>3
    <3> HIDE DEF d, m
    <3> QED BY <2>1, <3>1
  <2> QED BY <2>1, <2>3, <2>4
<1> QED BY <1>1, <1>2

\* Every action keeps the count of ticks and the time it stands for.
LEMMA TicksKept ==
  ASSUME DeliveryInv, TickInv, [Next]_vars
  PROVE  TickInv'
<1>1. timestamp \in Nat /\ ticks \in Nat /\ TickInterval \in Nat \ {0} /\ span.start \in Nat /\ span.end \in Nat
  BY SandboxAssumption DEF DeliveryInv, SandboxType
<1>2. ASSUME UNCHANGED <<phase, span, timestamp, ticks>> PROVE TickInv'
  BY <1>2, SMTT(30) DEF TickInv
<1>3. CASE UserStep
  BY <1>2, <1>3 DEF UserStep, AddTrade, AddSnapshot, AddCandle, AddEvents, Attach,
     Query, Fill, ChangeBook, runVars
<1>4. CASE Run
  <2>1. phase' = "initialize" /\ ticks' = 0 /\ timestamp' = span'.start /\ span' = range
    BY <1>4 DEF Run
  <2>2. range.start \in Nat /\ 0 * TickInterval = 0
    BY <1>1 DEF DeliveryInv, SandboxType
  <2> QED BY <2>1, <2>2 DEF TickInv
<1>5. CASE SortSource \/ SkipEvent \/ ApplyEvent \/ EndSource
  BY <1>2, <1>5 DEF SortSource, SkipEvent, ApplyEvent, EndSource, runVars
<1>6. CASE EndReplay
  BY <1>1, <1>6 DEF EndReplay, ReplayedAll, TickInv
<1>7. CASE BeginTick
  BY <1>1, <1>7 DEF BeginTick, TickInv
<1>8. CASE ProcessTicks
  BY <1>1, <1>8 DEF ProcessTicks, TickInv
<1>9. CASE EndTick
  <2>1. /\ phase = "matching" /\ phase' = "loop" /\ ticks' = ticks + 1
        /\ timestamp' = timestamp + TickInterval /\ span' = span
    BY <1>9 DEF EndTick
  <2>2. timestamp = span.start + ticks * TickInterval /\ timestamp <= span.end
    BY <2>1 DEF TickInv
  <2>3. (ticks + 1) * TickInterval = ticks * TickInterval + TickInterval
    BY <1>1
  <2>4. ticks * TickInterval \in Nat
    BY <1>1
  <2>5. timestamp' = span.start + (ticks + 1) * TickInterval /\ timestamp' - TickInterval <= span.end
    BY <1>1, <2>1, <2>2, <2>3, <2>4
  <2> QED BY <2>1, <2>5 DEF TickInv
<1>10. CASE FinishRun
  BY <1>1, <1>10 DEF FinishRun, TickInv
<1>11. CASE UNCHANGED vars
  BY <1>2, <1>11 DEF vars, runVars
<1> QED BY <1>3, <1>4, <1>5, <1>6, <1>7, <1>8, <1>9, <1>10, <1>11 DEF Next, EngineStep

\* For every range and every interval above 0 run() makes the ticks that lie in
\* its range, none when the end lies before the start (sandbox_engine.py:207-232).
THEOREM TicksCounted == Spec => []TicksAreCounted
<1>1. Init => TickInv
  BY DEF Init, TickInv
<1>2. DeliveryInv /\ [Next]_vars => DeliveryInv'
  BY DeliveryStep
<1>3. DeliveryInv /\ TickInv /\ [Next]_vars => TickInv'
  BY TicksKept
<1>4. DeliveryInv /\ TickInv => TicksAreCounted
  <2> SUFFICES ASSUME DeliveryInv, TickInv PROVE TicksAreCounted
    OBVIOUS
  <2>1. timestamp \in Nat /\ ticks \in Nat /\ TickInterval \in Nat \ {0} /\ span.start \in Nat /\ span.end \in Nat
    BY SandboxAssumption DEF DeliveryInv, SandboxType
  <2>2. phase \in {"replay", "callback", "matching"} =>
          timestamp = span.start + ticks * TickInterval /\ timestamp <= span.end
    BY DEF TickInv
  <2>3. ASSUME phase = "done"
        PROVE  ticks = IF span.start > span.end THEN 0 ELSE 1 + (span.end - span.start) \div TickInterval
    <3>1. /\ timestamp = span.start + ticks * TickInterval
          /\ timestamp > span.end /\ (ticks > 0 => timestamp - TickInterval <= span.end)
      BY <2>3 DEF TickInv
    <3>2. PICK s \in Nat, e \in Nat, t \in Nat \ {0}, n \in Nat, u \in Nat :
            s = span.start /\ e = span.end /\ t = TickInterval /\ n = ticks /\ u = timestamp
      BY <2>1
    <3>3. u = s + n * t /\ u > e /\ (n > 0 => u - t <= e)
      BY <3>1, <3>2
    <3>4. n = IF s > e THEN 0 ELSE 1 + (e - s) \div t
      BY <3>3, StepsCounted
    <3> QED BY <3>2, <3>4
  <2> QED BY <2>2, <2>3 DEF TicksAreCounted
<1>5. Init => DeliveryInv
  BY DeliveryInit
<1> QED BY <1>1, <1>2, <1>3, <1>4, <1>5, PTL DEF Spec

-----------------------------------------------------------------------------
(* What a run still has to do. *)

\* A read of a source stops behind its last event at the latest.
PlaceWithin == todo # << >> => position <= Len(events[Source]) + 1

\* Every action keeps the place within the source that is read.
LEMMA PlaceStaysWithin ==
  ASSUME DeliveryInv, PlaceWithin, [Next]_vars
  PROVE  PlaceWithin'
<1>1. \A x \in Exchanges : Len(events[x]) \in Nat /\ Len(events'[x]) \in Nat
  <2>1. DeliveryInv'
    BY DeliveryStep
  <2>2. events \in [Exchanges -> Seq(EventIds)]
    BY DEF DeliveryInv, SandboxType
  <2>3. events' \in [Exchanges -> Seq(EventIds)]
    BY <2>1 DEF DeliveryInv, SandboxType
  <2> QED BY <2>2, <2>3
<1>2. todo # << >> => Source \in Exchanges
  BY SourceType DEF DeliveryInv
<1>3. todo' # << >> => Source' \in Exchanges
  <2>1. DeliveryInv'
    BY DeliveryStep
  <2>2. todo' \in Seq(Exchanges)
    BY <2>1 DEF DeliveryInv, SandboxType
  <2> QED BY <2>2 DEF Source
<1>4. CASE todo' = << >>
  BY <1>4 DEF PlaceWithin
<1>5. CASE position' = 1 /\ todo' # << >>
  BY <1>1, <1>3, <1>5 DEF PlaceWithin
<1>6. CASE UserStep
  <2>1. todo' = << >>
    <3>1. UserRuns => todo = << >>
      BY DEF DeliveryInv, PlaceSound, UserRuns
    <3>2. todo = << >> /\ todo' = todo
      BY <1>6, <3>1 DEF UserStep, AddTrade, AddSnapshot, AddCandle, AddEvents, Attach,
         Query, Fill, ChangeBook, replayVars, UserRuns
    <3> QED BY <3>2
  <2> QED BY <1>4, <2>1
<1>7. CASE Run \/ EndSource
  BY <1>4, <1>5, <1>7 DEF Run, EndSource
<1>8. CASE SortSource
  <2>1. /\ todo # << >> /\ todo' = todo /\ position' = position /\ Sort(Source)
    BY <1>8 DEF SortSource, Replaying, replayVars
  <2>2. PICK p \in Sortings(events[Source]) :
          events' = [events EXCEPT ![Source] = Rearranged(@, p)]
    BY <2>1 DEF Sort
  <2>3. events'[Source] = Rearranged(events[Source], p)
    BY <1>2, <2>1, <2>2 DEF DeliveryInv, SandboxType
  <2>4. events[Source] \in Seq(EventIds) /\ Distinct(events[Source])
    BY <1>2, <2>1 DEF DeliveryInv, SandboxType, SourcesSound
  <2>5. Len(events'[Source]) = Len(events[Source])
    BY <2>2, <2>3, <2>4, SortingSound
  <2> QED BY <2>1, <2>5 DEF PlaceWithin, Source
<1>9. CASE SkipEvent \/ ApplyEvent
  <2>1. /\ todo # << >> /\ todo' = todo /\ events' = events /\ position' = position + 1
        /\ position <= Len(events[Source])
    BY <1>9 DEF SkipEvent, ApplyEvent, Replaying, Within, sourceVars
  <2>2. position \in Nat /\ Len(events[Source]) \in Nat
    BY <1>1, <1>2, <2>1 DEF DeliveryInv, SandboxType
  <2> QED BY <2>1, <2>2 DEF PlaceWithin, Source
<1>10. CASE EndReplay \/ ProcessTicks \/ EndTick \/ FinishRun
  <2>1. todo' = << >>
    BY <1>10 DEF EndReplay, ReplayedAll, ProcessTicks, EndTick, FinishRun, replayVars,
       DeliveryInv, PlaceSound
  <2> QED BY <1>4, <2>1
<1>11. CASE BeginTick
  <2>1. todo = << >> /\ position' = position
    BY <1>11 DEF BeginTick, DeliveryInv, PlaceSound
  <2>2. position' = 1
    BY <2>1 DEF DeliveryInv, PlaceSound
  <2> QED BY <1>4, <1>5, <2>2
<1>12. CASE UNCHANGED vars
  BY <1>12 DEF vars, sourceVars, replayVars, PlaceWithin, Source
<1> QED BY <1>6, <1>7, <1>8, <1>9, <1>10, <1>11, <1>12 DEF Next, EngineStep

\* What is left to do is told in numbers.
LEMMA LeftCounts ==
  ASSUME DeliveryInv, PlaceWithin
  PROVE  /\ TimeLeft \in Nat /\ StageRank[phase] \in Nat /\ Len(todo) \in Nat
         /\ Unsorted \in Nat /\ EventsLeft \in Nat
         /\ Left \in [1 .. 5 -> Nat]
<1>1. TimeLeft \in Nat
  BY DEF TimeLeft, Higher, DeliveryInv, SandboxType
<1>2. StageRank[phase] \in Nat
  BY DEF StageRank, DeliveryInv, SandboxType, Phases
<1>3. Len(todo) \in Nat /\ Unsorted \in Nat
  BY DEF Unsorted, DeliveryInv, SandboxType
<1>4. EventsLeft \in Nat
  <2>1. CASE todo = << >>
    BY <2>1 DEF EventsLeft
  <2>2. CASE todo # << >>
    <3>1. Source \in Exchanges
      BY <2>2, SourceType DEF DeliveryInv
    <3>2. Len(events[Source]) \in Nat /\ position \in Nat /\ position <= Len(events[Source]) + 1
      BY <2>2, <3>1 DEF DeliveryInv, SandboxType, PlaceWithin
    <3> QED BY <2>2, <3>2 DEF EventsLeft
  <2> QED BY <2>1, <2>2
<1> QED BY <1>1, <1>2, <1>3, <1>4 DEF Left

\* Tuples of five numbers of which the first that differs is smaller.
LEMMA LexLessAt ==
  ASSUME NEW a, NEW b, NEW c, NEW d, NEW e, NEW a2, NEW b2, NEW c2, NEW d2, NEW e2,
         \/ a2 < a
         \/ a2 = a /\ b2 < b
         \/ a2 = a /\ b2 = b /\ c2 < c
         \/ a2 = a /\ b2 = b /\ c2 = c /\ d2 < d
         \/ a2 = a /\ b2 = b /\ c2 = c /\ d2 = d /\ e2 < e
  PROVE  LexLess(<<a2, b2, c2, d2, e2>>, <<a, b, c, d, e>>)
<1> DEFINE u == <<a2, b2, c2, d2, e2>>
           v == <<a, b, c, d, e>>
<1>1. /\ u[1] = a2 /\ u[2] = b2 /\ u[3] = c2 /\ u[4] = d2 /\ u[5] = e2
      /\ v[1] = a /\ v[2] = b /\ v[3] = c /\ v[4] = d /\ v[5] = e
  OBVIOUS
<1> SUFFICES LexLess(u, v)
  OBVIOUS
<1> HIDE DEF u, v
<1>2. CASE a2 < a
  BY <1>1, <1>2 DEF LexLess
<1>3. CASE a2 = a /\ b2 < b
  BY <1>1, <1>3 DEF LexLess
<1>4. CASE a2 = a /\ b2 = b /\ c2 < c
  BY <1>1, <1>4 DEF LexLess
<1>5. CASE a2 = a /\ b2 = b /\ c2 = c /\ d2 < d
  BY <1>1, <1>5 DEF LexLess
<1>6. CASE a2 = a /\ b2 = b /\ c2 = c /\ d2 = d /\ e2 < e
  BY <1>1, <1>6 DEF LexLess
<1> QED BY <1>2, <1>3, <1>4, <1>5, <1>6

\* Every step of run() leaves less.
LEMMA EngineStepLowers ==
  ASSUME DeliveryInv, TickInv, PlaceWithin, EngineStep
  PROVE  LexLess(Left', Left)
<1>1. /\ timestamp \in Nat /\ span.end \in Nat /\ TickInterval \in Nat \ {0} /\ position \in Nat
      /\ todo \in Seq(Exchanges)
  BY SandboxAssumption DEF DeliveryInv, SandboxType
<1>2. SUFFICES \/ TimeLeft' < TimeLeft
               \/ TimeLeft' = TimeLeft /\ StageRank[phase'] < StageRank[phase]
               \/ /\ TimeLeft' = TimeLeft /\ StageRank[phase'] = StageRank[phase]
                  /\ Len(todo') < Len(todo)
               \/ /\ TimeLeft' = TimeLeft /\ StageRank[phase'] = StageRank[phase]
                  /\ Len(todo') = Len(todo) /\ Unsorted' < Unsorted
               \/ /\ TimeLeft' = TimeLeft /\ StageRank[phase'] = StageRank[phase]
                  /\ Len(todo') = Len(todo) /\ Unsorted' = Unsorted /\ EventsLeft' < EventsLeft
  <2>1. Left' = <<TimeLeft', StageRank[phase'], Len(todo'), Unsorted', EventsLeft'>>
    BY DEF Left, StageRank
  <2>2. Left = <<TimeLeft, StageRank[phase], Len(todo), Unsorted, EventsLeft>>
    BY DEF Left
  <2> QED BY <2>1, <2>2, LexLessAt
<1>3. todo # << >> => Source \in Exchanges
  BY SourceType DEF DeliveryInv
<1>4. CASE SortSource
  <2>1. /\ todo # << >> /\ ~sorted[Source] /\ Sort(Source)
        /\ UNCHANGED <<todo, phase, span, timestamp>>
    BY <1>4 DEF SortSource, Replaying, replayVars, runVars
  <2>2. sorted'[Source] = TRUE /\ Source' = Source
    BY <1>3, <2>1 DEF Sort, DeliveryInv, SandboxType, Source
  <2>3. Unsorted = 1 /\ Unsorted' = 0
    BY <2>1, <2>2 DEF Unsorted
  <2>4. TimeLeft' = TimeLeft
    BY <2>1 DEF TimeLeft
  <2> QED BY <2>1, <2>3, <2>4
<1>5. CASE SkipEvent \/ ApplyEvent
  <2>1. /\ todo # << >> /\ position' = position + 1
        /\ UNCHANGED <<todo, phase, span, timestamp, events, sorted>>
    BY <1>5 DEF SkipEvent, ApplyEvent, Replaying, sourceVars, runVars
  <2>2. TimeLeft' = TimeLeft /\ Unsorted' = Unsorted /\ Source' = Source
    BY <2>1 DEF TimeLeft, Unsorted, Source
  <2>3. Len(events[Source]) \in Nat
    BY <1>3, <2>1 DEF DeliveryInv, SandboxType
  <2>4. EventsLeft = Len(events[Source]) + 1 - position
    BY <2>1 DEF EventsLeft
  <2>5. EventsLeft' = Len(events[Source]) + 1 - (position + 1)
    BY <2>1, <2>2 DEF EventsLeft
  <2>6. EventsLeft' < EventsLeft
    <3>1. \A n, q \in Nat : n + 1 - (q + 1) < n + 1 - q
      OBVIOUS
    <3>2. Len(events[Source]) + 1 - (position + 1) < Len(events[Source]) + 1 - position
      BY <1>1, <2>3, <3>1
    <3> QED BY <2>4, <2>5, <3>2, Zenon
  <2> QED BY <2>1, <2>2, <2>6
<1>6. CASE EndSource
  <2>1. /\ todo # << >> /\ todo' = Tail(todo) /\ UNCHANGED <<phase, span, timestamp>>
    BY <1>6 DEF EndSource, Replaying, runVars
  <2>2. Len(todo') < Len(todo)
    BY <1>1, <2>1
  <2>3. TimeLeft' = TimeLeft
    BY <2>1 DEF TimeLeft
  <2> QED BY <2>1, <2>2, <2>3
<1>7. CASE EndReplay \/ BeginTick \/ ProcessTicks \/ FinishRun
  <2>1. StageRank[phase'] < StageRank[phase] /\ UNCHANGED <<span, timestamp>>
    BY <1>7 DEF EndReplay, ReplayedAll, BeginTick, ProcessTicks, FinishRun, StageRank
  <2>2. TimeLeft' = TimeLeft
    BY <2>1 DEF TimeLeft
  <2> QED BY <2>1, <2>2
<1>8. CASE EndTick
  <2>1. /\ phase = "matching" /\ timestamp' = timestamp + TickInterval /\ span' = span
    BY <1>8 DEF EndTick
  <2>2. timestamp <= span.end
    BY <2>1 DEF TickInv
  <2>3. TimeLeft' < TimeLeft
    BY <1>1, <2>1, <2>2 DEF TimeLeft, Higher
  <2> QED BY <2>3
<1> QED BY <1>4, <1>5, <1>6, <1>7, <1>8 DEF EngineStep

\* What user code does while a run goes on leaves it as much to do as before.
LEMMA UserStepLeaves ==
  ASSUME DeliveryInv, UserStep \/ UNCHANGED vars
  PROVE  Left' = Left
<1>1. UNCHANGED <<todo, phase, span, timestamp>>
  BY DEF UserStep, AddTrade, AddSnapshot, AddCandle, AddEvents, Attach, Query, Fill, ChangeBook,
     replayVars, runVars, vars
<1>2. todo = << >> \/ UNCHANGED <<events, sorted, position>>
  <2>1. CASE UserStep
    <3>1. UserRuns
      BY <2>1 DEF UserStep, AddTrade, AddSnapshot, AddCandle, Attach, Query, Fill, ChangeBook, UserRuns
    <3> QED BY <3>1 DEF UserRuns, DeliveryInv, PlaceSound
  <2>2. CASE UNCHANGED vars
    BY <2>2 DEF vars, sourceVars, replayVars
  <2> QED BY <2>1, <2>2
<1>3. TimeLeft' = TimeLeft
  BY <1>1 DEF TimeLeft
<1>4. Unsorted' = Unsorted /\ EventsLeft' = EventsLeft
  BY <1>1, <1>2 DEF Unsorted, EventsLeft, Source
<1> QED BY <1>1, <1>3, <1>4 DEF Left

\* For every set of sources and events, range and interval each step of a run
\* lowers what is left of it, and nothing user code adds or attaches raises it
\* (sandbox_engine.py:201-257): a run can take only so many steps.
THEOREM RunsMakeHeadway == Spec => RunMakesHeadway
<1>1. Init => DeliveryInv /\ TickInv /\ PlaceWithin
  BY DeliveryInit DEF Init, TickInv, PlaceWithin
<1>2. DeliveryInv /\ TickInv /\ PlaceWithin /\ [Next]_vars => (DeliveryInv /\ TickInv /\ PlaceWithin)'
  BY DeliveryStep, TicksKept, PlaceStaysWithin
<1>3. ASSUME DeliveryInv, TickInv, PlaceWithin, [Next]_vars
      PROVE  [Running => /\ Left \in [1 .. 5 -> Nat]
                         /\ IF EngineStep THEN LexLess(Left', Left) ELSE Left' = Left]_vars
  <2>1. Left \in [1 .. 5 -> Nat]
    BY <1>3, LeftCounts
  <2>2. EngineStep => LexLess(Left', Left)
    BY <1>3, EngineStepLowers
  <2>3. Running /\ ~EngineStep => Left' = Left
    <3>1. Running => ~Run
      BY DEF Running, Run
    <3> QED BY <1>3, <3>1, UserStepLeaves DEF Next
  <2> QED BY <2>1, <2>2, <2>3
<1> QED BY <1>1, <1>2, <1>3, PTL DEF Spec, RunMakesHeadway

-----------------------------------------------------------------------------
(* What a run has applied. *)

\* Sources that initialize() has yet to read hold the cursor of an earlier run.
Unread(x) == phase = "initialize" /\ x \in Elements(todo)

\* The run has been past e: a read of the source ended behind it, or the one
\* that is going on has come past it.
Covered(x, e) ==
  \/ /\ ~Unread(x) /\ TimeOf[e] <= cursor[x]
     /\ TimeOf[e] > base[x] \/ TimeOf[e] > span.start
  \/ /\ todo # << >> /\ x = Source /\ TimeOf[e] > cursor[x]
     /\ \E i \in DOMAIN events[x] : i < position /\ events[x][i] = e

HeardAll ==
  \A x \in Exchanges : \A e \in EventIds :
    e \in Elements(heard[x]) <=> e \in Elements(events[x]) /\ e \notin late /\ Covered(x, e)

\* A source that was never read has the cursor it was made with, one that was
\* read in this run has a cursor between its start and the moment it has reached.
CursorSound(x) ==
  /\ x \notin Sources => cursor[x] = BeforeAll
  /\ Unread(x) => cursor[x] = base[x]
  /\ ~Unread(x) => \/ cursor[x] = BeforeAll /\ base[x] = BeforeAll
                   \/ span.start <= cursor[x] /\ cursor[x] <= timestamp
  /\ phase \in {"initialize", "replay"} /\ x \in Sources /\ x \notin Elements(todo) =>
       cursor[x] = timestamp
  /\ \A e \in late : e \in Elements(events[x]) => TimeOf[e] <= cursor[x]

\* What lies before the place a read has reached is not from the future.
PlaceReached ==
  todo # << >> =>
    \A i \in DOMAIN events[Source] : i < position => TimeOf[events[Source][i]] <= timestamp

\* No source is listed twice, and nothing is late while initialize() runs.
ListsSound ==
  /\ Distinct(attached) /\ Distinct(todo) /\ Elements(todo) \subseteq Sources
  /\ phase # "setup" => span.start <= timestamp
  /\ phase = "initialize" => timestamp = span.start /\ late = {}
  /\ late \subseteq Added /\ base \in [Exchanges -> Int]

ReplayInv == ListsSound /\ PlaceReached /\ HeardAll /\ \A x \in Exchanges : CursorSound(x)

\* The elements of a list made longer.
LEMMA ElementsJoin ==
  ASSUME NEW S, NEW s \in Seq(S), NEW u \in Seq(S), NEW e \in S
  PROVE  /\ Elements(s \o u) = Elements(s) \cup Elements(u)
         /\ Elements(Append(s, e)) = Elements(s) \cup {e}
         /\ Elements(s) \subseteq S
         /\ Elements(<< >>) = {}
<1>1. Elements(s) \subseteq S /\ Elements(<< >>) = {}
  BY DEF Elements
<1>2. Elements(Append(s, e)) = Elements(s) \cup {e}
  <2>1. /\ DOMAIN s = 1 .. Len(s) /\ Len(s) \in Nat /\ DOMAIN Append(s, e) = 1 .. Len(s) + 1
        /\ Append(s, e)[Len(s) + 1] = e /\ \A i \in 1 .. Len(s) : Append(s, e)[i] = s[i]
    OBVIOUS
  <2>2. 1 .. Len(s) + 1 = 1 .. Len(s) \cup {Len(s) + 1}
    BY <2>1
  <2> QED BY <2>1, <2>2 DEF Elements
<1>3. Elements(s \o u) = Elements(s) \cup Elements(u)
  <2> DEFINE n == Len(s)
             m == Len(u)
             w == s \o u
  <2>1. /\ DOMAIN s = 1 .. n /\ n \in Nat /\ DOMAIN u = 1 .. m /\ m \in Nat /\ DOMAIN w = 1 .. n + m
        /\ \A i \in 1 .. n : w[i] = s[i]
        /\ \A i \in n + 1 .. n + m : w[i] = u[i - n]
    BY SMTT(30)
  <2> HIDE DEF w, n, m
  <2>2. ASSUME NEW i \in 1 .. m PROVE u[i] \in Elements(w)
    <3>1. i + n \in n + 1 .. n + m /\ i + n \in 1 .. n + m /\ (i + n) - n = i
      BY <2>1
    <3>2. w[i + n] = u[i]
      BY <2>1, <3>1
    <3> QED BY <2>1, <3>1, <3>2 DEF Elements
  <2>3. ASSUME NEW i \in 1 .. n PROVE s[i] \in Elements(w)
    <3>1. i \in 1 .. n + m
      BY <2>1
    <3> QED BY <2>1, <3>1 DEF Elements
  <2>4. ASSUME NEW i \in 1 .. n + m PROVE w[i] \in Elements(s) \cup Elements(u)
    <3>1. CASE i \in 1 .. n
      BY <2>1, <3>1 DEF Elements
    <3>2. CASE i \notin 1 .. n
      <4>1. i \in n + 1 .. n + m /\ i - n \in 1 .. m
        BY <2>1, <3>2
      <4> QED BY <2>1, <4>1 DEF Elements
    <3> QED BY <3>1, <3>2
  <2> QED BY <2>1, <2>2, <2>3, <2>4, ZenonT(30) DEF Elements, w
<1> QED BY <1>1, <1>2, <1>3

\* A list without repetitions loses its first element with its head.
LEMMA TailLosesHead ==
  ASSUME NEW S, NEW s \in Seq(S), s # << >>, Distinct(s)
  PROVE  /\ Distinct(Tail(s)) /\ Head(s) \in Elements(s)
         /\ Elements(Tail(s)) = Elements(s) \ {Head(s)}
<1> DEFINE n == Len(s)
           w == Tail(s)
<1>1. /\ DOMAIN s = 1 .. n /\ n \in Nat \ {0} /\ Head(s) = s[1]
      /\ DOMAIN w = 1 .. n - 1 /\ \A i \in 1 .. n - 1 : w[i] = s[i + 1]
  BY EmptySeq
<1> HIDE DEF n, w
<1>2. \A i \in 1 .. n - 1 : i + 1 \in 1 .. n /\ i + 1 # 1
  BY <1>1
<1>3. Distinct(w)
  <2> SUFFICES ASSUME NEW i \in 1 .. n - 1, NEW j \in 1 .. n - 1, w[i] = w[j] PROVE i = j
    BY <1>1 DEF Distinct
  <2>1. i + 1 \in DOMAIN s /\ j + 1 \in DOMAIN s /\ s[i + 1] = s[j + 1]
    BY <1>1, <1>2
  <2>2. i + 1 = j + 1
    BY <2>1 DEF Distinct
  <2> QED BY <2>2
<1>4. ASSUME NEW i \in 1 .. n - 1 PROVE w[i] \in Elements(s) /\ w[i] # s[1]
  <2>1. w[i] = s[i + 1] /\ i + 1 \in DOMAIN s /\ i + 1 # 1 /\ 1 \in DOMAIN s
    BY <1>1, <1>2
  <2>2. s[i + 1] # s[1]
    BY <2>1 DEF Distinct
  <2> QED BY <2>1, <2>2 DEF Elements
<1>5. ASSUME NEW i \in 1 .. n, s[i] # s[1] PROVE s[i] \in Elements(w)
  <2>1. i - 1 \in 1 .. n - 1 /\ (i - 1) + 1 = i
    BY <1>1, <1>5
  <2>2. w[i - 1] = s[i]
    BY <1>1, <2>1
  <2> QED BY <1>1, <2>1, <2>2 DEF Elements
<1>6. s[1] \in Elements(s)
  BY <1>1 DEF Elements
<1> QED BY <1>1, <1>3, <1>4, <1>5, <1>6 DEF Elements, w

\* A sorted source still holds all it held.
LEMMA SortKeepsElements ==
  ASSUME SandboxType, SourcesSound, NEW x \in Exchanges, Sort(x)
  PROVE  \A y \in Exchanges : Elements(events'[y]) = Elements(events[y])
<1>1. PICK p \in Sortings(events[x]) : events' = [events EXCEPT ![x] = Rearranged(@, p)]
  BY DEF Sort
<1> DEFINE list == events[x]
           n == Len(list)
<1>2. list \in Seq(EventIds) /\ Distinct(list) /\ n \in Nat /\ DOMAIN list = 1 .. n
      /\ \A i \in 1 .. n : list[i] \in EventIds
  BY DEF SandboxType, SourcesSound
<1>3. p \in [1 .. n -> 1 .. n]
  BY <1>2 DEF Sortings
<1>4. Rearranged(list, p) = [i \in 1 .. n |-> list[p[i]]]
  BY <1>2 DEF Rearranged
<1>5. Distinct(Rearranged(list, p))
  BY <1>2, SortingSound
<1> HIDE DEF list, n
<1>6. p \in Injection(1 .. n, 1 .. n)
  <2> SUFFICES ASSUME NEW i \in 1 .. n, NEW j \in 1 .. n, p[i] = p[j] PROVE i = j
    BY <1>3 DEF Injection, IsInjective
  <2> QED BY <1>4, <1>5 DEF Distinct
<1>7. p \in Surjection(1 .. n, 1 .. n)
  <2>1. IsFiniteSet(1 .. n)
    BY <1>2, FS_Interval
  <2> QED BY <1>6, <2>1, FS_Injection
<1>8. Elements(Rearranged(list, p)) = Elements(list)
  <2>1. \A i \in 1 .. n : p[i] \in 1 .. n
    BY <1>3
  <2>2. \A k \in 1 .. n : \E i \in 1 .. n : p[i] = k
    BY <1>7 DEF Surjection
  <2> DEFINE new == Rearranged(list, p)
  <2>3. DOMAIN new = 1 .. n /\ \A i \in 1 .. n : new[i] = list[p[i]]
    BY <1>4
  <2> HIDE DEF new
  <2>4. \A i \in 1 .. n : new[i] \in Elements(list)
    BY <1>2, <2>1, <2>3 DEF Elements
  <2>5. \A k \in 1 .. n : list[k] \in Elements(new)
    BY <2>2, <2>3 DEF Elements
  <2> QED BY <1>2, <2>3, <2>4, <2>5 DEF Elements, new
<1> QED BY <1>1, <1>8 DEF SandboxType, list

\* User code is never run by initialize(), and no source is being read.
LEMMA NoneUnread ==
  ASSUME DeliveryInv, UserRuns
  PROVE  /\ todo = << >> /\ position = 1 /\ phase \notin {"initialize", "replay"}
         /\ \A x \in Exchanges : ~Unread(x)
BY NothingRead DEF DeliveryInv, UserRuns, Unread

\* What is added to a source is covered only if it is late.
LEMMA AddEventsReplays ==
  ASSUME DeliveryInv, ReplayInv, UserRuns, NEW x \in Exchanges, NEW new \in Seq(EventIds),
         \A i \in DOMAIN new : new[i] \notin Added, AddEvents(x, new)
  PROVE  ReplayInv'
<1>1. /\ events' = [events EXCEPT ![x] = events[x] \o new]
      /\ late' = late \cup {e \in Elements(new) : TimeOf[e] <= cursor[x]}
      /\ UNCHANGED <<attached, cursor, phase, span, timestamp, todo, position, heard, base>>
  BY DEF AddEvents, replayVars, runVars
<1>2. /\ todo = << >> /\ phase \notin {"initialize", "replay"} /\ \A y \in Exchanges : ~Unread(y)
      /\ events \in [Exchanges -> Seq(EventIds)] /\ cursor \in [Exchanges -> Int]
  BY NoneUnread DEF DeliveryInv, SandboxType
<1>3. /\ Elements(events'[x]) = Elements(events[x]) \cup Elements(new)
      /\ \A y \in Exchanges : y # x => events'[y] = events[y]
      /\ \A y \in Exchanges : Elements(events[y]) \subseteq EventIds
  <2>1. events'[x] = events[x] \o new
    BY <1>1, <1>2
  <2>2. \A y \in Exchanges : Elements(events[y]) \subseteq EventIds
    BY <1>2 DEF Elements
  <2>3. ASSUME NEW e \in EventIds PROVE Elements(events[x] \o new) = Elements(events[x]) \cup Elements(new)
    BY <1>2, ElementsJoin
  <2>4. CASE EventIds = {}
    <3>1. events[x] = << >> /\ new = << >> /\ events[x] \o new = << >>
      BY <1>2, <2>4
    <3> QED BY <1>1, <1>2, <2>1, <2>2, <3>1
  <2> QED BY <1>1, <1>2, <2>1, <2>2, <2>3, <2>4
<1>4. /\ \A e \in Elements(new) : e \notin Added
      /\ \A y \in Exchanges : \A e \in Elements(events[y]) : e \in Added /\ e \notin Elements(new)
  BY DEF Elements, Added
<1>5. Added' = Added \cup Elements(new)
  BY <1>3 DEF Added
<1>6. ListsSound'
  BY <1>1, <1>2, <1>5, SMTT(30) DEF ReplayInv, ListsSound, Sources
<1>7. PlaceReached'
  BY <1>1, <1>2 DEF PlaceReached
<1>8. ASSUME NEW y \in Exchanges PROVE CursorSound(y)'
  <2>1. CursorSound(y) /\ late \subseteq Added
    BY DEF ReplayInv, ListsSound
  <2>2. Unread(y)' = Unread(y) /\ Sources' = Sources
    BY <1>1 DEF Unread, Sources
  <2>3. ASSUME NEW e \in late', e \in Elements(events'[y]) PROVE TimeOf[e] <= cursor[y]
    <3>1. CASE y = x
      <4>1. CASE e \in late
        BY <1>3, <1>4, <2>1, <2>3, <3>1, <4>1 DEF CursorSound
      <4> QED BY <1>1, <2>3, <3>1, <4>1
    <3>2. CASE y # x
      BY <1>1, <1>3, <1>4, <2>1, <2>3, <3>2 DEF CursorSound
    <3> QED BY <3>1, <3>2
  <2> QED BY <1>1, <1>2, <2>1, <2>2, <2>3 DEF CursorSound
<1>9. HeardAll'
  <2> SUFFICES ASSUME NEW y \in Exchanges, NEW e \in EventIds
               PROVE  e \in Elements(heard[y]) <=>
                        e \in Elements(events'[y]) /\ e \notin late' /\ Covered(y, e)'
    BY <1>1 DEF HeardAll
  <2>1. e \in Elements(heard[y]) <=> e \in Elements(events[y]) /\ e \notin late /\ Covered(y, e)
    BY DEF ReplayInv, HeardAll
  <2>2. Covered(y, e)' <=> Covered(y, e)
    BY <1>1, <1>2 DEF Covered, Unread
  <2>3. CASE e \notin Elements(new)
    BY <1>1, <1>3, <2>1, <2>2, <2>3
  <2>4. CASE e \in Elements(new) /\ y # x
    BY <1>3, <1>4, <2>1, <2>4
  <2>5. CASE e \in Elements(new) /\ y = x
    <3>1. e \notin Elements(heard[y])
      BY <1>4, <2>1, <2>5
    <3>2. TimeOf[e] <= cursor[x] => e \in late'
      BY <1>1, <2>5
    <3>3. ~(TimeOf[e] <= cursor[x]) => ~Covered(y, e)
      BY <1>2, <2>5 DEF Covered
    <3> QED BY <2>2, <2>5, <3>1, <3>2, <3>3
  <2> QED BY <2>3, <2>4, <2>5
<1> QED BY <1>6, <1>7, <1>8, <1>9 DEF ReplayInv

\* A source that is attached has never been read.
LEMMA AttachReplays ==
  ASSUME DeliveryInv, ReplayInv, NEW x \in Exchanges, Attach(x)
  PROVE  ReplayInv'
<1>1. /\ UNCHANGED <<cursor, phase, span, timestamp, todo, position, heard, base, late>>
      /\ attached' = IF x \in Sources THEN attached ELSE Append(attached, x)
      /\ todo = << >> /\ phase \notin {"initialize", "replay"}
  BY NoneUnread DEF Attach, replayVars, runVars
<1>2. \A y \in Exchanges : Elements(events'[y]) = Elements(events[y])
  <2>1. CASE Sort(x)
    BY <2>1, SortKeepsElements DEF DeliveryInv
  <2> QED BY <2>1 DEF Attach, DetectRange
<1>3. Sources \subseteq Sources' /\ Distinct(attached')
  <2>1. attached \in Seq(Exchanges) /\ Distinct(attached)
    BY DEF DeliveryInv, SandboxType, ReplayInv, ListsSound
  <2>2. CASE x \in Sources
    BY <1>1, <2>1, <2>2 DEF Sources
  <2>3. CASE x \notin Sources
    <3>1. attached' = Append(attached, x)
      BY <1>1, <2>3
    <3>2. /\ DOMAIN attached = 1 .. Len(attached) /\ Len(attached) \in Nat
          /\ DOMAIN attached' = 1 .. Len(attached) + 1 /\ attached'[Len(attached) + 1] = x
          /\ \A i \in 1 .. Len(attached) : attached'[i] = attached[i]
      BY <2>1, <3>1
    <3>3. \A i \in 1 .. Len(attached) : attached[i] # x
      BY <2>3, <3>2 DEF Sources, Elements
    <3>4. Distinct(attached')
      <4> SUFFICES ASSUME NEW i \in 1 .. Len(attached) + 1, NEW j \in 1 .. Len(attached) + 1,
                          attached'[i] = attached'[j]
                   PROVE  i = j
        BY <3>2 DEF Distinct
      <4>1. CASE i = Len(attached) + 1 \/ j = Len(attached) + 1
        BY <3>2, <3>3, <4>1
      <4>2. CASE i \in 1 .. Len(attached) /\ j \in 1 .. Len(attached)
        BY <2>1, <3>2, <4>2 DEF Distinct
      <4> QED BY <3>2, <4>1, <4>2
    <3>5. Sources' = Sources \cup {x}
      BY <2>1, <3>1, ElementsJoin DEF Sources
    <3> QED BY <3>4, <3>5
  <2> QED BY <2>2, <2>3
<1>4. Added' = Added
  BY <1>2 DEF Added
<1>5. ListsSound'
  BY <1>1, <1>3, <1>4, SMTT(30) DEF ReplayInv, ListsSound
<1>6. PlaceReached'
  BY <1>1 DEF PlaceReached
<1>7. ASSUME NEW y \in Exchanges PROVE CursorSound(y)'
  <2>1. CursorSound(y) /\ Unread(y)' = Unread(y)
    BY <1>1 DEF ReplayInv, Unread
  <2> QED BY <1>1, <1>2, <1>3, <2>1 DEF CursorSound
<1>8. HeardAll'
  <2>1. \A y \in Exchanges, e \in EventIds : Covered(y, e)' <=> Covered(y, e)
    BY <1>1 DEF Covered, Unread
  <2> QED BY <1>1, <1>2, <2>1 DEF ReplayInv, HeardAll
<1> QED BY <1>5, <1>6, <1>7, <1>8 DEF ReplayInv

\* What changes none of these changes nothing that was replayed.
LEMMA OtherwiseReplayed ==
  ASSUME ReplayInv, UNCHANGED <<events, attached, cursor, phase, span, timestamp, todo, position,
                                heard, base, late>>
  PROVE  ReplayInv'
BY DEF ReplayInv, ListsSound, PlaceReached, HeardAll, CursorSound, Covered, Unread, Source, Sources, Added

\* What user code does keeps the account of what was replayed.
LEMMA UserStepReplays ==
  ASSUME DeliveryInv, ReplayInv, UserStep
  PROVE  ReplayInv'
<1>1. ASSUME NEW e \in EventIds, AddTrade(e) \/ AddSnapshot(e) \/ AddCandle(e) PROVE ReplayInv'
  <2> DEFINE x == OwnerOf[e]
  <2>1. x \in Exchanges
    BY SandboxAssumption
  <2>2. CASE UserRuns /\ e \notin Added /\ AddEvents(x, <<e>>)
    <3>1. <<e>> \in Seq(EventIds) /\ \A i \in DOMAIN <<e>> : <<e>>[i] \notin Added
      BY <2>2
    <3> QED BY <2>1, <2>2, <3>1, AddEventsReplays
  <2>3. CASE /\ UserRuns /\ e \notin Added /\ KindOf[e] = "CANDLE"
             /\ SnapshotOf[e] \notin Added /\ AddEvents(x, <<e, SnapshotOf[e]>>)
    <3> DEFINE f == SnapshotOf[e]
    <3>1. f \in EventIds
      BY <2>3, SandboxAssumption
    <3> HIDE DEF f
    <3>2. <<e, f>> \in Seq(EventIds) /\ \A i \in DOMAIN <<e, f>> : <<e, f>>[i] \notin Added
      BY <2>3, <3>1 DEF f
    <3> QED BY <2>1, <2>3, <3>2, AddEventsReplays DEF f
  <2> QED BY <1>1, <2>2, <2>3 DEF AddTrade, AddSnapshot, AddCandle, New
<1>2. ASSUME NEW x \in Exchanges, Attach(x) PROVE ReplayInv'
  BY <1>2, AttachReplays
<1>3. ASSUME NEW x \in Exchanges, Query(x) \/ Fill(x) \/ ChangeBook(x) PROVE ReplayInv'
  BY <1>3, OtherwiseReplayed DEF Query, Fill, ChangeBook, sourceVars, replayVars, runVars
<1> QED BY <1>1, <1>2, <1>3 DEF UserStep

\* A new run has applied nothing and has read no source.
LEMMA RunReplays ==
  ASSUME DeliveryInv, ReplayInv, Run
  PROVE  ReplayInv'
<1>1. /\ UNCHANGED <<events, attached, cursor>>
      /\ phase' = "initialize" /\ span' = range /\ timestamp' = range.start
      /\ todo' = attached /\ position' = 1 /\ heard' = [x \in Exchanges |-> << >>]
      /\ base' = cursor /\ late' = {}
  BY DEF Run, sourceVars
<1>2. /\ attached \in Seq(Exchanges) /\ events \in [Exchanges -> Seq(EventIds)]
      /\ cursor \in [Exchanges -> Int] /\ range.start \in Nat
  BY DEF DeliveryInv, SandboxType
<1>3. ListsSound'
  BY <1>1, <1>2 DEF ReplayInv, ListsSound, Sources
<1>4. PlaceReached'
  <2>1. \A x \in Exchanges : \A i \in DOMAIN events[x] : ~(i < 1)
    BY <1>2
  <2>2. todo' # << >> => Source' \in Exchanges
    BY <1>1, <1>2 DEF Source
  <2> QED BY <1>1, <2>1, <2>2 DEF PlaceReached
<1>5. ASSUME NEW x \in Exchanges PROVE CursorSound(x)'
  <2>1. CursorSound(x) /\ (Unread(x)' <=> x \in Sources) /\ Sources' = Sources
    BY <1>1 DEF ReplayInv, Unread, Sources
  <2> QED BY <1>1, <2>1 DEF CursorSound, Sources
<1>6. HeardAll'
  <2> SUFFICES ASSUME NEW x \in Exchanges, NEW e \in EventIds
               PROVE  e \notin Elements(heard'[x]) /\ ~Covered(x, e)'
    BY DEF HeardAll
  <2>1. e \notin Elements(heard'[x])
    BY <1>1 DEF Elements
  <2>2. \A i \in DOMAIN events[x] : ~(i < 1)
    BY <1>2
  <2>3. TimeOf[e] \in Nat /\ (x \notin Sources => cursor[x] = -1)
    BY EventAssumption DEF ReplayInv, CursorSound, BeforeAll
  <2>4. ~Unread(x)' => ~(TimeOf[e] <= cursor'[x])
    BY <1>1, <2>3 DEF Unread, Sources
  <2> QED BY <1>1, <2>1, <2>2, <2>4 DEF Covered
<1> QED BY <1>3, <1>4, <1>5, <1>6 DEF ReplayInv

\* Sorting a source that has not been read in this round changes nothing.
LEMMA SortSourceReplays ==
  ASSUME DeliveryInv, ReplayInv, SortSource
  PROVE  ReplayInv'
<1>1. /\ todo # << >> /\ ~sorted[Source] /\ Sort(Source) /\ Source' = Source
      /\ UNCHANGED <<attached, cursor, phase, span, timestamp, todo, position, heard, base, late>>
  BY DEF SortSource, Replaying, replayVars, runVars, Source
<1>2. Source \in Exchanges
  BY <1>1, SourceType DEF DeliveryInv
<1>3. /\ position = 1 /\ events \in [Exchanges -> Seq(EventIds)] /\ events' \in [Exchanges -> Seq(EventIds)]
      /\ \A y \in Exchanges : Elements(events'[y]) = Elements(events[y])
  BY <1>1, <1>2, SortKeepsElements, SortKeepsSources, SMTT(30) DEF DeliveryInv, SandboxType, PlaceSound
<1>4. \A y \in Exchanges : /\ \A i \in DOMAIN events[y] : ~(i < 1)
                           /\ \A i \in DOMAIN events'[y] : ~(i < 1)
  BY <1>3
<1>5. Added' = Added /\ Sources' = Sources
  BY <1>1, <1>3 DEF Added, Sources
<1>6. ListsSound'
  BY <1>1, <1>5 DEF ReplayInv, ListsSound
<1>7. PlaceReached'
  BY <1>1, <1>2, <1>3, <1>4 DEF PlaceReached
<1>8. ASSUME NEW y \in Exchanges PROVE CursorSound(y)'
  <2>1. CursorSound(y) /\ Unread(y)' = Unread(y)
    BY <1>1 DEF ReplayInv, Unread
  <2> QED BY <1>1, <1>3, <1>5, <2>1 DEF CursorSound
<1>9. HeardAll'
  <2>1. \A y \in Exchanges, e \in EventIds : Covered(y, e)' <=> Covered(y, e)
    BY <1>1, <1>3, <1>4 DEF Covered, Unread
  <2> QED BY <1>1, <1>3, <2>1 DEF ReplayInv, HeardAll
<1> QED BY <1>6, <1>7, <1>8, <1>9 DEF ReplayInv

\* The event at the place a read has reached.
LEMMA EventReached ==
  ASSUME DeliveryInv, todo # << >>, Within
  PROVE  /\ Source \in Exchanges /\ position \in DOMAIN events[Source] /\ NextEvent \in EventIds
         /\ NextEvent = events[Source][position] /\ TimeOf[NextEvent] <= timestamp
         /\ \A i \in DOMAIN events[Source] : i < position + 1 <=> i < position \/ i = position
<1>1. Source \in Exchanges
  BY SourceType DEF DeliveryInv
<1>2. PICK q, list : q = position /\ list = events[Source]
  OBVIOUS
<1>3. q \in Nat \ {0} /\ list \in Seq(EventIds) /\ q <= Len(list) /\ TimeOf[list[q]] <= timestamp
  BY <1>1, <1>2 DEF DeliveryInv, SandboxType, Within
<1>4. q \in DOMAIN list /\ \A i \in DOMAIN list : i < q + 1 <=> i < q \/ i = q
  BY <1>3
<1>5. list[q] \in EventIds
  BY <1>3, <1>4
<1> QED BY <1>1, <1>2, <1>3, <1>4, <1>5 DEF NextEvent

\* What does not move the place, the cursors or the lists keeps them sound.
LEMMA PlaceMovesOn ==
  ASSUME DeliveryInv, ReplayInv, todo # << >>, Within, position' = position + 1,
         UNCHANGED <<events, attached, cursor, phase, span, timestamp, todo, base, late>>
  PROVE  ListsSound' /\ PlaceReached' /\ \A x \in Exchanges : CursorSound(x)'
<1>1. ListsSound' /\ \A x \in Exchanges : CursorSound(x)'
  BY DEF ReplayInv, ListsSound, CursorSound, Unread, Sources, Added
<1>2. PlaceReached'
  <2>1. PICK x, q, list : x = Source /\ q = position /\ list = events[x]
    OBVIOUS
  <2>2. \A i \in DOMAIN list : i < q => TimeOf[list[i]] <= timestamp
    BY <2>1 DEF ReplayInv, PlaceReached
  <2>3. TimeOf[list[q]] <= timestamp /\ \A i \in DOMAIN list : i < q + 1 <=> i < q \/ i = q
    BY <2>1, EventReached
  <2>4. \A i \in DOMAIN list : i < q + 1 => TimeOf[list[i]] <= timestamp
    BY <2>2, <2>3
  <2>5. Source' = x /\ events'[x] = list /\ position' = q + 1
    BY <2>1 DEF Source
  <2> QED BY <2>4, <2>5 DEF PlaceReached
<1> QED BY <1>1, <1>2

\* When the place moves on, the event it was at is covered too, if the cursor
\* had not passed it.
LEMMA CoveredMoves ==
  ASSUME DeliveryInv, todo # << >>, Within, position' = position + 1,
         UNCHANGED <<events, cursor, phase, span, todo, base>>,
         NEW y \in Exchanges, NEW e \in EventIds
  PROVE  Covered(y, e)' <=>
           Covered(y, e) \/ (y = Source /\ e = NextEvent /\ TimeOf[e] > cursor[y])
<1>1. PICK x, q, list, f : x = Source /\ q = position /\ list = events[x] /\ f = NextEvent
  OBVIOUS
<1>2. /\ x \in Exchanges /\ q \in DOMAIN list /\ f = list[q]
      /\ \A i \in DOMAIN list : i < q + 1 <=> i < q \/ i = q
  BY <1>1, EventReached
<1>3. Unread(y)' = Unread(y) /\ Source' = x /\ events'[x] = list /\ position' = q + 1
  BY <1>1 DEF Unread, Source
<1>4. (\E i \in DOMAIN list : i < q + 1 /\ list[i] = e) <=>
        (\E i \in DOMAIN list : i < q /\ list[i] = e) \/ e = f
  BY <1>2
<1> QED BY <1>1, <1>3, <1>4 DEF Covered

\* An event the cursor had passed is left out.
LEMMA SkipEventReplays ==
  ASSUME DeliveryInv, ReplayInv, SkipEvent
  PROVE  ReplayInv'
<1>1. /\ todo # << >> /\ Within /\ position' = position + 1 /\ TimeOf[NextEvent] <= cursor[Source]
      /\ UNCHANGED <<events, attached, cursor, phase, span, timestamp, todo, heard, base, late>>
  BY DEF SkipEvent, Replaying, sourceVars, runVars
<1>2. ListsSound' /\ PlaceReached' /\ \A x \in Exchanges : CursorSound(x)'
  BY <1>1, PlaceMovesOn
<1>3. TimeOf[NextEvent] \in Nat /\ cursor[Source] \in Int
  BY <1>1, EventReached, EventAssumption DEF DeliveryInv, SandboxType
<1>4. ~(TimeOf[NextEvent] > cursor[Source])
  BY <1>1, <1>3
<1>5. \A y \in Exchanges, e \in EventIds : Covered(y, e)' <=> Covered(y, e)
  BY <1>1, <1>4, CoveredMoves
<1> QED BY <1>1, <1>2, <1>5 DEF ReplayInv, HeardAll

\* An event that is applied was not late and is covered from now on.
LEMMA ApplyEventReplays ==
  ASSUME DeliveryInv, ReplayInv, ApplyEvent
  PROVE  ReplayInv'
<1>1. /\ todo # << >> /\ Within /\ position' = position + 1 /\ TimeOf[NextEvent] > cursor[Source]
      /\ heard' = [heard EXCEPT ![Source] = Append(@, NextEvent)]
      /\ UNCHANGED <<events, attached, cursor, phase, span, timestamp, todo, base, late>>
  BY DEF ApplyEvent, Replaying, sourceVars, runVars
<1>2. ListsSound' /\ PlaceReached' /\ \A x \in Exchanges : CursorSound(x)'
  BY <1>1, PlaceMovesOn
<1>3. PICK x \in Exchanges, f \in EventIds : x = Source /\ f = NextEvent
  BY <1>1, EventReached
<1>4. f \in Elements(events[x]) /\ TimeOf[f] \in Nat /\ cursor[x] \in Int /\ heard[x] \in Seq(EventIds)
  BY <1>1, <1>3, EventReached, EventAssumption DEF Elements, DeliveryInv, SandboxType
<1>5. f \notin late
  BY <1>1, <1>3, <1>4 DEF ReplayInv, CursorSound
<1>6. /\ Elements(heard'[x]) = Elements(heard[x]) \cup {f}
      /\ \A y \in Exchanges : y # x => heard'[y] = heard[y]
  <2>1. heard'[x] = Append(heard[x], f) /\ \A y \in Exchanges : y # x => heard'[y] = heard[y]
    BY <1>1, <1>3 DEF DeliveryInv, SandboxType
  <2> QED BY <1>4, <2>1, ElementsJoin
<1>7. HeardAll'
  <2> SUFFICES ASSUME NEW y \in Exchanges, NEW e \in EventIds
               PROVE  e \in Elements(heard'[y]) <=>
                        e \in Elements(events[y]) /\ e \notin late /\ Covered(y, e)'
    BY <1>1 DEF HeardAll
  <2>1. Covered(y, e)' <=> Covered(y, e) \/ (y = x /\ e = f /\ TimeOf[e] > cursor[y])
    BY <1>1, <1>3, CoveredMoves
  <2>2. e \in Elements(heard[y]) <=> e \in Elements(events[y]) /\ e \notin late /\ Covered(y, e)
    BY DEF ReplayInv, HeardAll
  <2> QED BY <1>1, <1>3, <1>4, <1>5, <1>6, <2>1, <2>2
<1> QED BY <1>2, <1>7 DEF ReplayInv

\* Where a read ends, the events before the place are those that are not from
\* the future, because the source is in order.
LEMMA PlaceAtEnd ==
  ASSUME DeliveryInv, ReplayInv, todo # << >>, sorted[Source], ~Within
  PROVE  \A i \in DOMAIN events[Source] : i < position <=> TimeOf[events[Source][i]] <= timestamp
<1>1. PICK x, q, list : x = Source /\ q = position /\ list = events[x]
  OBVIOUS
<1>2. /\ x \in Exchanges /\ q \in Nat \ {0} /\ list \in Seq(EventIds) /\ timestamp \in Nat
      /\ InOrder(list) /\ \A i \in DOMAIN list : i < q => TimeOf[list[i]] <= timestamp
  BY <1>1, SourceType DEF DeliveryInv, SandboxType, SourcesSound, ReplayInv, PlaceReached
<1>3. /\ Len(list) \in Nat /\ DOMAIN list = 1 .. Len(list)
      /\ \A i \in DOMAIN list : list[i] \in EventIds /\ TimeOf[list[i]] \in Nat
  BY <1>2, EventAssumption
<1>4. ASSUME NEW i \in DOMAIN list, ~(i < q) PROVE TimeOf[list[i]] > timestamp
  <2>1. q \in DOMAIN list /\ q <= Len(list)
    BY <1>2, <1>3, <1>4
  <2>2. ~(TimeOf[list[q]] <= timestamp)
    BY <1>1, <2>1 DEF Within
  <2>3. TimeOf[list[q]] > timestamp
    BY <1>2, <1>3, <2>1, <2>2
  <2>4. CASE i = q
    BY <2>3, <2>4
  <2>5. CASE q < i
    <3>1. ~Precedes(list[i], list[q])
      BY <1>2, <2>1, <2>5 DEF InOrder
    <3>2. TimeOf[list[q]] <= TimeOf[list[i]]
      BY <1>3, <2>1, <3>1 DEF Precedes
    <3> QED BY <1>2, <1>3, <2>1, <2>3, <3>2
  <2>6. i \in Nat
    BY <1>3
  <2> QED BY <1>2, <1>4, <2>4, <2>5, <2>6
<1>5. \A i \in DOMAIN list : i < q <=> TimeOf[list[i]] <= timestamp
  BY <1>2, <1>3, <1>4
<1> QED BY <1>1, <1>5

\* The cursor moves up to what was covered.
LEMMA EndSourceReplays ==
  ASSUME DeliveryInv, ReplayInv, EndSource
  PROVE  ReplayInv'
<1>1. PICK x \in Exchanges : x = Source
  BY SourceType DEF EndSource, Replaying, DeliveryInv
<1>2. /\ todo # << >> /\ sorted[x] /\ ~Within /\ phase \in {"initialize", "replay"}
      /\ todo' = Tail(todo) /\ position' = 1 /\ cursor' = [cursor EXCEPT ![x] = timestamp]
      /\ UNCHANGED <<events, attached, phase, span, timestamp, heard, base, late>>
  BY <1>1 DEF EndSource, Replaying, sourceVars, runVars
<1>3. /\ todo \in Seq(Exchanges) /\ Distinct(todo) /\ x = Head(todo)
      /\ events \in [Exchanges -> Seq(EventIds)] /\ cursor \in [Exchanges -> Int]
      /\ timestamp \in Nat /\ span.start \in Nat /\ base \in [Exchanges -> Int]
  BY <1>1 DEF DeliveryInv, SandboxType, ReplayInv, ListsSound, Source
<1>4. /\ Distinct(todo') /\ x \in Elements(todo) /\ Elements(todo') = Elements(todo) \ {x}
  BY <1>2, <1>3, TailLosesHead
<1>5. cursor'[x] = timestamp /\ \A y \in Exchanges : y # x => cursor'[y] = cursor[y]
  BY <1>2, <1>3
<1>6. ListsSound'
  BY <1>2, <1>4 DEF ReplayInv, ListsSound, Sources, Added
<1>7. PlaceReached'
  <2>1. \A y \in Exchanges : \A i \in DOMAIN events[y] : ~(i < 1)
    BY <1>3
  <2>2. todo' # << >> => Source' \in Exchanges
    BY <1>2, <1>3, SMTT(30) DEF Source
  <2> QED BY <1>2, <2>1, <2>2 DEF PlaceReached
<1>8. \A y \in Exchanges : y # x => Unread(y)' = Unread(y)
  BY <1>2, <1>4 DEF Unread
<1>9. ~Unread(x)'
  BY <1>4 DEF Unread
<1>10. span.start <= timestamp
  BY <1>2 DEF ReplayInv, ListsSound
<1>11. ASSUME NEW y \in Exchanges PROVE CursorSound(y)'
  <2>1. CursorSound(y) /\ Sources' = Sources /\ \A e \in Elements(events[y]) : TimeOf[e] \in Nat
    BY <1>2, <1>3, EventAssumption DEF ReplayInv, Sources, Elements
  <2>2. CASE y # x
    BY <1>2, <1>4, <1>5, <1>8, <2>1, <2>2 DEF CursorSound
  <2>3. CASE y = x
    <3>1. x \in Sources
      BY <1>4 DEF ReplayInv, ListsSound
    <3>2. ASSUME NEW e \in late, e \in Elements(events[x]) PROVE TimeOf[e] <= timestamp
      <4>1. phase # "initialize"
        BY <3>2 DEF ReplayInv, ListsSound
      <4>2. cursor[x] <= timestamp
        BY <1>3, <4>1, <2>1, <2>3 DEF CursorSound, Unread, BeforeAll
      <4>3. TimeOf[e] <= cursor[x] /\ TimeOf[e] \in Nat
        BY <2>1, <2>3, <3>2 DEF CursorSound
      <4> QED BY <1>3, <4>2, <4>3
    <3> QED BY <1>2, <1>3, <1>5, <1>9, <1>10, <2>1, <2>3, <3>1, <3>2 DEF CursorSound
  <2> QED BY <2>2, <2>3
<1>12. ASSUME NEW e \in EventIds, e \in Elements(events[x]), e \notin late
       PROVE  Covered(x, e)' <=> Covered(x, e)
  <2>1. /\ TimeOf[e] \in Nat
        /\ (\E i \in DOMAIN events[x] : i < position /\ events[x][i] = e) <=> TimeOf[e] <= timestamp
    BY <1>1, <1>2, <1>12, PlaceAtEnd, EventAssumption DEF Elements
  <2>2. todo' # << >> => Source' # x
    <3>1. todo' # << >> => Source' \in Elements(todo')
      <4>1. todo' \in Seq(Exchanges)
        BY <1>2, <1>3
      <4> QED BY <1>4, <4>1, TailLosesHead DEF Source
    <3> QED BY <1>4, <3>1
  <2>3. Covered(x, e)' <=> /\ TimeOf[e] <= timestamp
                           /\ TimeOf[e] > base[x] \/ TimeOf[e] > span.start
    BY <1>2, <1>5, <1>9, <2>2 DEF Covered
  <2>4. Covered(x, e) <=> \/ /\ ~Unread(x) /\ TimeOf[e] <= cursor[x]
                             /\ TimeOf[e] > base[x] \/ TimeOf[e] > span.start
                          \/ TimeOf[e] > cursor[x] /\ TimeOf[e] <= timestamp
    BY <1>1, <1>2, <2>1 DEF Covered
  <2>5. CASE Unread(x)
    <3>1. cursor[x] = base[x] /\ timestamp = span.start
      BY <2>5 DEF ReplayInv, ListsSound, CursorSound, Unread
    <3> QED BY <1>3, <2>1, <2>3, <2>4, <2>5, <3>1
  <2>6. CASE ~Unread(x)
    <3>1. \/ cursor[x] = -1 /\ base[x] = -1
          \/ span.start <= cursor[x] /\ cursor[x] <= timestamp
      BY <2>6 DEF ReplayInv, CursorSound, BeforeAll
    <3> QED BY <1>3, <2>1, <2>3, <2>4, <2>6, <3>1, SMTT(30)
  <2> QED BY <2>5, <2>6
<1>13. ASSUME NEW y \in Exchanges, y # x, NEW e \in EventIds PROVE Covered(y, e)' <=> Covered(y, e)
  <2>1. \A i \in DOMAIN events[y] : ~(i < 1)
    BY <1>3
  <2> QED BY <1>1, <1>2, <1>5, <1>8, <1>13, <2>1 DEF Covered
<1>14. HeardAll'
  <2> SUFFICES ASSUME NEW y \in Exchanges, NEW e \in EventIds
               PROVE  e \in Elements(heard[y]) <=>
                        e \in Elements(events[y]) /\ e \notin late /\ Covered(y, e)'
    BY <1>2 DEF HeardAll
  <2> QED BY <1>12, <1>13 DEF ReplayInv, HeardAll
<1> QED BY <1>6, <1>7, <1>11, <1>14 DEF ReplayInv

\* The other steps of the loop apply nothing.
LEMMA LoopStepReplays ==
  ASSUME DeliveryInv, ReplayInv, EndReplay \/ BeginTick \/ ProcessTicks \/ EndTick \/ FinishRun
  PROVE  ReplayInv'
<1>1. /\ UNCHANGED <<events, attached, cursor, span, position, heard, base, late>>
      /\ timestamp \in Nat /\ timestamp' \in Nat /\ timestamp <= timestamp'
      /\ todo = << >> /\ position = 1 /\ phase # "setup" /\ phase' \notin {"setup", "initialize"}
      /\ \/ todo' = << >> /\ phase' # "replay"
         \/ todo' = attached /\ phase' = "replay"
  <2>1. timestamp \in Nat /\ TickInterval \in Nat
    BY SandboxAssumption DEF DeliveryInv, SandboxType
  <2>2. (phase \notin {"initialize", "replay"} => todo = << >>) /\ (todo = << >> => position = 1)
    BY DEF DeliveryInv, PlaceSound
  <2>3. CASE EndReplay
    BY <2>1, <2>2, <2>3 DEF EndReplay, ReplayedAll, sourceVars, replayVars
  <2>4. CASE BeginTick
    BY <2>1, <2>2, <2>4 DEF BeginTick, sourceVars
  <2>5. CASE ProcessTicks
    BY <2>1, <2>2, <2>5 DEF ProcessTicks, sourceVars, replayVars
  <2>6. CASE EndTick
    BY <2>1, <2>2, <2>6 DEF EndTick, sourceVars, replayVars
  <2>7. CASE FinishRun
    BY <2>1, <2>2, <2>7 DEF FinishRun, sourceVars, replayVars
  <2> QED BY <2>3, <2>4, <2>5, <2>6, <2>7
<1>2. /\ events \in [Exchanges -> Seq(EventIds)] /\ cursor \in [Exchanges -> Int]
      /\ attached \in Seq(Exchanges) /\ span.start \in Nat
      /\ \A y \in Exchanges : \A i \in DOMAIN events[y] : ~(i < 1)
  BY DEF DeliveryInv, SandboxType
<1>3. \A y \in Exchanges : ~Unread(y) /\ ~Unread(y)'
  BY <1>1 DEF Unread, Elements
<1>4. ListsSound'
  BY <1>1, <1>2 DEF ReplayInv, ListsSound, Sources, Distinct, Elements, Added
<1>5. PlaceReached'
  <2>1. todo' # << >> => Source' \in Exchanges
    BY <1>1, <1>2 DEF Source
  <2> QED BY <1>1, <1>2, <2>1 DEF PlaceReached
<1>6. ASSUME NEW y \in Exchanges PROVE CursorSound(y)'
  <2>1. CursorSound(y)
    BY DEF ReplayInv
  <2> QED BY <1>1, <1>2, <1>3, <2>1 DEF CursorSound, Sources
<1>7. HeardAll'
  <2>1. \A y \in Exchanges, e \in EventIds : Covered(y, e)' <=> Covered(y, e)
    BY <1>1, <1>2, <1>3 DEF Covered
  <2> QED BY <1>1, <2>1 DEF ReplayInv, HeardAll
<1> QED BY <1>4, <1>5, <1>6, <1>7 DEF ReplayInv

\* Nothing was replayed before the first run.
LEMMA ReplayInit == Init => ReplayInv
<1> SUFFICES ASSUME Init PROVE ReplayInv
  OBVIOUS
<1>1. /\ attached = << >> /\ todo = << >> /\ phase = "setup" /\ late = {}
      /\ cursor = [x \in Exchanges |-> -1] /\ base = [x \in Exchanges |-> -1]
      /\ heard = [x \in Exchanges |-> << >>]
  BY DEF Init, BeforeAll
<1>2. DOMAIN << >> = {} /\ Elements(<< >>) = {}
  BY DEF Elements
<1>3. ListsSound
  BY <1>1, <1>2 DEF ListsSound, Distinct
<1>4. PlaceReached
  BY <1>1 DEF PlaceReached
<1>5. ASSUME NEW x \in Exchanges PROVE CursorSound(x)
  BY <1>1 DEF CursorSound, Unread, BeforeAll
<1>6. ASSUME NEW x \in Exchanges, NEW e \in EventIds PROVE ~Covered(x, e)
  <2>1. TimeOf[e] \in Nat
    BY EventAssumption
  <2> QED BY <1>1, <2>1 DEF Covered
<1>7. HeardAll
  BY <1>1, <1>2, <1>6 DEF HeardAll
<1> QED BY <1>3, <1>4, <1>5, <1>7 DEF ReplayInv

\* Every action keeps the account of what was replayed.
LEMMA ReplayStep == DeliveryInv /\ ReplayInv /\ [Next]_vars => ReplayInv'
<1> SUFFICES ASSUME DeliveryInv, ReplayInv, [Next]_vars PROVE ReplayInv'
  OBVIOUS
<1>1. CASE UNCHANGED vars
  BY <1>1, OtherwiseReplayed DEF vars, sourceVars, replayVars, runVars
<1> QED BY <1>1, UserStepReplays, RunReplays, SortSourceReplays, SkipEventReplays, ApplyEventReplays,
           EndSourceReplays, LoopStepReplays DEF Next, EngineStep

\* For any events, exchanges, ranges and intervals, and whatever user code adds
\* to the sources or attaches between the steps, a run that has replayed up to a
\* moment has applied every event that was there in time, and none that another
\* run applied before its start (sandbox_engine.py:243-257).
THEOREM NothingIsMissed == Spec => []NothingMissed
<1>1. Init => DeliveryInv /\ ReplayInv
  BY DeliveryInit, ReplayInit
<1>2. DeliveryInv /\ ReplayInv /\ [Next]_vars => DeliveryInv' /\ ReplayInv'
  BY DeliveryStep, ReplayStep
<1>3. DeliveryInv /\ ReplayInv => NothingMissed
  <2> SUFFICES ASSUME DeliveryInv, ReplayInv, ReplayedAll, NEW x \in Exchanges, x \in Sources
               PROVE  Elements(heard[x]) = Due(x)
    <3>1. DeliveryInv => Sources \subseteq Exchanges
      BY DEF DeliveryInv, SandboxType, Sources, Elements
    <3> QED BY <3>1 DEF NothingMissed
  <2>1. /\ todo = << >> /\ phase \in {"initialize", "replay"} /\ Elements(todo) = {}
        /\ heard[x] \in Seq(EventIds) /\ events[x] \in Seq(EventIds)
    BY DEF ReplayedAll, DeliveryInv, SandboxType, Elements
  <2>2. cursor[x] = timestamp /\ ~Unread(x)
    BY <2>1 DEF ReplayInv, CursorSound, Unread
  <2>3. Elements(heard[x]) \subseteq EventIds /\ Elements(events[x]) \subseteq EventIds
    BY <2>1 DEF Elements
  <2>4. \A e \in EventIds : e \in Elements(heard[x]) <=> e \in Due(x)
    BY <2>1, <2>2 DEF ReplayInv, HeardAll, Covered, Due
  <2>5. Due(x) \subseteq EventIds
    BY <2>3 DEF Due
  <2> QED BY <2>3, <2>4, <2>5
<1> QED BY <1>1, <1>2, <1>3, PTL DEF Spec
-----------------------------------------------------------------------------
(* The lists kept of a book. *)

\* The lists that a query for an order of this side makes and walks.
Walk(levels, side) == IF side = "BUY" THEN LowFirst(levels) ELSE HighFirst(levels)

\* Which of two prices such an order takes first.
TakenFirst(side) ==
  {q \in Prices \X Prices : IF side = "BUY" THEN q[1] < q[2] ELSE q[1] > q[2]}

\* A walk goes through the levels of a side of the book, the best first.
LEMMA WalkEnumerates ==
  ASSUME NEW levels \in [Prices -> Nat], NEW side \in Sides
  PROVE  /\ IsFiniteSet(Levels(levels)) /\ Levels(levels) \subseteq Prices
         /\ Enumerates(Walk(levels, side), Levels(levels), TakenFirst(side))
         /\ Walk(levels, side) \in [1 .. Cardinality(Levels(levels)) -> Levels(levels)]
<1> DEFINE S == Levels(levels)
           R == TakenFirst(side)
           n == Cardinality(S)
           e == Walk(levels, side)
<1>1. MaxPrice \in Nat /\ Prices = 1 .. MaxPrice /\ S \subseteq Prices /\ \A p \in S : p \in Nat
  BY MaxPriceAssumption DEF Prices, Levels
<1>2. IsFiniteSet(S)
  <2>1. IsFiniteSet(Prices)
    BY <1>1, FS_Interval
  <2> QED BY <1>1, <2>1, FS_Subset
<1>3. \A x, y \in S : <<x, y>> \in R <=> IF side = "BUY" THEN x < y ELSE x > y
  BY <1>1 DEF TakenFirst
<1>4. Orders(R, S)
  <2> HIDE DEF R, S
  <2> QED BY <1>1, <1>3, SMTT(30) DEF Orders
<1>5. e = [i \in 1 .. n |-> CHOOSE x \in S : PlaceOf(R, S, x) = i - 1]
  <2>1. CASE side = "BUY"
    <3>1. e = [i \in 1 .. n |-> CHOOSE x \in S : Cardinality({y \in S : y < x}) = i - 1]
      BY <2>1 DEF Walk, LowFirst, Ranked
    <3>2. \A x \in S : {y \in S : y < x} = {y \in S : <<y, x>> \in R}
      BY <1>3, <2>1
    <3>3. \A x \in S : Cardinality({y \in S : y < x}) = PlaceOf(R, S, x)
      <4> TAKE x \in S
      <4>1. {y \in S : y < x} = {y \in S : <<y, x>> \in R}
        BY <3>2
      <4> HIDE DEF S, R
      <4> QED BY <4>1, Zenon DEF PlaceOf
    <3>4. \A i \in 1 .. n : (CHOOSE x \in S : Cardinality({y \in S : y < x}) = i - 1)
                             = CHOOSE x \in S : PlaceOf(R, S, x) = i - 1
      <4> TAKE i \in 1 .. n
      <4>1. \A x : (x \in S /\ Cardinality({y \in S : y < x}) = i - 1)
                   <=> (x \in S /\ PlaceOf(R, S, x) = i - 1)
        BY <3>3
      <4> HIDE DEF S, R
      <4> QED BY <4>1
    <3> HIDE DEF S, R, n
    <3> QED BY <3>1, <3>4
  <2>2. CASE side # "BUY"
    <3>1. e = [i \in 1 .. n |-> CHOOSE x \in S : Cardinality({y \in S : y > x}) = i - 1]
      BY <2>2 DEF Walk, HighFirst, Ranked
    <3>2. \A x \in S : {y \in S : y > x} = {y \in S : <<y, x>> \in R}
      BY <1>3, <2>2
    <3>3. \A x \in S : Cardinality({y \in S : y > x}) = PlaceOf(R, S, x)
      <4> TAKE x \in S
      <4>1. {y \in S : y > x} = {y \in S : <<y, x>> \in R}
        BY <3>2
      <4> HIDE DEF S, R
      <4> QED BY <4>1, Zenon DEF PlaceOf
    <3>4. \A i \in 1 .. n : (CHOOSE x \in S : Cardinality({y \in S : y > x}) = i - 1)
                             = CHOOSE x \in S : PlaceOf(R, S, x) = i - 1
      <4> TAKE i \in 1 .. n
      <4>1. \A x : (x \in S /\ Cardinality({y \in S : y > x}) = i - 1)
                   <=> (x \in S /\ PlaceOf(R, S, x) = i - 1)
        BY <3>3
      <4> HIDE DEF S, R
      <4> QED BY <4>1
    <3> HIDE DEF S, R, n
    <3> QED BY <3>1, <3>4
  <2> QED BY <2>1, <2>2
<1> HIDE DEF e, R, S
<1>6. \A i \in 1 .. n : e[i] \in S /\ PlaceOf(R, S, e[i]) = i - 1
  <2> TAKE i \in 1 .. n
  <2>1. \E x \in S : PlaceOf(R, S, x) = i - 1
    BY <1>2, <1>4, RanksAreTaken
  <2>2. e[i] = CHOOSE x \in S : PlaceOf(R, S, x) = i - 1
    BY <1>5
  <2> QED BY <2>1, <2>2
<1>7. e \in [1 .. n -> S]
  BY <1>5, <1>6
<1>8. Enumerates(e, S, R)
  BY <1>2, <1>4, <1>6, <1>7, RanksEnumerate
<1> QED BY <1>1, <1>2, <1>7, <1>8 DEF e, R, S

\* The list that a query keeps for an order of this side, of the levels of a book.
KeptList(book, side) == Listed(Opposite(book, side), Walk(Opposite(book, side), side))

\* What such a list holds: at each place a level and its quantity.
LEMMA KeptListHolds ==
  ASSUME NEW book \in Book, NEW side \in Sides
  PROVE  LET levels == Opposite(book, side)
             n      == Cardinality(Levels(levels))
             e      == Walk(levels, side)
             list   == KeptList(book, side)
         IN  /\ levels \in [Prices -> Nat] /\ n \in Nat
             /\ DOMAIN list = 1 .. n /\ Len(list) = n /\ list \in Seq(Int \X Nat)
             /\ \A i \in 1 .. n : PriceOf(list[i]) = e[i] /\ QuantityOf(list[i]) = levels[e[i]]
<1> DEFINE levels == Opposite(book, side)
           n      == Cardinality(Levels(levels))
           e      == Walk(levels, side)
           list   == KeptList(book, side)
<1>1. levels \in [Prices -> Nat]
  BY DEF Opposite, Book
<1> HIDE DEF levels
<1>2. IsFiniteSet(Levels(levels)) /\ Levels(levels) \subseteq Prices /\ e \in [1 .. n -> Levels(levels)]
  BY <1>1, WalkEnumerates
<1>3. n \in Nat
  BY <1>2, FS_CardinalityType
<1> HIDE DEF n, e
<1>4. list = [i \in 1 .. n |-> <<e[i], levels[e[i]]>>]
  <2>1. DOMAIN e = 1 .. n
    BY <1>2
  <2> QED BY <2>1 DEF KeptList, Listed, levels, e
<1> HIDE DEF list
<1>5. \A i \in 1 .. n : e[i] \in Prices /\ e[i] \in Int /\ levels[e[i]] \in Nat
  BY <1>1, <1>2 DEF Prices
<1>6. list \in [1 .. n -> Int \X Nat]
  BY <1>4, <1>5
<1>7. list \in Seq(Int \X Nat) /\ Len(list) = n /\ DOMAIN list = 1 .. n
  BY <1>3, <1>6, SeqDef, LenProperties
<1>8. \A i \in 1 .. n : PriceOf(list[i]) = e[i] /\ QuantityOf(list[i]) = levels[e[i]]
  BY <1>4 DEF PriceOf, QuantityOf
<1> QED BY <1>1, <1>3, <1>7, <1>8 DEF levels, n, e, list

\* A sum along a walk, of terms that are 0 where nothing is shown, is the sum
\* over all prices.
LEMMA SumAlongWalk ==
  ASSUME NEW levels \in [Prices -> Nat], NEW side \in Sides,
         NEW f, \A p \in Prices : f[p] \in Int /\ (levels[p] = 0 => f[p] = 0),
         NEW g, \A i \in 1 .. Cardinality(Levels(levels)) : g[i] = f[Walk(levels, side)[i]]
  PROVE  /\ Total(g, Cardinality(Levels(levels))) = Total(f, MaxPrice)
         /\ \A i \in 1 .. Cardinality(Levels(levels)) :
              Total(g, i - 1) = SumOver(f, {p \in Levels(levels) :
                                              <<p, Walk(levels, side)[i]>> \in TakenFirst(side)}, MaxPrice)
<1> DEFINE S == Levels(levels)
           n == Cardinality(S)
           e == Walk(levels, side)
           R == TakenFirst(side)
           Past(k) == {e[i] : i \in 1 .. k}
<1>1. MaxPrice \in Nat /\ Prices = 1 .. MaxPrice
  BY MaxPriceAssumption DEF Prices
<1>2. /\ IsFiniteSet(S) /\ S \subseteq Prices /\ e \in [1 .. n -> S]
      /\ \A i, j \in 1 .. n : i < j => <<e[i], e[j]>> \in R
      /\ \A x \in S : \E i \in 1 .. n : e[i] = x
  BY WalkEnumerates DEF Enumerates
<1>3. n \in Nat
  BY <1>2, FS_CardinalityType
<1>4. \A x, y \in Prices : <<x, y>> \in R => <<y, x>> \notin R /\ x # y
  BY <1>1 DEF TakenFirst
<1>5. \A p \in Prices : p \notin S => f[p] = 0
  BY DEF Levels
<1> HIDE DEF e, R, S, n
<1>6. \A i, j \in 1 .. n : i < j => e[i] # e[j]
  BY <1>2, <1>4
<1>7. Lists(g, f, e, n, MaxPrice)
  <2>1. \A i, j \in 1 .. n : e[i] = e[j] => i = j
    BY <1>3, <1>6
  <2>2. e \in [1 .. n -> 1 .. MaxPrice]
    BY <1>1, <1>2
  <2>3. \A i \in 1 .. n : g[i] = f[e[i]]
    BY DEF n, S, e
  <2> QED BY <1>1, <1>3, <2>1, <2>2, <2>3 DEF Lists
<1>8. \A k \in 0 .. n : Total(g, k) = SumOver(f, Past(k), MaxPrice)
  BY <1>7, TotalEnumerated
<1>9. Total(g, n) = Total(f, MaxPrice)
  <2>1. Past(n) = S
    BY <1>2
  <2>2. SumOver(f, S, MaxPrice) = Total(f, MaxPrice)
    BY <1>1, <1>5, SumOverAll
  <2>3. n \in 0 .. n
    BY <1>3
  <2> HIDE DEF Past
  <2> QED BY <1>8, <2>1, <2>2, <2>3
<1>10. ASSUME NEW i \in 1 .. n
       PROVE  Total(g, i - 1) = SumOver(f, {p \in S : <<p, e[i]>> \in R}, MaxPrice)
  <2>1. Past(i - 1) = {p \in S : <<p, e[i]>> \in R}
    <3>1. ASSUME NEW p \in Past(i - 1) PROVE p \in S /\ <<p, e[i]>> \in R
      <4>1. PICK j \in 1 .. i - 1 : p = e[j]
        OBVIOUS
      <4>2. j \in 1 .. n /\ j < i
        BY <1>3, <4>1
      <4> QED BY <1>2, <4>1, <4>2
    <3>2. ASSUME NEW p \in S, <<p, e[i]>> \in R PROVE p \in Past(i - 1)
      <4>1. PICK j \in 1 .. n : e[j] = p
        BY <1>2
      <4>2. e[i] \in Prices /\ p \in Prices
        BY <1>2
      <4>3. j # i /\ ~(i < j)
        BY <1>2, <1>4, <3>2, <4>1, <4>2
      <4>4. j \in 1 .. i - 1
        BY <1>3, <4>3
      <4> QED BY <4>1, <4>4
    <3> HIDE DEF Past
    <3> QED BY <3>1, <3>2
  <2>2. i - 1 \in 0 .. n
    BY <1>3
  <2> HIDE DEF Past
  <2> QED BY <1>8, <2>1, <2>2
<1> QED BY <1>9, <1>10 DEF S, n, e, R

\* The volume a kept list answers is what the levels show within the limit.
LEMMA VolumeIsCurrent ==
  ASSUME NEW book \in Book, NEW side \in Sides, NEW limit \in Int
  PROVE  VolumeWithin(KeptList(book, side), side, limit) = VolumeOnLevels(book, side, limit)
<1> DEFINE levels == Opposite(book, side)
           n      == Cardinality(Levels(levels))
           e      == Walk(levels, side)
           list   == KeptList(book, side)
           f      == [p \in Prices |-> IF Beyond(p, side, limit) THEN 0 ELSE levels[p]]
           g      == [i \in 1 .. n |->
                        IF \E j \in 1 .. i : Beyond(PriceOf(list[j]), side, limit) THEN 0
                        ELSE QuantityOf(list[i])]
<1>1. /\ levels \in [Prices -> Nat] /\ n \in Nat /\ DOMAIN list = 1 .. n /\ Len(list) = n
      /\ \A i \in 1 .. n : PriceOf(list[i]) = e[i] /\ QuantityOf(list[i]) = levels[e[i]]
  BY KeptListHolds
<1>2. VolumeWithin(list, side, limit) = Total(g, n) /\ VolumeOnLevels(book, side, limit) = Total(f, MaxPrice)
  BY <1>1 DEF VolumeWithin, VolumeOnLevels
<1> HIDE DEF levels, list
<1>3. /\ e \in [1 .. n -> Levels(levels)] /\ Levels(levels) \subseteq Prices
      /\ \A i, j \in 1 .. n : i < j => <<e[i], e[j]>> \in TakenFirst(side)
  BY <1>1, WalkEnumerates DEF Enumerates
<1> HIDE DEF n, e
<1>4. \A p \in Prices : f[p] \in Int /\ (levels[p] = 0 => f[p] = 0)
  BY <1>1
<1>5. ASSUME NEW i \in 1 .. n PROVE g[i] = f[e[i]]
  <2>1. e[i] \in Prices /\ i \in 1 .. i
    BY <1>1, <1>3
  <2>2. (\E j \in 1 .. i : Beyond(PriceOf(list[j]), side, limit)) <=> Beyond(e[i], side, limit)
    <3>1. ASSUME NEW j \in 1 .. i, Beyond(PriceOf(list[j]), side, limit) PROVE Beyond(e[i], side, limit)
      <4>1. j \in 1 .. n /\ PriceOf(list[j]) = e[j] /\ e[j] \in Prices
        BY <1>1, <1>3
      <4>2. CASE j = i
        BY <3>1, <4>1, <4>2
      <4>3. CASE j < i
        <5>1. <<e[j], e[i]>> \in TakenFirst(side)
          BY <1>3, <4>1, <4>3
        <5>2. IF side = "BUY" THEN e[j] < e[i] ELSE e[j] > e[i]
          BY <5>1 DEF TakenFirst
        <5>3. e[i] \in Int /\ e[j] \in Int /\ Beyond(e[j], side, limit)
          BY <2>1, <3>1, <4>1 DEF Prices
        <5> QED BY <5>2, <5>3 DEF Beyond
      <4> QED BY <1>1, <4>2, <4>3
    <3>2. Beyond(e[i], side, limit) => \E j \in 1 .. i : Beyond(PriceOf(list[j]), side, limit)
      BY <1>1, <2>1
    <3> QED BY <3>1, <3>2
  <2>3. g[i] = IF Beyond(e[i], side, limit) THEN 0 ELSE levels[e[i]]
    BY <1>1, <2>2
  <2>4. f[e[i]] = IF Beyond(e[i], side, limit) THEN 0 ELSE levels[e[i]]
    BY <2>1
  <2> QED BY <2>3, <2>4
<1> HIDE DEF f, g
<1>6. Total(g, n) = Total(f, MaxPrice)
  BY <1>1, <1>4, <1>5, SumAlongWalk DEF n, e
<1> QED BY <1>2, <1>6 DEF list

\* What lies ahead of a price is the sum over the better levels.
LEMMA AheadIsBetter ==
  ASSUME NEW book \in Book, NEW side \in Sides, NEW p \in Prices
  PROVE  LET levels == Opposite(book, side)
         IN  Ahead(book, side, p)
               = SumOver(levels, {x \in Levels(levels) : <<x, p>> \in TakenFirst(side)}, MaxPrice)
<1> DEFINE levels == Opposite(book, side)
           A == {x \in Levels(levels) : <<x, p>> \in TakenFirst(side)}
<1>1. MaxPrice \in Nat /\ Prices = 1 .. MaxPrice /\ p \in 1 .. MaxPrice
  BY MaxPriceAssumption DEF Prices
<1>2. levels \in [Prices -> Nat]
  BY DEF Opposite, Book
<1>3. Ahead(book, side, p) = IF side = "BUY" THEN Total(levels, p - 1)
                             ELSE Total(levels, MaxPrice) - Total(levels, p)
  BY DEF Ahead, Opposite
<1> HIDE DEF levels
<1>4. \A j \in 1 .. MaxPrice : levels[j] \in Int /\ (j \notin Levels(levels) => levels[j] = 0)
  BY <1>1, <1>2 DEF Levels
<1>5. CASE side = "BUY"
  <2>1. \A j \in 1 .. MaxPrice :
          (IF j \in A THEN levels[j] ELSE 0) = IF j \in 1 .. p - 1 THEN levels[j] ELSE 0
    <3> TAKE j \in 1 .. MaxPrice
    <3>1. j \in A <=> j \in Levels(levels) /\ j < p
      BY <1>1, <1>5 DEF TakenFirst
    <3>2. j \in 1 .. p - 1 <=> j < p
      BY <1>1
    <3> HIDE DEF A
    <3> QED BY <1>4, <3>1, <3>2
  <2> HIDE DEF A
  <2>2. SumOver(levels, A, MaxPrice) = SumOver(levels, 1 .. p - 1, MaxPrice)
    BY <2>1 DEF SumOver
  <2>3. p - 1 \in 0 .. MaxPrice
    BY <1>1
  <2>4. SumOver(levels, 1 .. p - 1, MaxPrice) = Total(levels, p - 1)
    BY <1>1, <1>4, <2>3, SumOverEnds
  <2> QED BY <1>3, <1>5, <2>2, <2>4 DEF A, levels
<1>6. CASE side # "BUY"
  <2>1. \A j \in 1 .. MaxPrice :
          (IF j \in A THEN levels[j] ELSE 0) = IF j \in p + 1 .. MaxPrice THEN levels[j] ELSE 0
    <3> TAKE j \in 1 .. MaxPrice
    <3>1. j \in A <=> j \in Levels(levels) /\ j > p
      BY <1>1, <1>6 DEF TakenFirst
    <3>2. j \in p + 1 .. MaxPrice <=> j > p
      BY <1>1
    <3> HIDE DEF A
    <3> QED BY <1>4, <3>1, <3>2
  <2> HIDE DEF A
  <2>2. SumOver(levels, A, MaxPrice) = SumOver(levels, p + 1 .. MaxPrice, MaxPrice)
    BY <2>1 DEF SumOver
  <2>3. p \in 0 .. MaxPrice
    BY <1>1
  <2>4. SumOver(levels, p + 1 .. MaxPrice, MaxPrice) = Total(levels, MaxPrice) - Total(levels, p)
    BY <1>1, <1>4, <2>3, SumOverEnds
  <2> QED BY <1>3, <1>6, <2>2, <2>4 DEF A, levels
<1> QED BY <1>5, <1>6

IsLeft(left, q, n, amount) ==
  left = [i \in 0 .. n |-> IF i = 0 THEN amount ELSE left[i - 1] - Lower(left[i - 1], q[i])]

\* After some levels there is left of an amount what their quantities fall short of it.
LEMMA LeftIsRest ==
  ASSUME NEW n \in Nat, NEW q, \A i \in 1 .. n : q[i] \in Nat, NEW amount \in Nat
  PROVE  /\ \E left : IsLeft(left, q, n, amount)
         /\ \A left : IsLeft(left, q, n, amount) =>
              \A i \in 0 .. n : left[i] = Higher(0, amount - Total(q, i))
<1>1. PICK s : HasPrefixes(s, q, n)
  BY TotalPrefixes
<1> DEFINE f == [i \in 0 .. n |-> Higher(0, amount - s[i])]
           T(left) == {k \in 0 .. n : left[k] = Higher(0, amount - s[k])}
<1>2. s \in [0 .. n -> Int] /\ s[0] = 0 /\ \A k \in 0 .. n : Total(q, k) = s[k]
  BY <1>1 DEF HasPrefixes
<1>3. ASSUME NEW i \in 1 .. n
      PROVE  /\ i - 1 \in 0 .. n /\ i \in 0 .. n
             /\ Higher(0, amount - s[i])
                  = Higher(0, amount - s[i - 1]) - Lower(Higher(0, amount - s[i - 1]), q[i])
  <2>1. i - 1 \in 0 .. n /\ i \in 0 .. n
    OBVIOUS
  <2>2. PICK x \in Int, y \in Nat : x = s[i - 1] /\ y = q[i]
    BY <1>2, <2>1
  <2>3. s[i] = x + y
    BY <1>1, <2>2 DEF HasPrefixes
  <2>4. Higher(0, amount - (x + y)) = Higher(0, amount - x) - Lower(Higher(0, amount - x), y)
    BY DEF Higher, Lower
  <2> QED BY <2>1, <2>2, <2>3, <2>4
<1>4. Higher(0, amount - s[0]) = amount
  BY <1>2 DEF Higher
<1>5. IsLeft(f, q, n, amount)
  <2>1. \A i \in 0 .. n : f[i] = IF i = 0 THEN amount ELSE f[i - 1] - Lower(f[i - 1], q[i])
    <3> TAKE i \in 0 .. n
    <3>1. CASE i = 0
      BY <1>4, <3>1
    <3>2. CASE i # 0
      <4>1. i \in 1 .. n
        BY <3>2
      <4>2. f[i] = Higher(0, amount - s[i]) /\ f[i - 1] = Higher(0, amount - s[i - 1])
        BY <1>3, <4>1
      <4> HIDE DEF f
      <4> QED BY <1>3, <3>2, <4>1, <4>2
    <3> QED BY <3>1, <3>2
  <2>2. f = [i \in 0 .. n |-> f[i]]
    OBVIOUS
  <2> HIDE DEF f
  <2> QED BY <2>1, <2>2 DEF IsLeft
<1>6. ASSUME NEW left, IsLeft(left, q, n, amount), NEW i \in 0 .. n
      PROVE  left[i] = Higher(0, amount - Total(q, i))
  <2>1. \A k \in 0 .. n : left[k] = IF k = 0 THEN amount ELSE left[k - 1] - Lower(left[k - 1], q[k])
    BY <1>6 DEF IsLeft
  <2>2. 0 \in T(left)
    BY <1>4, <2>1
  <2>3. ASSUME NEW k \in 0 .. n - 1, k \in T(left) PROVE k + 1 \in T(left)
    <3>1. k + 1 \in 1 .. n /\ k + 1 \in 0 .. n /\ (k + 1) - 1 = k /\ k + 1 # 0
      OBVIOUS
    <3>2. left[k + 1] = left[k] - Lower(left[k], q[k + 1]) /\ left[k] = Higher(0, amount - s[k])
      BY <2>1, <2>3, <3>1
    <3>3. Higher(0, amount - s[k + 1])
            = Higher(0, amount - s[k]) - Lower(Higher(0, amount - s[k]), q[k + 1])
      BY <1>3, <3>1
    <3> QED BY <3>1, <3>2, <3>3
  <2>4. 0 .. n \subseteq T(left)
    <3> HIDE DEF T
    <3> QED BY <2>2, <2>3, RangeInduction
  <2> QED BY <1>2, <2>4
<1> HIDE DEF f
<1> QED BY <1>5, <1>6

\* The cost a kept list answers for an amount is what its levels cost now.
LEMMA CostIsCurrent ==
  ASSUME NEW book \in Book, NEW side \in Sides, NEW amount \in Nat
  PROVE  CostOfAmount(KeptList(book, side), amount) = CostOnLevels(book, side, amount)
<1> DEFINE levels == Opposite(book, side)
           n      == Cardinality(Levels(levels))
           e      == Walk(levels, side)
           list   == KeptList(book, side)
           q      == [i \in 1 .. n |-> QuantityOf(list[i])]
           P(left) == left = [i \in 0 .. n |-> IF i = 0 THEN amount
                                               ELSE left[i - 1] - Lower(left[i - 1], QuantityOf(list[i]))]
           left   == CHOOSE left : P(left)
           h      == [i \in 1 .. n |-> (left[i - 1] - left[i]) * PriceOf(list[i])]
           taken  == TakenAt(book, side, amount)
           F      == [p \in Prices |-> p * taken[p]]
<1>1. /\ levels \in [Prices -> Nat] /\ n \in Nat /\ DOMAIN list = 1 .. n /\ Len(list) = n
      /\ \A i \in 1 .. n : PriceOf(list[i]) = e[i] /\ QuantityOf(list[i]) = levels[e[i]]
  BY KeptListHolds
<1>2. CostOfAmount(list, amount) = IF left[n] > 0 THEN NoPrice ELSE Total(h, n)
  BY <1>1 DEF CostOfAmount
<1>3. CostOnLevels(book, side, amount) = IF Total(levels, MaxPrice) < amount THEN NoPrice
                                         ELSE Total(F, MaxPrice)
  BY DEF CostOnLevels
<1>4. \A p \in Prices : taken[p] = Higher(0, Lower(levels[p], amount - Ahead(book, side, p)))
  BY DEF TakenAt
<1>5. \A p \in Prices :
        Ahead(book, side, p)
          = SumOver(levels, {x \in Levels(levels) : <<x, p>> \in TakenFirst(side)}, MaxPrice)
  BY AheadIsBetter
<1> HIDE DEF levels, list, taken
<1>6. e \in [1 .. n -> Levels(levels)] /\ Levels(levels) \subseteq Prices
  BY <1>1, WalkEnumerates
<1>7. /\ \A p \in Prices : levels[p] \in Int /\ (levels[p] = 0 => levels[p] = 0)
      /\ \A i \in 1 .. n : q[i] = levels[e[i]] /\ q[i] \in Nat
  BY <1>1, <1>6
<1>8. /\ Total(q, n) = Total(levels, MaxPrice)
      /\ \A i \in 1 .. n : Total(q, i - 1) = Ahead(book, side, e[i])
  <2> HIDE DEF q
  <2>1. /\ Total(q, n) = Total(levels, MaxPrice)
        /\ \A i \in 1 .. n :
             Total(q, i - 1) = SumOver(levels, {x \in Levels(levels) : <<x, e[i]>> \in TakenFirst(side)}, MaxPrice)
    BY <1>1, <1>7, SumAlongWalk
  <2>2. \A i \in 1 .. n : e[i] \in Prices
    BY <1>6
  <2> HIDE DEF n, e
  <2> QED BY <1>5, <2>1, <2>2
<1>9. \A l : P(l) <=> IsLeft(l, q, n, amount)
  <2> SUFFICES ASSUME NEW l PROVE P(l) <=> IsLeft(l, q, n, amount)
    OBVIOUS
  <2>1. [i \in 0 .. n |-> IF i = 0 THEN amount ELSE l[i - 1] - Lower(l[i - 1], QuantityOf(list[i]))]
          = [i \in 0 .. n |-> IF i = 0 THEN amount ELSE l[i - 1] - Lower(l[i - 1], q[i])]
    <3>1. \A i \in 0 .. n : i # 0 => q[i] = QuantityOf(list[i])
      BY <1>1
    <3> HIDE DEF q, n
    <3> QED BY <3>1
  <2> HIDE DEF q, n
  <2> QED BY <2>1 DEF IsLeft
<1> HIDE DEF q, n, e
<1>10. IsLeft(left, q, n, amount)
  <2>1. \E l : P(l)
    BY <1>1, <1>7, <1>9, LeftIsRest
  <2> HIDE DEF P
  <2>2. P(left)
    BY <2>1
  <2> QED BY <1>9, <2>2
<1> HIDE DEF left
<1>11. \A i \in 0 .. n : left[i] = Higher(0, amount - Total(q, i))
  <2>1. \A l : IsLeft(l, q, n, amount) => \A i \in 0 .. n : l[i] = Higher(0, amount - Total(q, i))
    <3>1. n \in Nat /\ amount \in Nat /\ \A i \in 1 .. n : q[i] \in Nat
      BY <1>1, <1>7
    <3> QED BY <3>1, LeftIsRest, Zenon
  <2> QED BY <1>10, <2>1
<1>12. PICK s : HasPrefixes(s, q, n)
  BY <1>1, <1>7, TotalPrefixes
<1>13. left[n] > 0 <=> Total(levels, MaxPrice) < amount
  <2>1. n \in 0 .. n
    BY <1>1
  <2>2. PICK x \in Int : x = Total(q, n)
    BY <1>12, <2>1 DEF HasPrefixes
  <2>3. left[n] = Higher(0, amount - x)
    BY <1>11, <2>1, <2>2
  <2> QED BY <1>8, <2>2, <2>3 DEF Higher
<1>14. ASSUME NEW p \in Prices PROVE taken[p] \in Int /\ (levels[p] = 0 => taken[p] = 0)
  <2>1. Ahead(book, side, p) \in Int
    <3> DEFINE A == {x \in Levels(levels) : <<x, p>> \in TakenFirst(side)}
    <3>1. \A j \in 1 .. MaxPrice : (IF j \in A THEN levels[j] ELSE 0) \in Int
      BY <1>7 DEF Prices
    <3> DEFINE a == [j \in 1 .. MaxPrice |-> IF j \in A THEN levels[j] ELSE 0]
    <3> HIDE DEF A
    <3>2. \A j \in 1 .. MaxPrice : a[j] \in Int
      BY <3>1
    <3>3. Ahead(book, side, p) = Total(a, MaxPrice)
      BY <1>5, Zenon DEF SumOver, A
    <3> HIDE DEF a
    <3> QED BY <3>2, <3>3, TotalType, MaxPriceAssumption
  <2>2. PICK x \in Nat, y \in Int : x = levels[p] /\ y = amount - Ahead(book, side, p)
    BY <1>1, <2>1
  <2>3. Higher(0, Lower(x, y)) \in Int /\ (x = 0 => Higher(0, Lower(x, y)) = 0)
    BY DEF Higher, Lower
  <2> QED BY <1>4, <2>2, <2>3
<1>15. ASSUME NEW i \in 1 .. n PROVE left[i - 1] - left[i] = taken[e[i]]
  <2>1. i - 1 \in 0 .. n /\ i \in 0 .. n /\ e[i] \in Prices
    BY <1>1, <1>6
  <2>2. PICK x \in Int, y \in Nat : x = Total(q, i - 1) /\ y = q[i]
    BY <1>7, <1>12, <2>1 DEF HasPrefixes
  <2>3. Total(q, i) = x + y
    BY <1>12, <2>1, <2>2 DEF HasPrefixes
  <2>4. left[i - 1] = Higher(0, amount - x) /\ left[i] = Higher(0, amount - (x + y))
    BY <1>11, <2>1, <2>2, <2>3
  <2>5. taken[e[i]] = Higher(0, Lower(y, amount - x))
    BY <1>4, <1>7, <1>8, <2>1, <2>2
  <2>6. Higher(0, amount - x) - Higher(0, amount - (x + y)) = Higher(0, Lower(y, amount - x))
    BY DEF Higher, Lower
  <2> QED BY <2>4, <2>5, <2>6
<1>16. \A p \in Prices : F[p] \in Int /\ (levels[p] = 0 => F[p] = 0)
  <2> TAKE p \in Prices
  <2>1. PICK x \in Int, y \in Int : x = p /\ y = taken[p]
    BY <1>14 DEF Prices
  <2>2. F[p] = x * y /\ x * y \in Int /\ (y = 0 => x * y = 0)
    BY <2>1
  <2> QED BY <1>14, <2>1, <2>2
<1>17. \A i \in 1 .. n : h[i] = F[e[i]]
  <2> TAKE i \in 1 .. n
  <2>1. e[i] \in Prices
    BY <1>6
  <2>2. PICK x \in Int, y \in Int : x = e[i] /\ y = taken[e[i]]
    BY <1>14, <2>1 DEF Prices
  <2>3. h[i] = y * x
    BY <1>1, <1>15, <2>2
  <2>4. F[e[i]] = x * y
    BY <2>1, <2>2
  <2>5. x * y = y * x
    OBVIOUS
  <2> QED BY <2>3, <2>4, <2>5
<1> HIDE DEF F, h
<1>18. Total(h, n) = Total(F, MaxPrice)
  BY <1>1, <1>16, <1>17, SumAlongWalk DEF n, e
<1> QED BY <1>2, <1>3, <1>13, <1>18 DEF list

\* Each list kept of a book is none, or what the levels would give now.
BookCurrent(b) ==
  /\ b \in CachedBook
  /\ b.sortedBids \in {NoCache, KeptList(b.levels, "SELL")}
  /\ b.sortedAsks \in {NoCache, KeptList(b.levels, "BUY")}

BooksCurrent == books \in [Exchanges -> CachedBook] /\ \A x \in Exchanges : BookCurrent(books[x])

\* A book whose lists were dropped is current whatever its levels are.
LEMMA DroppedIsCurrent ==
  ASSUME NEW b \in CachedBook
  PROVE  BookCurrent(InvalidateCache(b))
<1>1. NoCache \in Seq(Int \X Nat)
  <2>1. NoPrice \in Int
    BY DEF NoPrice
  <2> QED BY <2>1 DEF NoCache
<1> HIDE DEF NoCache
<1>2. InvalidateCache(b) \in CachedBook
  BY <1>1 DEF InvalidateCache, CachedBook
<1>3. InvalidateCache(b).sortedBids = NoCache /\ InvalidateCache(b).sortedAsks = NoCache
  BY DEF InvalidateCache
<1> QED BY <1>2, <1>3 DEF BookCurrent

\* A book begins without lists.
LEMMA NewBookCurrent == BookCurrent(NewBook)
<1>1. NoCache \in Seq(Int \X Nat)
  <2>1. NoPrice \in Int
    BY DEF NoPrice
  <2> QED BY <2>1 DEF NoCache
<1>2. EmptyBook \in Book
  BY DEF EmptyBook, Book
<1> HIDE DEF NoCache
<1> QED BY <1>1, <1>2 DEF BookCurrent, NewBook, CachedBook

\* A query keeps a list made of the levels, or the one there is.
LEMMA ReadsKeepCurrent ==
  ASSUME NEW b, BookCurrent(b)
  PROVE  BookCurrent(ReadBids(b)) /\ BookCurrent(ReadAsks(b))
<1>1. /\ b \in CachedBook /\ b.levels \in Book
      /\ b.sortedBids \in {NoCache, KeptList(b.levels, "SELL")}
      /\ b.sortedAsks \in {NoCache, KeptList(b.levels, "BUY")}
  BY DEF BookCurrent, CachedBook
<1>2. /\ KeptList(b.levels, "SELL") \in Seq(Int \X Nat)
      /\ KeptList(b.levels, "BUY") \in Seq(Int \X Nat)
  BY <1>1, KeptListHolds DEF Sides
<1>3. /\ KeptList(b.levels, "SELL") = Listed(b.levels.bids, HighFirst(b.levels.bids))
      /\ KeptList(b.levels, "BUY") = Listed(b.levels.asks, LowFirst(b.levels.asks))
  BY DEF KeptList, Opposite, Walk
<1> HIDE DEF NoCache
<1>4. BookCurrent(ReadBids(b))
  <2>1. CASE b.sortedBids # NoCache
    BY <2>1 DEF ReadBids
  <2>2. CASE b.sortedBids = NoCache
    <3>1. ReadBids(b) = [b EXCEPT !.sortedBids = KeptList(b.levels, "SELL")]
      BY <1>3, <2>2 DEF ReadBids
    <3>2. ReadBids(b) \in CachedBook
      BY <1>1, <1>2, <3>1 DEF CachedBook
    <3>3. /\ ReadBids(b).levels = b.levels /\ ReadBids(b).sortedAsks = b.sortedAsks
          /\ ReadBids(b).sortedBids = KeptList(b.levels, "SELL")
      BY <1>1, <3>1 DEF CachedBook
    <3> QED BY <1>1, <3>2, <3>3 DEF BookCurrent
  <2> QED BY <2>1, <2>2
<1>5. BookCurrent(ReadAsks(b))
  <2>1. CASE b.sortedAsks # NoCache
    BY <2>1 DEF ReadAsks
  <2>2. CASE b.sortedAsks = NoCache
    <3>1. ReadAsks(b) = [b EXCEPT !.sortedAsks = KeptList(b.levels, "BUY")]
      BY <1>3, <2>2 DEF ReadAsks
    <3>2. ReadAsks(b) \in CachedBook
      BY <1>1, <1>2, <3>1 DEF CachedBook
    <3>3. /\ ReadAsks(b).levels = b.levels /\ ReadAsks(b).sortedBids = b.sortedBids
          /\ ReadAsks(b).sortedAsks = KeptList(b.levels, "BUY")
      BY <1>1, <3>1 DEF CachedBook
    <3> QED BY <1>1, <3>2, <3>3 DEF BookCurrent
  <2> QED BY <2>1, <2>2
<1> QED BY <1>4, <1>5

\* A snapshot, a diff and a trade leave levels, and drop both lists.
LEMMA ChangesKeepCurrent ==
  ASSUME NEW b, BookCurrent(b)
  PROVE  /\ \A s \in Book : BookCurrent(ApplySnapshot(b, s))
         /\ \A d : IsDiff(d) => BookCurrent(ApplyDiffs(b, d))
         /\ \A t : IsTrade(t) => BookCurrent(RecordTrade(b, t))
<1>1. b \in CachedBook
  BY DEF BookCurrent
<1>2. /\ b.levels \in Book /\ b.levels.bids \in [Prices -> Nat] /\ b.levels.asks \in [Prices -> Nat]
      /\ \A x, y \in [Prices -> Nat] : [b.levels EXCEPT !.bids = x, !.asks = y] \in Book
  BY <1>1 DEF Book, CachedBook
<1>3. ASSUME NEW s \in Book PROVE BookCurrent(ApplySnapshot(b, s))
  <2>1. [b EXCEPT !.levels = s] \in CachedBook
    BY <1>1 DEF CachedBook
  <2> QED BY <2>1, DroppedIsCurrent DEF ApplySnapshot
<1>4. ASSUME NEW d, IsDiff(d) PROVE BookCurrent(ApplyDiffs(b, d))
  <2>1. ASSUME NEW levels \in [Prices -> Nat], NEW diffs \in {d.bids, d.asks}
        PROVE  Updated(levels, diffs) \in [Prices -> Nat]
    <3> SUFFICES ASSUME NEW p \in Prices
                 PROVE  (IF p \in DOMAIN diffs THEN Higher(0, diffs[p]) ELSE levels[p]) \in Nat
      BY DEF Updated
    <3>1. CASE p \in DOMAIN diffs
      <4>1. diffs[p] \in Int
        BY <1>4, <3>1 DEF IsDiff
      <4> QED BY <3>1, <4>1 DEF Higher
    <3>2. CASE p \notin DOMAIN diffs
      BY <3>2
    <3> QED BY <3>1, <3>2
  <2>2. PICK x \in [Prices -> Nat], y \in [Prices -> Nat] :
          x = Updated(b.levels.bids, d.bids) /\ y = Updated(b.levels.asks, d.asks)
    BY <1>2, <2>1
  <2> DEFINE c == [b EXCEPT !.levels.bids = Updated(@, d.bids), !.levels.asks = Updated(@, d.asks)]
  <2>3. c = [b EXCEPT !.levels = [b.levels EXCEPT !.bids = x, !.asks = y]]
    BY <1>1, <2>2 DEF Book, CachedBook
  <2>4. ApplyDiffs(b, d) = InvalidateCache(c)
    BY DEF ApplyDiffs
  <2> HIDE DEF c
  <2>5. c \in CachedBook
    BY <1>1, <1>2, <2>3 DEF CachedBook
  <2> QED BY <2>4, <2>5, DroppedIsCurrent
<1>5. ASSUME NEW t, IsTrade(t) PROVE BookCurrent(RecordTrade(b, t))
  <2>1. ASSUME NEW levels \in [Prices -> Nat] PROVE Reduced(levels, t.level, t.amount) \in [Prices -> Nat]
    <3>1. CASE t.level \in Prices
      <4>1. Higher(0, levels[t.level] - t.amount) \in Nat
        <5>1. levels[t.level] - t.amount \in Int
          BY <1>5, <3>1 DEF IsTrade
        <5> QED BY <5>1 DEF Higher
      <4> QED BY <3>1, <4>1 DEF Reduced
    <3>2. CASE t.level \notin Prices
      BY <3>2 DEF Reduced
    <3> QED BY <3>1, <3>2
  <2>2. ApplyTrade(b.levels, t.level, t.amount, t.side) \in Book
    <3>1. /\ Reduced(b.levels.asks, t.level, t.amount) \in [Prices -> Nat]
          /\ Reduced(b.levels.bids, t.level, t.amount) \in [Prices -> Nat]
      BY <1>2, <2>1
    <3> QED BY <1>2, <3>1 DEF ApplyTrade, Book
  <2> DEFINE c == [b EXCEPT !.levels = ApplyTrade(@, t.level, t.amount, t.side), !.last = t.level]
  <2>3. c \in CachedBook
    BY <1>1, <1>5, <2>2 DEF IsTrade, CachedBook
  <2>4. RecordTrade(b, t) = InvalidateCache(c)
    BY DEF RecordTrade
  <2> HIDE DEF c
  <2> QED BY <2>3, <2>4, DroppedIsCurrent
<1> QED BY <1>3, <1>4, <1>5

\* Every action keeps the lists current: each writes whole books, one of them at a time.
LEMMA BooksStep ==
  ASSUME DeliveryInv, BooksCurrent, [Next]_vars
  PROVE  BooksCurrent'
<1>1. ASSUME NEW x \in Exchanges, NEW b, BookCurrent(b), books' = [books EXCEPT ![x] = b]
      PROVE  BooksCurrent'
  <2>1. b \in CachedBook
    BY <1>1 DEF BookCurrent
  <2>2. /\ books' \in [Exchanges -> CachedBook] /\ books'[x] = b
        /\ \A y \in Exchanges : y # x => books'[y] = books[y]
    BY <1>1, <2>1 DEF BooksCurrent
  <2> QED BY <1>1, <2>2 DEF BooksCurrent
<1>2. ASSUME UNCHANGED books PROVE BooksCurrent'
  BY <1>2 DEF BooksCurrent
<1>3. \A x \in Exchanges : BookCurrent(books[x])
  BY DEF BooksCurrent
<1>4. CASE UserStep
  <2>1. ASSUME NEW x \in Exchanges, Query(x) PROVE BooksCurrent'
    BY <1>1, <1>3, <2>1, ReadsKeepCurrent DEF Query
  <2>2. ASSUME NEW x \in Exchanges, Fill(x) PROVE BooksCurrent'
    <3>1. PICK t \in Trades : books' = [books EXCEPT ![x] = RecordTrade(@, t)]
      BY <2>2 DEF Fill
    <3>2. IsTrade(t)
      BY SandboxAssumption
    <3>3. BookCurrent(RecordTrade(books[x], t))
      BY <1>3, <3>2, ChangesKeepCurrent
    <3> QED BY <1>1, <3>1, <3>3
  <2>3. ASSUME NEW x \in Exchanges, ChangeBook(x) PROVE BooksCurrent'
    <3>1. PICK d \in Diffs : books' = [books EXCEPT ![x] = ApplyDiffs(@, d)]
      BY <2>3 DEF ChangeBook
    <3>2. IsDiff(d)
      BY SandboxAssumption
    <3>3. BookCurrent(ApplyDiffs(books[x], d))
      BY <1>3, <3>2, ChangesKeepCurrent
    <3> QED BY <1>1, <3>1, <3>3
  <2>4. ASSUME NEW x \in Exchanges, Attach(x) PROVE BooksCurrent'
    BY <1>2, <2>4 DEF Attach
  <2>5. ASSUME NEW e \in EventIds, AddTrade(e) \/ AddSnapshot(e) \/ AddCandle(e) PROVE BooksCurrent'
    BY <1>2, <2>5 DEF AddTrade, AddSnapshot, AddCandle, AddEvents
  <2> QED BY <1>4, <2>1, <2>2, <2>3, <2>4, <2>5 DEF UserStep
<1>5. CASE ApplyEvent
  <2>1. PICK x \in Exchanges, e \in EventIds : x = Source /\ e = NextEvent
    BY <1>5, ApplyEventHears
  <2>2. books' = [books EXCEPT ![x] = ApplyReplayEvent(@, e)]
    BY <1>5, <2>1 DEF ApplyEvent
  <2>3. /\ KindOf[e] \in EventKinds
        /\ KindOf[e] = "SNAPSHOT" => DataOf[e] \in Book
        /\ KindOf[e] = "DIFF" => IsDiff(DataOf[e])
        /\ KindOf[e] = "TRADE" => IsTrade(DataOf[e])
    BY EventAssumption, SandboxAssumption
  <2>4. BookCurrent(ApplyReplayEvent(books[x], e))
    <3>1. BookCurrent(books[x])
      BY <1>3
    <3> QED BY <2>3, <3>1, ChangesKeepCurrent DEF ApplyReplayEvent, EventKinds
  <2> QED BY <1>1, <2>2, <2>4
<1>6. CASE Run \/ SortSource \/ SkipEvent \/ EndSource
  BY <1>2, <1>6 DEF Run, SortSource, SkipEvent, EndSource
<1>7. CASE EndReplay \/ BeginTick \/ ProcessTicks \/ EndTick \/ FinishRun \/ UNCHANGED vars
  BY <1>2, <1>7 DEF EndReplay, BeginTick, ProcessTicks, EndTick, FinishRun, vars
<1> QED BY <1>4, <1>5, <1>6, <1>7 DEF Next, EngineStep

\* For any recorded events, whatever user code queries, fills and changes: what a
\* kept list answers, a volume within a limit or the cost of an amount, is what
\* the levels would answer now (order_book.py:210-224).
THEOREM AnswersStayCurrent == Spec => []AnswersAreCurrent
<1>1. Init => DeliveryInv /\ BooksCurrent
  <2>1. Init => BooksCurrent
    <3> SUFFICES ASSUME Init PROVE BooksCurrent
      OBVIOUS
    <3>1. books = [x \in Exchanges |-> NewBook] /\ BookCurrent(NewBook) /\ NewBook \in CachedBook
      BY NewBookCurrent DEF Init, BookCurrent
    <3> QED BY <3>1 DEF BooksCurrent
  <2> QED BY <2>1, DeliveryInit
<1>2. DeliveryInv /\ BooksCurrent /\ [Next]_vars => DeliveryInv' /\ BooksCurrent'
  BY DeliveryStep, BooksStep
<1>3. BooksCurrent => AnswersAreCurrent
  <2> SUFFICES ASSUME BooksCurrent, NEW x \in Exchanges, NEW side \in WalkableSides(books[x])
               PROVE  /\ \A limit \in Prices :
                           VolumeWithin(WalkedList(books[x], side), side, limit)
                             = VolumeOnLevels(books[x].levels, side, limit)
                      /\ \A amount \in 1 .. 4 :
                           CostOfAmount(WalkedList(books[x], side), amount)
                             = CostOnLevels(books[x].levels, side, amount)
    BY Zenon DEF AnswersAreCurrent
  <2>1. BookCurrent(books[x]) /\ books[x].levels \in Book /\ side \in Sides /\ side \in {"BUY", "SELL"}
    BY DEF BooksCurrent, BookCurrent, CachedBook, WalkableSides, Sides
  <2>2. WalkedList(books[x], side) = KeptList(books[x].levels, side)
    BY <2>1 DEF BookCurrent, WalkedList, WalkableSides
  <2>3. ASSUME NEW limit \in Prices
        PROVE  VolumeWithin(WalkedList(books[x], side), side, limit)
                 = VolumeOnLevels(books[x].levels, side, limit)
    <3>1. limit \in Int
      BY DEF Prices
    <3> QED BY <2>1, <2>2, <3>1, VolumeIsCurrent
  <2>4. ASSUME NEW amount \in 1 .. 4
        PROVE  CostOfAmount(WalkedList(books[x], side), amount)
                 = CostOnLevels(books[x].levels, side, amount)
    <3>1. amount \in Nat
      OBVIOUS
    <3> QED BY <2>1, <2>2, <3>1, CostIsCurrent
  <2> QED BY <2>3, <2>4
<1> QED BY <1>1, <1>2, <1>3, PTL DEF Spec

-----------------------------------------------------------------------------
(* The files of snapshots. *)

\* The places that the entries of a snapshot are taken from, in their order.
KeptRows(rows, t, side) == Ranked(RowsAt(rows, t, side), LAMBDA i, j : i < j)

\* They are the rows of that time and side, each taken once.
LEMMA KeptRowsOnce ==
  ASSUME NEW rows, IsFile(rows), NEW t, NEW side
  PROVE  LET P == RowsAt(rows, t, side)
             n == Cardinality(P)
             e == KeptRows(rows, t, side)
         IN  /\ n \in Nat /\ e \in [1 .. n -> P]
             /\ \A i, j \in 1 .. n : e[i] = e[j] => i = j
             /\ \A x \in P : \E i \in 1 .. n : e[i] = x
<1> DEFINE P == RowsAt(rows, t, side)
<1>1. DOMAIN rows = 1 .. Len(rows) /\ Len(rows) \in Nat
  BY DEF IsFile
<1>2. P \subseteq 1 .. Len(rows)
  BY <1>1 DEF RowsAt
<1> HIDE DEF P
<1>3. IsFiniteSet(1 .. Len(rows))
  BY <1>1, FS_Interval
<1>4. IsFiniteSet(P)
  BY <1>2, <1>3, FS_Subset
<1>5. P \in SUBSET Nat
  BY <1>1, <1>2
<1> QED BY <1>4, <1>5, AscendingOnce DEF KeptRows, P

\* The entry at a place of a snapshot is the row it was taken from.
LEMMA EntryIsRow ==
  ASSUME NEW rows, NEW t, NEW side \in {"bid", "ask"},
         NEW k \in 1 .. Cardinality(RowsAt(rows, t, side))
  PROVE  EntryAt(SnapshotAt(rows, t, ""), <<side, k>>) = rows[KeptRows(rows, t, side)[k]]
<1> DEFINE s == SnapshotAt(rows, t, "")
           entries(d) == Entries(rows, RowsAt(rows, t, d))
<1>1. s.bids = entries("bid") /\ s.asks = entries("ask")
  BY DEF SnapshotAt
<1>2. entries(side)[k] = rows[KeptRows(rows, t, side)[k]]
  BY DEF Entries, KeptRows
<1>3. EntryAt(s, <<side, k>>) = IF side = "bid" THEN s.bids[k] ELSE s.asks[k]
  BY DEF EntryAt
<1> HIDE DEF s, entries
<1> QED BY <1>1, <1>2, <1>3 DEF s

\* u is the place k on a side of the snapshot of time t.
IsSlot(rows, u, t, side, k) ==
  /\ side \in {"bid", "ask"} /\ k \in 1 .. Cardinality(RowsAt(rows, t, side))
  /\ u = <<SnapshotAt(rows, t, ""), <<side, k>>>>

\* The places of the entries of one snapshot.
LEMMA SlotsOfTime ==
  ASSUME NEW rows, NEW t
  PROVE  Slots(SnapshotAt(rows, t, ""))
           = {<<"bid", k>> : k \in 1 .. Cardinality(RowsAt(rows, t, "bid"))}
               \cup {<<"ask", k>> : k \in 1 .. Cardinality(RowsAt(rows, t, "ask"))}
<1> DEFINE s == SnapshotAt(rows, t, "")
<1>1. /\ s.bids = Entries(rows, RowsAt(rows, t, "bid"))
      /\ s.asks = Entries(rows, RowsAt(rows, t, "ask"))
  BY DEF SnapshotAt
<1>2. /\ DOMAIN s.bids = 1 .. Cardinality(RowsAt(rows, t, "bid"))
      /\ DOMAIN s.asks = 1 .. Cardinality(RowsAt(rows, t, "ask"))
  BY <1>1 DEF Entries
<1> HIDE DEF s
<1> QED BY <1>2 DEF Slots, s

\* The places of the entries of all the snapshots made of a file.
LEMMA SlotsOfFile ==
  ASSUME NEW rows
  PROVE  /\ \A u \in SlotsOfAll(LoadSnapshots(rows, "")) :
              \E t \in RowTimes(rows) : \E side, k : IsSlot(rows, u, t, side, k)
         /\ \A t \in RowTimes(rows) : \A u, side, k :
              IsSlot(rows, u, t, side, k) => u \in SlotsOfAll(LoadSnapshots(rows, ""))
<1> DEFINE loaded == LoadSnapshots(rows, "")
<1>1. ASSUME NEW u \in SlotsOfAll(loaded)
      PROVE  \E t \in RowTimes(rows) : \E side, k : IsSlot(rows, u, t, side, k)
  <2>1. PICK s \in loaded : \E slot \in Slots(s) : u = <<s, slot>>
    <3> HIDE DEF loaded
    <3> QED BY DEF SlotsOfAll
  <2>2. PICK t \in RowTimes(rows) : s = SnapshotAt(rows, t, "")
    BY DEF LoadSnapshots
  <2>3. PICK slot \in Slots(s) : u = <<s, slot>>
    BY <2>1
  <2> DEFINE Bids == {<<"bid", k>> : k \in 1 .. Cardinality(RowsAt(rows, t, "bid"))}
             Asks == {<<"ask", k>> : k \in 1 .. Cardinality(RowsAt(rows, t, "ask"))}
  <2>4. Slots(s) = Bids \cup Asks
    BY <2>2, SlotsOfTime
  <2>5. CASE slot \in Bids
    <3>1. PICK k \in 1 .. Cardinality(RowsAt(rows, t, "bid")) : slot = <<"bid", k>>
      BY <2>5
    <3> QED BY <2>2, <2>3, <3>1 DEF IsSlot
  <2>6. CASE slot \in Asks
    <3>1. PICK k \in 1 .. Cardinality(RowsAt(rows, t, "ask")) : slot = <<"ask", k>>
      BY <2>6
    <3> QED BY <2>2, <2>3, <3>1 DEF IsSlot
  <2> HIDE DEF Bids, Asks
  <2> QED BY <2>4, <2>5, <2>6
<1>2. ASSUME NEW t \in RowTimes(rows), NEW u, NEW side, NEW k, IsSlot(rows, u, t, side, k)
      PROVE  u \in SlotsOfAll(loaded)
  <2> DEFINE s == SnapshotAt(rows, t, "")
  <2>1. s \in loaded
    BY DEF LoadSnapshots
  <2>2. <<side, k>> \in Slots(s)
    BY <1>2, SlotsOfTime, ZenonT(30) DEF IsSlot
  <2>3. u = <<s, <<side, k>>>>
    BY <1>2 DEF IsSlot
  <2> HIDE DEF s, loaded
  <2> QED BY <2>1, <2>2, <2>3 DEF SlotsOfAll
<1> QED BY <1>1, <1>2

\* The row that the entry at a place comes from.
SourceRow(rows, u) == KeptRows(rows, u[1].time, u[2][1])[u[2][2]]

\* It is a row of the time of the snapshot and of that side, and the entry.
LEMMA SlotHoldsRow ==
  ASSUME NEW rows, IsFile(rows), NEW u, NEW t, NEW side, NEW k, IsSlot(rows, u, t, side, k)
  PROVE  /\ u[1].time = t /\ u[2][1] = side
         /\ SourceRow(rows, u) = KeptRows(rows, t, side)[k]
         /\ SourceRow(rows, u) \in RowsAt(rows, t, side)
         /\ EntryAt(u[1], u[2]) = rows[SourceRow(rows, u)]
<1>1. SnapshotAt(rows, t, "").time = t
  BY DEF SnapshotAt
<1>2. u[1] = SnapshotAt(rows, t, "") /\ u[2] = <<side, k>> /\ u[2][1] = side /\ u[2][2] = k
  BY DEF IsSlot
<1>3. SourceRow(rows, u) = KeptRows(rows, t, side)[k]
  BY <1>1, <1>2 DEF SourceRow
<1>4. KeptRows(rows, t, side)[k] \in RowsAt(rows, t, side)
  <2>1. k \in 1 .. Cardinality(RowsAt(rows, t, side))
    BY DEF IsSlot
  <2>2. KeptRows(rows, t, side) \in [1 .. Cardinality(RowsAt(rows, t, side)) -> RowsAt(rows, t, side)]
    BY KeptRowsOnce
  <2> QED BY <2>1, <2>2
<1>5. EntryAt(SnapshotAt(rows, t, ""), <<side, k>>) = rows[KeptRows(rows, t, side)[k]]
  BY EntryIsRow DEF IsSlot
<1> QED BY <1>1, <1>2, <1>3, <1>4, <1>5

\* A time that rows have has a first row.
LEMMA FirstIsRow ==
  ASSUME NEW rows, IsFile(rows), NEW t \in RowTimes(rows)
  PROVE  FirstAt(rows, t) \in DOMAIN rows
<1> DEFINE S == {j \in DOMAIN rows : rows[j].time = t}
<1>1. DOMAIN rows = 1 .. Len(rows) /\ Len(rows) \in Nat
  <2> DEFINE R == {rows[i] : i \in DOMAIN rows}
  <2>1. rows \in Seq(R)
    BY DEF IsFile
  <2> HIDE DEF R
  <2> QED BY <2>1
<1>2. S \in SUBSET Nat
  BY <1>1
<1>3. S # {}
  BY DEF RowTimes
<1>4. PICK j \in S : \A m \in S : j <= m
  <2> HIDE DEF S
  <2> QED BY <1>2, <1>3, LeastPicks
<1>5. ASSUME NEW m \in 1 .. j - 1 PROVE rows[m].time # t
  <2>1. m \in DOMAIN rows /\ ~(j <= m)
    BY <1>1
  <2>2. m \notin S
    BY <1>4, <2>1
  <2> QED BY <2>1, <2>2
<1>6. j \in DOMAIN rows /\ rows[j].time = t
  OBVIOUS
<1> HIDE DEF S
<1> QED BY <1>5, <1>6 DEF FirstAt

\* Whatever rows a file has, it loads whole.
LEMMA FileLoads ==
  ASSUME NEW rows, IsFile(rows)
  PROVE  LoadsWhole(rows)
<1> DEFINE loaded == LoadSnapshots(rows, "")
           slots == SlotsOfAll(loaded)
           row == [u \in slots |-> SourceRow(rows, u)]
<1>1. ASSUME NEW u \in slots
      PROVE  \E t \in RowTimes(rows) : \E side, k : IsSlot(rows, u, t, side, k)
  BY SlotsOfFile
<1>2. ASSUME NEW t \in RowTimes(rows), NEW u, NEW side, NEW k, IsSlot(rows, u, t, side, k)
      PROVE  u \in slots /\ row[u] = KeptRows(rows, t, side)[k]
  <2>1. u \in slots
    BY <1>2, SlotsOfFile
  <2> HIDE DEF slots
  <2> QED BY <1>2, <2>1, SlotHoldsRow
<1>3. \A u \in slots : row[u] = SourceRow(rows, u)
  OBVIOUS
<1> HIDE DEF slots, loaded
<1>4. ASSUME NEW u \in slots
      PROVE  /\ row[u] \in DOMAIN rows
             /\ EntryAt(u[1], u[2]) = rows[row[u]]
             /\ rows[row[u]].time = u[1].time
             /\ rows[row[u]].side = u[2][1]
  <2>1. PICK t, side, k : IsSlot(rows, u, t, side, k)
    BY <1>1
  <2> QED BY <1>3, <2>1, SlotHoldsRow DEF RowsAt
<1>5. row \in [slots -> DOMAIN rows]
  BY <1>4
<1> HIDE DEF row
<1>6. ASSUME NEW u \in slots, NEW v \in slots, row[u] = row[v] PROVE u = v
  <2>1. PICK t, side, k : IsSlot(rows, u, t, side, k)
    BY <1>1
  <2>2. PICK t2, side2, k2 : IsSlot(rows, v, t2, side2, k2)
    BY <1>1
  <2>3. /\ row[u] = KeptRows(rows, t, side)[k] /\ row[u] \in RowsAt(rows, t, side)
        /\ row[v] = KeptRows(rows, t2, side2)[k2] /\ row[v] \in RowsAt(rows, t2, side2)
    BY <1>3, <2>1, <2>2, SlotHoldsRow
  <2>4. t = t2 /\ side = side2
    BY <1>6, <2>3 DEF RowsAt
  <2>5. k \in 1 .. Cardinality(RowsAt(rows, t, side)) /\ k2 \in 1 .. Cardinality(RowsAt(rows, t, side))
    BY <2>1, <2>2, <2>4 DEF IsSlot
  <2>6. k = k2
    BY <1>6, <2>3, <2>4, <2>5, KeptRowsOnce
  <2> QED BY <2>1, <2>2, <2>4, <2>6 DEF IsSlot
<1>7. ASSUME NEW i \in DOMAIN rows PROVE \E u \in slots : row[u] = i
  <2> DEFINE t == rows[i].time
             side == rows[i].side
  <2>1. t \in RowTimes(rows) /\ side \in {"bid", "ask"} /\ i \in RowsAt(rows, t, side)
    BY DEF RowsAt, RowTimes, IsFile
  <2> HIDE DEF t, side
  <2>2. PICK k \in 1 .. Cardinality(RowsAt(rows, t, side)) : KeptRows(rows, t, side)[k] = i
    BY <2>1, KeptRowsOnce
  <2> DEFINE u == <<SnapshotAt(rows, t, ""), <<side, k>>>>
  <2>3. IsSlot(rows, u, t, side, k)
    BY <2>1 DEF IsSlot
  <2> HIDE DEF u
  <2>4. u \in slots /\ row[u] = KeptRows(rows, t, side)[k]
    BY <1>2, <2>1, <2>3
  <2> QED BY <2>2, <2>4
<1>8. ASSUME NamesOnePair(rows), NEW s \in loaded, NEW i \in DOMAIN rows
      PROVE  s.pair = rows[i].pair
  <2>1. PICK t \in RowTimes(rows) : s = SnapshotAt(rows, t, "")
    BY DEF LoadSnapshots, loaded
  <2>2. FirstAt(rows, t) \in DOMAIN rows
    BY FirstIsRow
  <2>3. s.pair = rows[FirstAt(rows, t)].pair
    BY <2>1 DEF SnapshotAt
  <2> QED BY <1>8, <2>2, <2>3 DEF NamesOnePair
<1>9. Matches(rows, slots, row)
  BY <1>4, <1>6, <1>7 DEF Matches
<1> QED BY <1>5, <1>8, <1>9 DEF LoadsWhole, slots, loaded

\* Every snapshot file becomes what LoadsWhole says, however many rows, times
\* and pairs it has and in whatever order (data_loader.py:74-97): FilesLoad is
\* an invariant for every set of files.
THEOREM FilesLoadWhole == Spec => []FilesLoad
<1>1. \A rows \in Files : LoadsWhole(rows)
  BY SandboxAssumption, FileLoads
<1>2. FilesLoad
  BY <1>1 DEF FilesLoad
<1> QED BY <1>2, PTL

=============================================================================
