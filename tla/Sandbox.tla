------------------------------- MODULE Sandbox -------------------------------
(***************************************************************************)
(* hb_compat/sandbox_engine.py with the sources, cursors, clock and books  *)
(* it drives; the orders matched in a tick are only what they take off a   *)
(* book (Simulation has them whole).                                       *)
(*                                                                         *)
(* A run is a loop of three steps per tick: replay, on_tick, process_tick. *)
(* User code runs between runs, in on_tick and, through the listeners of   *)
(* the exchanges, while orders are matched; there it may add events to a   *)
(* source, attach a source, query a book or change it.                     *)
(***************************************************************************)
EXTENDS Replay, CachedBook

CONSTANTS
  Exchanges,
  DataOf,          \* the Book of a snapshot, the trade of a TRADE
  OwnerOf,         \* the exchange an event was recorded at
  SnapshotOf,      \* the snapshot add_candles makes of a candle
  ConfigStart, ConfigEnd, TickInterval,   \* SandboxConfig
  Traded,          \* bound: the exchanges whose books user code touches
  Trades,          \* what fills may take off a book
  Diffs,           \* the diffs user code may apply to a book
  Files,           \* the snapshot files a run may load before it adds events
  MaxRuns          \* bound: calls of run()

ASSUME SandboxAssumption ==
  /\ OwnerOf \in [EventIds -> Exchanges]
  /\ SnapshotOf \in [{e \in EventIds : KindOf[e] = "CANDLE"} -> {e \in EventIds : KindOf[e] = "SNAPSHOT"}]
  /\ \A e \in DOMAIN SnapshotOf :
       OwnerOf[SnapshotOf[e]] = OwnerOf[e] /\ TimeOf[SnapshotOf[e]] = TimeOf[e]
  /\ \A e \in EventIds : /\ KindOf[e] = "SNAPSHOT" => DataOf[e] \in Book
                         /\ KindOf[e] = "DIFF" => IsDiff(DataOf[e])
                         /\ KindOf[e] = "TRADE" => IsTrade(DataOf[e])
  /\ (\A t \in Trades : IsTrade(t)) /\ (\A d \in Diffs : IsDiff(d))
  /\ \A rows \in Files : IsFile(rows)
  /\ ConfigStart \in Nat /\ ConfigEnd \in Nat /\ TickInterval \in Nat \ {0}
  /\ MaxRuns \in Nat

VARIABLES
  events,     \* _events of the source of each exchange
  sorted,     \* _sorted of each source
  attached,   \* _replay_sources, in the order of the dict
  range,      \* start_timestamp and end_timestamp of the configuration
  clock,      \* _clock.current_time
  cursor,     \* _replay_cursors, BeforeAll where the dict has no key
  replayed,   \* _events_replayed
  books,      \* the order book of each exchange
  phase,      \* where run() is
  span,       \* its locals start and end
  timestamp,  \* its local timestamp
  ticks,      \* its local ticks
  todo,       \* the exchanges _apply_events_up_to has left
  position,   \* the event it has reached in the source of the first of them
  runs,       \* calls of run() so far
  heard,      \* history: the events applied in this run
  base,       \* history: the cursors when this run began
  late        \* history: the events added in this run at or before a cursor

sourceVars == <<events, sorted, attached, range, clock>>
replayVars == <<cursor, replayed, todo, position, heard>>
runVars == <<phase, span, timestamp, ticks, runs, base>>
vars == <<sourceVars, replayVars, runVars, books, late>>

BeforeAll == -1

Phases == {"setup", "initialize", "loop", "replay", "callback", "matching", "done"}

Init ==
  /\ events = [x \in Exchanges |-> << >>]
  /\ sorted = [x \in Exchanges |-> FALSE]
  /\ attached = << >>
  /\ range = [start |-> ConfigStart, end |-> ConfigEnd]
  /\ clock = ConfigStart
  /\ cursor = [x \in Exchanges |-> BeforeAll]
  /\ replayed = 0
  /\ books = [x \in Exchanges |-> NewBook]
  /\ phase = "setup"
  /\ span = range
  /\ timestamp = 0
  /\ ticks = 0
  /\ todo = << >>
  /\ position = 1
  /\ runs = 0
  /\ heard = [x \in Exchanges |-> << >>]
  /\ base = cursor
  /\ late = {}

-----------------------------------------------------------------------------
UserRuns == phase \in {"setup", "callback", "matching", "done"}

Elements(list) == {list[i] : i \in DOMAIN list}

Added == UNION {Elements(events[x]) : x \in Exchanges}

Sources == Elements(attached)

\* Wrong variant, never used: a source that was read is taken to stay sorted.
AppendEvents(x, new) ==
  /\ events' = [events EXCEPT ![x] = @ \o new]
  /\ late' = late \cup {e \in Elements(new) : TimeOf[e] <= cursor[x]}
  /\ UNCHANGED <<sorted, attached, range, clock, replayVars, runVars, books>>

\* What the three adders share.
AddEvents(x, new) ==
  /\ events' = [events EXCEPT ![x] = @ \o new]
  /\ sorted' = [sorted EXCEPT ![x] = FALSE]
  /\ late' = late \cup {e \in Elements(new) : TimeOf[e] <= cursor[x]}
  /\ UNCHANGED <<attached, range, clock, replayVars, runVars, books>>

New(e, kind) == e \notin Added /\ KindOf[e] = kind

AddTrade(e) == UserRuns /\ New(e, "TRADE") /\ AddEvents(OwnerOf[e], <<e>>)

AddSnapshot(e) == UserRuns /\ New(e, "SNAPSHOT") /\ AddEvents(OwnerOf[e], <<e>>)

\* add_candles appends the candle and, if asked to, a snapshot made of it.
AddCandle(e) ==
  /\ UserRuns
  /\ New(e, "CANDLE")
  /\ \/ AddEvents(OwnerOf[e], <<e>>)
     \/ /\ SnapshotOf[e] \notin Added
        /\ AddEvents(OwnerOf[e], <<e, SnapshotOf[e]>>)

Sort(x) ==
  \E p \in Sortings(events[x]) :
    /\ events' = [events EXCEPT ![x] = Rearranged(@, p)]
    /\ sorted' = [sorted EXCEPT ![x] = TRUE]

Configured == range.start # 0 \/ range.end # 0

\* time_range of the source becomes the range of the configuration.
DetectRange(x) ==
  /\ Sort(x)
  /\ range' = [start |-> TimeOf[events'[x][1]], end |-> TimeOf[events'[x][Len(events[x])]]]
  /\ clock' = range'.start

\* add_replay_data: the first source with events sets a range nobody configured.
Attach(x) ==
  /\ UserRuns
  /\ attached' = IF x \in Sources THEN attached ELSE Append(attached, x)
  /\ \/ ~Configured /\ events[x] # << >> /\ DetectRange(x)
     \/ (Configured \/ events[x] = << >>) /\ UNCHANGED <<events, sorted, range, clock>>
  /\ UNCHANGED <<replayVars, runVars, books, late>>

Query(x) ==
  /\ UserRuns /\ x \in Traded
  /\ \/ books' = [books EXCEPT ![x] = ReadBids(@)]
     \/ books' = [books EXCEPT ![x] = ReadAsks(@)]
  /\ UNCHANGED <<sourceVars, replayVars, runVars, late>>

\* A fill takes its amount off a book: of a market order in on_tick, of the
\* other orders in process_tick.
Fill(x) ==
  /\ phase \in {"callback", "matching"} /\ x \in Traded
  /\ \E t \in Trades : books' = [books EXCEPT ![x] = RecordTrade(@, t)]
  /\ UNCHANGED <<sourceVars, replayVars, runVars, late>>

ChangeBook(x) ==
  /\ UserRuns /\ x \in Traded
  /\ \E d \in Diffs : books' = [books EXCEPT ![x] = ApplyDiffs(@, d)]
  /\ UNCHANGED <<sourceVars, replayVars, runVars, late>>

UserStep ==
  \/ \E e \in EventIds : AddTrade(e) \/ AddSnapshot(e) \/ AddCandle(e)
  \/ \E x \in Exchanges : Attach(x) \/ Query(x) \/ Fill(x) \/ ChangeBook(x)

-----------------------------------------------------------------------------
\* run() is called: initialize() applies what lies at or before the start.
Run ==
  /\ phase \in {"setup", "done"}
  /\ runs < MaxRuns
  /\ runs' = runs + 1
  /\ phase' = "initialize"
  /\ span' = range
  /\ timestamp' = range.start
  /\ ticks' = 0
  /\ todo' = attached
  /\ position' = 1
  /\ heard' = [x \in Exchanges |-> << >>]
  /\ base' = cursor
  /\ late' = {}
  /\ UNCHANGED <<sourceVars, cursor, replayed, books>>

Replaying == phase \in {"initialize", "replay"} /\ todo # << >>

Source == Head(todo)

\* events() sorts a source that has changed since it was last read.
SortSource ==
  /\ Replaying
  /\ ~sorted[Source]
  /\ Sort(Source)
  /\ UNCHANGED <<attached, range, clock, replayVars, runVars, books, late>>

Within == position <= Len(events[Source]) /\ TimeOf[events[Source][position]] <= timestamp

NextEvent == events[Source][position]

SkipEvent ==
  /\ Replaying /\ sorted[Source] /\ Within
  /\ TimeOf[NextEvent] <= cursor[Source]
  /\ position' = position + 1
  /\ UNCHANGED <<sourceVars, runVars, cursor, replayed, todo, heard, books, late>>

\* apply_replay_event: a candle changes no book.
ApplyReplayEvent(b, e) ==
  CASE KindOf[e] = "SNAPSHOT" -> ApplySnapshot(b, DataOf[e])
    [] KindOf[e] = "DIFF"     -> ApplyDiffs(b, DataOf[e])
    [] KindOf[e] = "TRADE"    -> RecordTrade(b, DataOf[e])
    [] KindOf[e] = "CANDLE"   -> b

ApplyEvent ==
  /\ Replaying /\ sorted[Source] /\ Within
  /\ TimeOf[NextEvent] > cursor[Source]
  /\ books' = [books EXCEPT ![Source] = ApplyReplayEvent(@, NextEvent)]
  /\ heard' = [heard EXCEPT ![Source] = Append(@, NextEvent)]
  /\ replayed' = replayed + 1
  /\ position' = position + 1
  /\ UNCHANGED <<sourceVars, runVars, cursor, todo, late>>

\* Wrong variant, never used: the cursor is moved to the end of the run.
EndSourceAtSpan ==
  /\ Replaying /\ sorted[Source] /\ ~Within
  /\ cursor' = [cursor EXCEPT ![Source] = span.end]
  /\ todo' = Tail(todo)
  /\ position' = 1
  /\ UNCHANGED <<sourceVars, runVars, replayed, heard, books, late>>

\* The loop over a source ends and its cursor moves to the timestamp.
EndSource ==
  /\ Replaying /\ sorted[Source] /\ ~Within
  /\ cursor' = [cursor EXCEPT ![Source] = timestamp]
  /\ todo' = Tail(todo)
  /\ position' = 1
  /\ UNCHANGED <<sourceVars, runVars, replayed, heard, books, late>>

ReplayedAll == phase \in {"initialize", "replay"} /\ todo = << >>

EndReplay ==
  /\ ReplayedAll
  /\ phase' = IF phase = "initialize" THEN "loop" ELSE "callback"
  /\ UNCHANGED <<sourceVars, replayVars, books, late, span, timestamp, ticks, runs, base>>

BeginTick ==
  /\ phase = "loop"
  /\ timestamp <= span.end
  /\ phase' = "replay"
  /\ todo' = attached
  /\ UNCHANGED <<sourceVars, cursor, replayed, position, heard, books, late,
                 span, timestamp, ticks, runs, base>>

\* on_tick returns, and process_tick of every exchange is called.
ProcessTicks ==
  /\ phase = "callback"
  /\ phase' = "matching"
  /\ UNCHANGED <<sourceVars, replayVars, books, late, span, timestamp, ticks, runs, base>>

\* Wrong variant, never used: the last tick of the range is run again and again.
EndTickAtEnd ==
  /\ phase = "matching"
  /\ phase' = "loop"
  /\ \/ /\ timestamp + TickInterval <= span.end
        /\ ticks' = ticks + 1
        /\ timestamp' = timestamp + TickInterval
     \/ /\ timestamp + TickInterval > span.end
        /\ UNCHANGED <<ticks, timestamp>>
  /\ UNCHANGED <<sourceVars, replayVars, books, late, span, runs, base>>

EndTick ==
  /\ phase = "matching"
  /\ phase' = "loop"
  /\ ticks' = ticks + 1
  /\ timestamp' = timestamp + TickInterval
  /\ UNCHANGED <<sourceVars, replayVars, books, late, span, runs, base>>

\* Wrong variant, never used: the end of the range is left out of it.
FinishRunAtEnd ==
  /\ phase = "loop"
  /\ timestamp >= span.end
  /\ phase' = "done"
  /\ UNCHANGED <<sourceVars, replayVars, books, late, span, timestamp, ticks, runs, base>>

FinishRun ==
  /\ phase = "loop"
  /\ timestamp > span.end
  /\ phase' = "done"
  /\ UNCHANGED <<sourceVars, replayVars, books, late, span, timestamp, ticks, runs, base>>

EngineStep ==
  \/ SortSource
  \/ SkipEvent
  \/ ApplyEvent
  \/ EndSource
  \/ EndReplay
  \/ BeginTick
  \/ ProcessTicks
  \/ EndTick
  \/ FinishRun

Next == UserStep \/ Run \/ EngineStep

Spec == Init /\ [][Next]_vars

\* A run that has been called goes on, and what it calls returns.
Fairness == WF_vars(EngineStep)

FairSpec == Spec /\ Fairness

-----------------------------------------------------------------------------
(* Properties *)

Delivery == INSTANCE EventDelivery WITH horizon <- timestamp

\* Every exchange is given what EventDelivery promises, whatever user code
\* adds to the sources while the run reads them.
DeliversInOrder == Delivery!Spec

\* The events a run has to have applied when it has replayed up to timestamp:
\* those the cursors it began with had not passed, or that lie after its
\* start, except the ones that were added when the cursor had passed them.
Due(x) ==
  {e \in Elements(events[x]) :
     /\ TimeOf[e] <= timestamp
     /\ TimeOf[e] > base[x] \/ TimeOf[e] > span.start
     /\ e \notin late}

\* Replay leaves out no event that was there in time and repeats none that
\* another run applied, except those after the start, which a run called
\* again applies again (sandbox_engine.py:243-257).
NothingMissed == ReplayedAll => \A x \in Sources : Elements(heard[x]) = Due(x)

WalkableSides(b) ==
  {s \in Sides : (s = "BUY" /\ b.sortedAsks # NoCache) \/ (s = "SELL" /\ b.sortedBids # NoCache)}

\* What an order of this side and amount takes of each level, best first.
TakenAt(book, side, amount) ==
  [p \in Prices |-> Higher(0, Lower(Opposite(book, side)[p], amount - Ahead(book, side, p)))]

CostOnLevels(book, side, amount) ==
  IF Total(Opposite(book, side), MaxPrice) < amount THEN NoPrice
  ELSE Total([p \in Prices |-> p * TakenAt(book, side, amount)[p]], MaxPrice)

VolumeOnLevels(book, side, limit) ==
  Total([p \in Prices |-> IF Beyond(p, side, limit) THEN 0 ELSE Opposite(book, side)[p]], MaxPrice)

\* Whatever a kept list answers is what the levels would answer now: no list
\* outlives a snapshot, a diff, a trade or a fill (order_book.py:210-224).
AnswersAreCurrent ==
  \A x \in Exchanges : \A side \in WalkableSides(books[x]) :
    LET list == WalkedList(books[x], side)
    IN  /\ \A limit \in Prices :
             VolumeWithin(list, side, limit) = VolumeOnLevels(books[x].levels, side, limit)
        /\ \A amount \in 1 .. 4 :
             CostOfAmount(list, amount) = CostOnLevels(books[x].levels, side, amount)

\* Whatever user code does to the range meanwhile, the time of a tick is counted
\* by run() alone and lies in the range the run began with, which is walked to
\* its end, or not at all when only its start was configured
\* (sandbox_engine.py:213-229).
TicksAreCounted ==
  /\ phase \in {"replay", "callback", "matching"} =>
       timestamp = span.start + ticks * TickInterval /\ timestamp <= span.end
  /\ phase = "done" =>
       ticks = IF span.start > span.end THEN 0 ELSE 1 + (span.end - span.start) \div TickInterval

\* No event is applied more than once, over all the runs of an engine: its
\* cursors are there to "avoid re-applying events" (sandbox_engine.py:131).
NoEventReplayedTwice == replayed <= Cardinality(Added)

Running == phase \notin {"setup", "done"}

TimeLeft == Higher(0, span.end + 1 - timestamp)

\* How many stages of a tick may follow.
StageRank ==
  [setup |-> 0, initialize |-> 4, loop |-> 3, replay |-> 2, callback |-> 1, matching |-> 0, done |-> 0]

Unsorted == IF todo = << >> \/ sorted[Source] THEN 0 ELSE 1

EventsLeft == IF todo = << >> THEN 0 ELSE Len(events[Source]) + 1 - position

\* What a run still has to do, the longest part first.
Left == <<TimeLeft, StageRank[phase], Len(todo), Unsorted, EventsLeft>>

\* One tuple of numbers comes before another in the order of dictionaries.
LexLess(u, v) == \E i \in 1 .. 5 : u[i] < v[i] /\ \A j \in 1 .. i - 1 : u[j] = v[j]

\* Every step of run() leaves it less to do, in an order that has no infinite
\* descent, and nothing that user code does while it runs gives it more: no
\* event, source or range added in on_tick or in a listener puts off the end
\* (sandbox_engine.py:201-229).
RunMakesHeadway ==
  [][Running => /\ Left \in [1 .. 5 -> Nat]
                /\ IF EngineStep THEN LexLess(Left', Left) ELSE Left' = Left]_vars

\* A run reaches its end, whatever user code does in on_tick and in listeners.
RunEnds == Running ~> phase = "done"

\* The places of a loaded snapshot's entries.
Slots(s) == {<<"bid", k>> : k \in DOMAIN s.bids} \cup {<<"ask", k>> : k \in DOMAIN s.asks}

SlotsOfAll(loaded) == UNION {{<<s, slot>> : slot \in Slots(s)} : s \in loaded}

EntryAt(s, slot) == IF slot[1] = "bid" THEN s.bids[slot[2]] ELSE s.asks[slot[2]]

\* The entries are the rows, one for one, each in a snapshot of its time and on
\* its side.
Matches(rows, slots, row) ==
  /\ \A u, v \in slots : row[u] = row[v] => u = v
  /\ \A i \in DOMAIN rows : \E u \in slots : row[u] = i
  /\ \A u \in slots : /\ EntryAt(u[1], u[2]) = rows[row[u]]
                     /\ rows[row[u]].time = u[1].time
                     /\ rows[row[u]].side = u[2][1]

NamesOnePair(rows) == \A i, j \in DOMAIN rows : rows[i].pair = rows[j].pair

LoadsWhole(rows) ==
  LET loaded == LoadSnapshots(rows, "")
      slots  == SlotsOfAll(loaded)
  IN  /\ \E row \in [slots -> DOMAIN rows] : Matches(rows, slots, row)
      /\ NamesOnePair(rows) => \A s \in loaded, i \in DOMAIN rows : s.pair = rows[i].pair

\* No row of a file is lost or used twice, whatever times, pairs and sides its
\* rows have in whatever order; and rows that all name one pair make no
\* snapshot of another (data_loader.py:84-97). The loader reads none of the
\* variables: what it makes of a file is looked at before anything is added.
FilesLoad == phase = "setup" /\ Added = {} => \A rows \in Files : LoadsWhole(rows)
=============================================================================
