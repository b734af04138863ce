---------------------------- MODULE ConnectorProofs ----------------------------
(***************************************************************************)
(* What the connector tells the framework's tracker, when the framework    *)
(* names orders as the exchange does: for any exchange, any requests and   *)
(* any other users of the exchange.                                        *)
(***************************************************************************)
EXTENDS Connector, RecordProofs

connVars == <<vars, connectorVars>>

TrackerStates ==
  {"untracked", "tracked", "OPEN", "PARTIALLY_FILLED", "FILLED", "CANCELED", "FAILED"}

Entry == [state : TrackerStates, executed : Int]

ConnectorType == tracker \in [Names -> Entry] /\ nameOf \in [OrderIds -> 0 .. MaxOrders]

\* An order goes by its own number or has no name, and the tracker has an entry
\* for it if it has one; nothing is executed of a name that was not given.
NamesSound ==
  \A id \in OrderIds :
    /\ nameOf[id] \in {0, id}
    /\ id > counter => nameOf[id] = 0
    /\ Tracked(id) <=> nameOf[id] = id
    /\ ~Tracked(id) => tracker[id].executed = 0

\* Of a stop that has fired the tracker has a cancelled order without fills.
FiredIsCancelled ==
  \A id \in OrderIds :
    lastEvent[id] = "triggered" /\ nameOf[id] # 0 =>
      tracker[id] = [state |-> "CANCELED", executed |-> 0]

ChildrenNameless == \A id \in OrderIds : childOf[id] # 0 => nameOf[childOf[id]] = 0

TrackerSide ==
  ConnectorType /\ NamesSound /\ TrackerHearsFills /\ FiredIsCancelled /\ ChildrenNameless

HearInv == CallInv /\ StopsUnfilled /\ TrackerSide

-----------------------------------------------------------------------------
\* The numbers of the exchange are names, and 0 is not.
LEMMA IdsAreNames ==
  /\ OrderIds \subseteq Names /\ OrderIds \subseteq 1 .. MaxOrders /\ 0 \notin OrderIds
  /\ MaxOrders \in Nat
BY ExchangeAssumption DEF OrderIds, Names

\* Every step of the connector is a step of the exchange or leaves it alone.
LEMMA ConnectorStepsExchange ==
  ASSUME [ConnectorNext]_connVars
  PROVE  [Next]_vars
<1>1. ASSUME NEW r \in Requests, Submit(r) PROVE [Next]_vars
  BY <1>1 DEF Submit, Next
<1>2. ASSUME NEW r \in Requests, SubmitUnmapped(r) PROVE [Next]_vars
  BY <1>2 DEF SubmitUnmapped
<1>3. ASSUME NEW name \in Names, PlaceCancel(name) PROVE [Next]_vars
  <2>1. CASE IsOpen(OrderNamed(name)) /\ Cancel(name)
    <3>1. name \in OrderIds
      BY <2>1 DEF OrderNamed, NoOrder, IsOpen
    <3> QED BY <2>1, <3>1 DEF Next
  <2> QED BY <1>3, <2>1 DEF PlaceCancel
<1>4. ASSUME NEW name \in Names, RequestOrderStatus(name) PROVE [Next]_vars
  BY <1>4 DEF RequestOrderStatus
<1>5. CASE ExchangeStep
  BY <1>5 DEF ExchangeStep
<1>6. CASE UNCHANGED connVars
  BY <1>6 DEF connVars
<1> QED BY <1>1, <1>2, <1>3, <1>4, <1>5, <1>6 DEF ConnectorNext

\* The connector is one more user of the exchange: whatever it submits, cancels
\* or asks, under names that agree or not, the exchange does only what its own
\* specification lets it do, so that what is proved of every exchange holds of
\* one a connector drives (simulated_connector.py:313-366).
THEOREM ConnectorIsExchange ==
  /\ ConnectorSpec => Spec
  /\ ConnectorSpec => [](LedgerMatchesFills /\ LimitsAreKept /\ WalkIsBest)
<1>1. ConnectorSpec => Spec
  <2>1. ConnectorInit => Init
    BY DEF ConnectorInit
  <2>2. [ConnectorNext]_<<vars, connectorVars>> => [Next]_vars
    BY ConnectorStepsExchange DEF connVars
  <2> QED BY <2>1, <2>2, PTL DEF ConnectorSpec, Spec
<1> QED BY <1>1, LedgerHolds, LimitsHold, WalkIsBestExecution, PTL

\* A replacement is recorded only when it is placed, by a call that waited.
LEMMA ChildIsNew ==
  ASSUME TypeInv, [Next]_vars, NEW id \in OrderIds
  PROVE  childOf'[id] = childOf[id] \/ (childOf'[id] = counter + 1 /\ stack # << >>)
<1>1. childOf \in [OrderIds -> 0 .. MaxOrders]
  BY DEF TypeInv, TypeOK
<1>2. CASE AfterTriggered
  BY <1>1, <1>2 DEF AfterTriggered, Resumes
<1>3. CASE \/ \E r \in Requests : Place(r)
           \/ \E x \in OrderIds : Cancel(x)
           \/ MarketData \/ ProcessTick \/ Loop \/ UNCHANGED vars
           \/ AfterNotice \/ AfterCreatedMatch \/ AfterCreatedRest \/ AfterFilledComplete
           \/ ConsumeLiquidity
  BY <1>3 DEF Place, Cancel, MarketData, ProcessTick, Loop, EvaluateOrder, FireConditionalOrder,
              StartMatching, LeaveOrder, MatchOrder, EndTick, AfterNotice, AfterCreatedMatch,
              AfterCreatedRest, AfterFilledComplete, ConsumeLiquidity, vars
<1> QED BY <1>2, <1>3 DEF Next, Resume

-----------------------------------------------------------------------------
(* A step of the exchange that the connector listens to. *)

\* The entries as a step finds them: an order that is being placed may just
\* have been given its name, all others are as they were.
Prepared(before) ==
  /\ before \in [Names -> Entry]
  /\ nameOf' \in [OrderIds -> 0 .. MaxOrders]
  /\ \A id \in OrderIds :
       IF id # counter + 1 \/ nameOf'[id] = 0
       THEN nameOf'[id] = nameOf[id] /\ before[id] = tracker[id]
       ELSE /\ nameOf'[id] = id /\ before[id] = [state |-> "tracked", executed |-> 0]
            /\ counter' = id /\ stack = << >>

\* What is prepared is as sound as what was there.
LEMMA PreparedSound ==
  ASSUME HearInv, NEW before, Prepared(before), counter <= counter', counter' \in Nat
  PROVE  \A id \in OrderIds :
           /\ nameOf'[id] \in {0, id}
           /\ id > counter' => nameOf'[id] = 0
           /\ before[id].state # "untracked" <=> nameOf'[id] = id
           /\ before[id].state = "untracked" => before[id].executed = 0
           /\ nameOf'[id] # 0 /\ id <= counter =>
                nameOf[id] = id /\ before[id] = tracker[id] /\ tracker[id].executed = orders[id].filled
           /\ nameOf'[id] # 0 /\ id > counter =>
                before[id] = [state |-> "tracked", executed |-> 0] /\ id = counter + 1 /\ counter' = id
<1> SUFFICES ASSUME NEW id \in OrderIds
             PROVE  /\ nameOf'[id] \in {0, id}
                    /\ id > counter' => nameOf'[id] = 0
                    /\ before[id].state # "untracked" <=> nameOf'[id] = id
                    /\ before[id].state = "untracked" => before[id].executed = 0
                    /\ nameOf'[id] # 0 /\ id <= counter =>
                         nameOf[id] = id /\ before[id] = tracker[id] /\ tracker[id].executed = orders[id].filled
                    /\ nameOf'[id] # 0 /\ id > counter =>
                         before[id] = [state |-> "tracked", executed |-> 0] /\ id = counter + 1 /\ counter' = id
  OBVIOUS
<1>1. id \in Int /\ id # 0 /\ counter \in Nat
  BY IdsAreNames DEF HearInv, CallInv, TypeInv, TypeOK
<1>2. /\ nameOf[id] \in {0, id} /\ (id > counter => nameOf[id] = 0)
      /\ tracker[id].state # "untracked" <=> nameOf[id] = id
      /\ tracker[id].state = "untracked" => tracker[id].executed = 0
      /\ nameOf[id] # 0 => tracker[nameOf[id]].executed = orders[id].filled
  BY DEF HearInv, TrackerSide, NamesSound, Tracked, TrackerHearsFills
<1>3. CASE id # counter + 1 \/ nameOf'[id] = 0
  BY <1>1, <1>2, <1>3 DEF Prepared
<1>4. CASE ~(id # counter + 1 \/ nameOf'[id] = 0)
  BY <1>1, <1>4 DEF Prepared
<1> QED BY <1>3, <1>4

\* What the handlers make of one entry.
LEMMA HeardEntry ==
  ASSUME NEW before \in [Names -> Entry], Hears(before), NEW name \in Names
  PROVE  /\ before[name].state = "untracked" => tracker'[name] = before[name]
         /\ before[name].state # "untracked" /\ FilledNow(name) =>
              tracker'[name] = OnSimFill(name, before[name])
         /\ before[name].state # "untracked" /\ ~FilledNow(name) /\ TriggeredNow(name) =>
              tracker'[name] = OnSimTriggered(name, before[name])
         /\ before[name].state # "untracked" /\ ~FilledNow(name) /\ ~TriggeredNow(name) =>
              tracker'[name] = before[name]
BY DEF Hears

\* The tracker follows the exchange through any of its steps.
LEMMA HearingKeeps ==
  ASSUME HearInv, [Next]_vars, NEW before, Prepared(before), Hears(before)
  PROVE  TrackerSide'
<1>a. /\ CallInv /\ CallInv' /\ StopsUnfilled' /\ TypeInv /\ TypeInv'
  BY CallStep, StopsStayUnfilled DEF HearInv, CallInv
<1>b. /\ orders \in [OrderIds -> Order] /\ orders' \in [OrderIds -> Order]
      /\ counter \in Nat /\ counter' \in Nat
      /\ \A id \in OrderIds : id \in Int /\ id # 0 /\ id \in Names
  BY <1>a, IdsAreNames DEF TypeInv, TypeOK
<1>c. counter <= counter'
  <2>1. counter' \in {counter, counter + 1}
    BY <1>a, CounterGrows
  <2> QED BY <1>b, <2>1
<1>d. \A id \in OrderIds : OrderMoves(id)
  BY <1>a, StepsMoveOrders
<1>e. before \in [Names -> Entry]
  BY DEF Prepared
<1>f. tracker' = [name \in Names |-> tracker'[name]] /\ DOMAIN tracker' = Names
  BY DEF Hears
<1>1. tracker' \in [Names -> Entry]
  <2> SUFFICES ASSUME NEW name \in Names PROVE tracker'[name] \in Entry
    BY <1>f
  <2>1. before[name] \in Entry
    BY <1>e
  <2>2. FilledNow(name) => OnSimFill(name, before[name]) \in Entry
    BY <1>b, <2>1 DEF FilledNow, OnSimFill, Entry, TrackerStates, Order
  <2>3. OnSimTriggered(name, before[name]) \in Entry
    BY <2>1 DEF OnSimTriggered, Entry, TrackerStates
  <2> QED BY <1>e, <2>1, <2>2, <2>3, HeardEntry
<1>2. \A id \in OrderIds :
        /\ tracker'[id].state # "untracked" <=> before[id].state # "untracked"
        /\ before[id].state = "untracked" => tracker'[id] = before[id]
  <2> SUFFICES ASSUME NEW id \in OrderIds, before[id].state # "untracked"
               PROVE  tracker'[id].state # "untracked"
    BY <1>b, <1>e, HeardEntry
  <2>1. before[id] \in Entry /\ id \in Names
    BY <1>b, <1>e
  <2>2. OnSimFill(id, before[id]).state # "untracked" /\ OnSimTriggered(id, before[id]).state # "untracked"
    BY <2>1 DEF OnSimFill, OnSimTriggered, Entry
  <2> QED BY <1>e, <2>1, <2>2, HeardEntry
<1>3. NamesSound'
  BY <1>b, <1>c, <1>2, PreparedSound DEF NamesSound, Tracked
<1>4. TrackerHearsFills'
  <2> SUFFICES ASSUME NEW id \in OrderIds, nameOf'[id] # 0
               PROVE  tracker'[id].executed = orders'[id].filled
    BY <1>3 DEF TrackerHearsFills, NamesSound
  <2>1. before[id] \in Entry /\ id \in Names /\ before[id].state # "untracked"
    BY <1>b, <1>c, <1>e, PreparedSound
  <2>2. orders[id] \in Order /\ orders'[id] \in Order
    BY <1>b
  <2>3. OnSimTriggered(id, before[id]).executed = before[id].executed
    BY <2>1 DEF OnSimTriggered, Entry
  <2>4. CASE id <= counter
    <3>1. before[id].executed = orders[id].filled
      BY <1>b, <1>c, <2>4, PreparedSound
    <3>2. CASE FilledNow(id)
      <4>1. tracker'[id] = OnSimFill(id, before[id])
        BY <1>e, <2>1, <3>2, HeardEntry
      <4>2. tracker'[id].executed = before[id].executed + orders'[id].filled - orders[id].filled
        BY <4>1 DEF OnSimFill
      <4>3. orders[id].filled \in Nat /\ orders'[id].filled \in Nat
        BY <2>2 DEF Order
      <4> QED BY <3>1, <4>2, <4>3
    <3>3. CASE ~FilledNow(id)
      <4>1. tracker'[id].executed = orders[id].filled
        BY <1>e, <2>1, <2>3, <3>1, <3>3, HeardEntry
      <4>2. orders'[id].filled = orders[id].filled
        BY <1>b, <1>d, <2>2, <2>4, <3>3
        DEF OrderMoves, PlacedNow, WithdrawnNow, FilledMore, FilledNow, Order
      <4> QED BY <4>1, <4>2
    <3> QED BY <3>2, <3>3
  <2>5. CASE id > counter
    <3>1. before[id].executed = 0 /\ id = counter + 1 /\ counter' = id
      BY <1>b, <1>c, <2>5, PreparedSound
    <3>2. orders[id] = NoOrder
      BY <1>a, <2>5 DEF TypeInv, FreshIds
    <3>3. orders'[id] = orders[id] \/ PlacedNow(id)
      BY <1>b, <1>d, <2>5, <3>2 DEF OrderMoves, WithdrawnNow, FilledMore, IsOpen, NoOrder
    <3>4. orders'[id].filled = 0 /\ ~FilledNow(id)
      BY <3>2, <3>3 DEF PlacedNow, FilledNow, NoOrder
    <3> QED BY <1>e, <2>1, <2>3, <3>1, <3>4, HeardEntry
  <2> QED BY <1>b, <2>4, <2>5
<1>5. FiredIsCancelled'
  <2> SUFFICES ASSUME NEW id \in OrderIds, lastEvent'[id] = "triggered", nameOf'[id] # 0
               PROVE  tracker'[id] = [state |-> "CANCELED", executed |-> 0]
    BY DEF FiredIsCancelled
  <2>1. orders'[id].status = "CANCELLED" /\ IsConditional(orders'[id])
    BY <1>a DEF CallInv, RecordOK
  <2>2. id <= counter
    <3> SUFFICES ASSUME id > counter PROVE FALSE
      BY <1>b
    <3>1. orders[id] = NoOrder
      BY <1>a DEF TypeInv, FreshIds
    <3>2. orders'[id] = orders[id] \/ PlacedNow(id)
      BY <1>b, <1>d, <3>1 DEF OrderMoves, WithdrawnNow, FilledMore, IsOpen, NoOrder
    <3>3. ~PlacedNow(id)
      BY <2>1 DEF PlacedNow
    <3> QED BY <2>1, <3>1, <3>2, <3>3 DEF NoOrder
  <2>3. before[id] = tracker[id] /\ nameOf[id] # 0 /\ tracker[id] \in Entry /\ id \in Names
        /\ before[id].state # "untracked"
    BY <1>b, <1>c, <1>e, <2>2, PreparedSound
  <2>4. ~FilledNow(id)
    BY <2>1 DEF FilledNow
  <2>5. CASE lastEvent[id] = "triggered"
    <3>1. tracker[id] = [state |-> "CANCELED", executed |-> 0] /\ ~TriggeredNow(id)
      BY <2>3, <2>5 DEF HearInv, TrackerSide, FiredIsCancelled, TriggeredNow
    <3> QED BY <1>e, <2>3, <2>4, <3>1, HeardEntry
  <2>6. CASE lastEvent[id] # "triggered"
    <3>1. TriggeredNow(id)
      BY <2>6 DEF TriggeredNow
    <3>2. tracker'[id] = OnSimTriggered(id, tracker[id])
      BY <1>e, <2>3, <2>4, <3>1, HeardEntry
    <3>3. tracker'[id].executed = 0
      BY <1>3, <1>4, <1>a, <2>1 DEF TrackerHearsFills, NamesSound, StopsUnfilled
    <3> QED BY <2>3, <3>2, <3>3 DEF OnSimTriggered, Entry
  <2> QED BY <2>5, <2>6
<1>6. ChildrenNameless'
  <2> SUFFICES ASSUME NEW id \in OrderIds, childOf'[id] # 0
               PROVE  nameOf'[childOf'[id]] = 0
    BY DEF ChildrenNameless
  <2>1. PICK c : c = childOf'[id]
    OBVIOUS
  <2>2. c \in OrderIds
    BY <1>a, <2>1 DEF TypeInv, TypeOK, OrderIds
  <2>3. CASE c = childOf[id]
    <3>1. nameOf[c] = 0 /\ c \in 1 .. counter
      BY <1>a, <2>1, <2>3 DEF CallInv, RecordOK, Replaces, HearInv, TrackerSide, ChildrenNameless
    <3> QED BY <1>b, <2>1, <2>2, <3>1 DEF Prepared
  <2>4. CASE c = counter + 1 /\ stack # << >>
    <3>1. nameOf[c] = 0
      BY <1>b, <2>2, <2>4 DEF HearInv, TrackerSide, NamesSound
    <3> QED BY <2>1, <2>2, <2>4, <3>1 DEF Prepared
  <2> QED BY <1>a, <2>1, <2>3, <2>4, ChildIsNew
<1> QED BY <1>1, <1>3, <1>4, <1>5, <1>6 DEF TrackerSide, ConnectorType, Prepared

\* The answers of a cancellation or a status request change the state of one
\* order that was not ended, and nothing that was executed.
LEMMA StateChangeKeeps ==
  ASSUME HearInv, NEW name \in Names, NEW s \in TrackerStates \ {"untracked"},
         Tracked(name), ~Ended(name), tracker' = [tracker EXCEPT ![name].state = s],
         UNCHANGED <<nameOf, counter, childOf>>,
         \A id \in OrderIds : orders'[id].filled = orders[id].filled,
         \A id \in OrderIds : lastEvent'[id] = "triggered" => lastEvent[id] = "triggered"
  PROVE  TrackerSide'
<1>a. ConnectorType /\ NamesSound /\ TrackerHearsFills /\ FiredIsCancelled /\ ChildrenNameless
  BY DEF HearInv, TrackerSide
<1>b. \A id \in OrderIds : id \in Names
  BY IdsAreNames
<1>1. tracker[name] \in Entry /\ tracker'[name] = [tracker[name] EXCEPT !.state = s]
  BY <1>a DEF ConnectorType
<1>2. /\ tracker'[name] \in Entry /\ tracker'[name].executed = tracker[name].executed
      /\ tracker'[name].state = s
  BY <1>1 DEF Entry
<1>3. \A x \in Names : x # name => tracker'[x] = tracker[x]
  BY <1>a DEF ConnectorType
<1>4. ConnectorType'
  BY <1>1, <1>2, <1>a DEF ConnectorType
<1>5. \A x \in Names : /\ tracker'[x].executed = tracker[x].executed
                       /\ tracker'[x].state # "untracked" <=> tracker[x].state # "untracked"
  BY <1>2, <1>3 DEF Tracked
<1>6. NamesSound'
  BY <1>5, <1>a, <1>b DEF NamesSound, Tracked
<1>7. TrackerHearsFills'
  <2> SUFFICES ASSUME NEW id \in OrderIds, nameOf[id] # 0
               PROVE  tracker'[nameOf[id]].executed = orders'[id].filled
    BY DEF TrackerHearsFills
  <2>1. nameOf[id] = id /\ id \in Names
    BY <1>a, <1>b DEF NamesSound
  <2> QED BY <1>5, <1>a, <2>1 DEF TrackerHearsFills
<1>8. FiredIsCancelled'
  <2> SUFFICES ASSUME NEW id \in OrderIds, lastEvent'[id] = "triggered", nameOf[id] # 0
               PROVE  tracker'[id] = [state |-> "CANCELED", executed |-> 0]
    BY DEF FiredIsCancelled
  <2>1. tracker[id] = [state |-> "CANCELED", executed |-> 0] /\ id \in Names
    BY <1>a, <1>b DEF FiredIsCancelled
  <2>2. id # name
    BY <2>1 DEF Ended
  <2> QED BY <1>3, <2>1, <2>2
<1>9. ChildrenNameless'
  BY <1>a DEF ChildrenNameless
<1> QED BY <1>4, <1>6, <1>7, <1>8, <1>9 DEF TrackerSide

\* Orders the framework hands over get the number the exchange gives them.
LEMMA SubmitPrepares ==
  ASSUME NamesAgree, HearInv, NEW r \in Requests, Submit(r)
  PROVE  \E before : Prepared(before) /\ Hears(before)
<1> DEFINE id == counter + 1
           before == [tracker EXCEPT ![id].state = "tracked"]
<1>a. /\ ConnectorType /\ NamesSound /\ counter \in Nat /\ MaxOrders \in Nat
      /\ \A x \in OrderIds : x \in Names
  BY IdsAreNames DEF HearInv, TrackerSide, CallInv, TypeInv, TypeOK
<1>1. /\ counter' = id /\ counter < MaxOrders /\ stack = << >>
      /\ nameOf' = [nameOf EXCEPT ![id] = id] /\ Hears(before)
  BY DEF Submit, Idle, Place, PlaceOrder, NextName
<1>2. id \in OrderIds /\ id # 0
  BY <1>1, <1>a DEF OrderIds
<1>3. tracker[id] \in Entry /\ tracker[id].executed = 0
  BY <1>2, <1>a DEF ConnectorType, NamesSound
<1>4. before \in [Names -> Entry] /\ before[id] = [tracker[id] EXCEPT !.state = "tracked"]
  BY <1>2, <1>3, <1>a DEF ConnectorType, Entry, TrackerStates
<1>5. before[id] = [state |-> "tracked", executed |-> 0]
  BY <1>3, <1>4 DEF Entry
<1>6. nameOf' \in [OrderIds -> 0 .. MaxOrders] /\ nameOf'[id] = id
  BY <1>1, <1>2, <1>a DEF ConnectorType, OrderIds
<1>7. \A x \in OrderIds : x # id => nameOf'[x] = nameOf[x] /\ before[x] = tracker[x]
  BY <1>1, <1>a DEF ConnectorType
<1>8. Prepared(before)
  BY <1>1, <1>2, <1>4, <1>5, <1>6, <1>7 DEF Prepared
<1> QED BY <1>1, <1>8

\* In every other step of the exchange the entries are as they were.
LEMMA ExchangePrepares ==
  ASSUME HearInv, ExchangeStep
  PROVE  Prepared(tracker) /\ Hears(tracker)
<1>1. ConnectorType /\ NamesSound /\ nameOf' = nameOf /\ Hears(tracker)
  BY DEF HearInv, TrackerSide, ExchangeStep
<1>2. \A x \in OrderIds : x = counter + 1 => nameOf[x] = 0
  <2>1. counter \in Nat /\ counter + 1 > counter
    BY DEF HearInv, CallInv, TypeInv, TypeOK
  <2> QED BY <1>1, <2>1 DEF NamesSound
<1>3. \A x \in OrderIds : x # counter + 1 \/ nameOf'[x] = 0
  BY <1>1, <1>2
<1> QED BY <1>1, <1>3 DEF Prepared, ConnectorType

\* A cancellation changes one order and no amount.
LEMMA CancelMoves ==
  ASSUME TypeInv, NEW name \in OrderIds, Cancel(name)
  PROVE  /\ orders'[name] = [orders[name] EXCEPT !.status = "CANCELLED"]
         /\ \A id \in OrderIds : id # name => orders'[id] = orders[id]
         /\ \A id \in OrderIds : orders'[id].filled = orders[id].filled
         /\ \A id \in OrderIds : lastEvent'[id] = "triggered" => lastEvent[id] = "triggered"
         /\ UNCHANGED <<counter, childOf>>
<1>1. /\ orders' = [orders EXCEPT ![name].status = "CANCELLED"]
      /\ lastEvent' = [lastEvent EXCEPT ![name] = "cancelled"]
      /\ UNCHANGED <<counter, childOf>>
  BY DEF Cancel, Withdraw, Dispatch
<1>2. /\ orders \in [OrderIds -> Order] /\ lastEvent \in [OrderIds -> EventPoints \cup {"none"}]
      /\ orders[name] \in Order
  BY DEF TypeInv, TypeOK
<1>3. orders'[name] = [orders[name] EXCEPT !.status = "CANCELLED"]
      /\ orders'[name].filled = orders[name].filled
  BY <1>1, <1>2 DEF Order
<1> QED BY <1>1, <1>2, <1>3

\* What a cancellation does beyond the exchange.
LEMMA PlaceCancelMoves ==
  ASSUME TypeInv, NEW name \in Names, PlaceCancel(name)
  PROVE  /\ Tracked(name) /\ ~Ended(name)
         /\ tracker' = [tracker EXCEPT ![name].state = "CANCELED"]
         /\ UNCHANGED <<nameOf, counter, childOf>>
         /\ \A id \in OrderIds : orders'[id].filled = orders[id].filled
         /\ \A id \in OrderIds : lastEvent'[id] = "triggered" => lastEvent[id] = "triggered"
         /\ \A id \in OrderIds : id # name => orders'[id] = orders[id]
         /\ name \in OrderIds =>
              \/ orders'[name].status = "CANCELLED"
              \/ orders'[name] = orders[name] /\ ~IsOpen(orders[name])
<1>1. /\ Tracked(name) /\ ~Ended(name) /\ nameOf' = nameOf
      /\ tracker' = [tracker EXCEPT ![name].state = "CANCELED"]
  BY DEF PlaceCancel
<1>2. CASE IsOpen(OrderNamed(name)) /\ Cancel(name)
  <2>1. name \in OrderIds
    BY <1>2 DEF OrderNamed, NoOrder, IsOpen
  <2>2. orders[name] \in Order
    BY <2>1 DEF TypeInv, TypeOK
  <2>3. orders'[name].status = "CANCELLED"
    BY <1>2, <2>1, <2>2, CancelMoves DEF Order
  <2> QED BY <1>1, <1>2, <2>1, <2>3, CancelMoves
<1>3. CASE ~IsOpen(OrderNamed(name)) /\ UNCHANGED vars
  BY <1>1, <1>3 DEF vars, OrderNamed
<1> QED BY <1>2, <1>3 DEF PlaceCancel

\* What a status request can be answered.
LEMMA StateOfType ==
  ASSUME TypeInv, NEW name \in Names
  PROVE  StateOf(OrderNamed(name)) \in TrackerStates \ {"untracked"}
<1>1. OrderNamed(name).status \in Statuses
  BY DEF OrderNamed, NoOrder, TypeInv, TypeOK, Order, Statuses
<1> QED BY <1>1 DEF Statuses, StateOf, TrackerStates

-----------------------------------------------------------------------------
\* Before anything is placed the tracker has heard all there is.
LEMMA HearInit == ConnectorInit => HearInv
<1> SUFFICES ASSUME ConnectorInit PROVE HearInv
  OBVIOUS
<1>1. CallInv /\ StopsUnfilled
  BY CallInit DEF ConnectorInit, Init, StopsUnfilled, NoOrder
<1>2. /\ tracker = [name \in Names |-> Untracked] /\ nameOf = [id \in OrderIds |-> 0]
      /\ childOf = [id \in OrderIds |-> 0]
      /\ \A id \in OrderIds : id \in Names /\ id # 0
      /\ MaxOrders \in Nat
  BY IdsAreNames DEF ConnectorInit, Init
<1>3. ConnectorType
  BY <1>2 DEF ConnectorType, Entry, TrackerStates, Untracked
<1>4. NamesSound
  BY <1>2 DEF NamesSound, Tracked, Untracked
<1>5. TrackerHearsFills /\ FiredIsCancelled /\ ChildrenNameless
  BY <1>2 DEF TrackerHearsFills, FiredIsCancelled, ChildrenNameless
<1> QED BY <1>1, <1>3, <1>4, <1>5 DEF HearInv, TrackerSide

\* The tracker follows the exchange through every step of the connector.
LEMMA TrackerStep == NamesAgree /\ HearInv /\ [ConnectorNext]_connVars => HearInv'
<1> SUFFICES ASSUME NamesAgree, HearInv, [ConnectorNext]_connVars PROVE HearInv'
  OBVIOUS
<1>a. [Next]_vars
  BY ConnectorStepsExchange
<1>b. CallInv' /\ StopsUnfilled' /\ TypeInv
  BY <1>a, CallStep, StopsStayUnfilled DEF HearInv, CallInv
<1>1. ASSUME NEW r \in Requests, Submit(r) PROVE TrackerSide'
  BY <1>1, <1>a, SubmitPrepares, HearingKeeps
<1>2. ASSUME NEW name \in Names, PlaceCancel(name) PROVE TrackerSide'
  <2>1. "CANCELED" \in TrackerStates \ {"untracked"}
    BY DEF TrackerStates
  <2> QED BY <1>2, <1>b, <2>1, PlaceCancelMoves, StateChangeKeeps
<1>3. ASSUME NEW name \in Names, RequestOrderStatus(name) PROVE TrackerSide'
  <2>1. /\ Tracked(name) /\ ~Ended(name) /\ UNCHANGED <<nameOf, counter, childOf, orders, lastEvent>>
        /\ tracker' = [tracker EXCEPT ![name].state = StateOf(OrderNamed(name))]
    BY <1>3 DEF RequestOrderStatus, vars
  <2>2. StateOf(OrderNamed(name)) \in TrackerStates \ {"untracked"}
    BY <1>b, StateOfType
  <2> QED BY <2>1, <2>2, StateChangeKeeps
<1>4. ASSUME ExchangeStep PROVE TrackerSide'
  BY <1>4, <1>a, ExchangePrepares, HearingKeeps
<1>5. ASSUME UNCHANGED connVars \/ \E r \in Requests : SubmitUnmapped(r) PROVE TrackerSide'
  <2>1. UNCHANGED <<orders, counter, lastEvent, childOf, tracker, nameOf>>
    BY <1>5 DEF connVars, connectorVars, vars, SubmitUnmapped
  <2> QED BY <2>1 DEF HearInv, TrackerSide, ConnectorType, NamesSound, Tracked, TrackerHearsFills,
                      FiredIsCancelled, ChildrenNameless
<1>6. TrackerSide'
  BY <1>1, <1>2, <1>3, <1>4, <1>5 DEF ConnectorNext
<1> QED BY <1>6, <1>b DEF HearInv

\* Orders named as the exchange names them: the tracker knows at every moment
\* what is filled of each (simulated_connector.py:501).
THEOREM TrackerKnowsFills == NamesAgree => (ConnectorSpec => []TrackerHearsFills)
<1>1. ASSUME NamesAgree PROVE ConnectorSpec => []TrackerHearsFills
  <2>1. HearInv => TrackerHearsFills
    BY DEF HearInv, TrackerSide
  <2>2. HearInv /\ [ConnectorNext]_<<vars, connectorVars>> => HearInv'
    BY <1>1, TrackerStep DEF connVars
  <2> QED BY <2>1, <2>2, HearInit, PTL DEF ConnectorSpec
<1> QED BY <1>1

\* The market order a stop became never gets a name of the framework's, and of
\* the stop the framework holds a cancelled order (simulated_connector.py:550).
THEOREM ReplacementsStayNameless == NamesAgree => (ConnectorSpec => []ReplacementsAreNameless)
<1>1. ASSUME NamesAgree PROVE ConnectorSpec => []ReplacementsAreNameless
  <2>1. HearInv => ReplacementsAreNameless
    <3> SUFFICES ASSUME HearInv, NEW id \in OrderIds, childOf[id] # 0
                 PROVE  /\ nameOf[childOf[id]] = 0
                        /\ nameOf[id] # 0 => tracker[nameOf[id]] = [state |-> "CANCELED", executed |-> 0]
      BY DEF ReplacementsAreNameless
    <3>1. lastEvent[id] = "triggered"
      BY DEF HearInv, CallInv, RecordOK
    <3>2. nameOf[id] # 0 => nameOf[id] = id /\ tracker[id] = [state |-> "CANCELED", executed |-> 0]
      BY <3>1 DEF HearInv, TrackerSide, NamesSound, FiredIsCancelled
    <3> QED BY <3>2 DEF HearInv, TrackerSide, ChildrenNameless
  <2>2. HearInv /\ [ConnectorNext]_<<vars, connectorVars>> => HearInv'
    BY <1>1, TrackerStep DEF connVars
  <2> QED BY <2>1, <2>2, HearInit, PTL DEF ConnectorSpec
<1> QED BY <1>1

\* What the tracker and the orders without a name account for is what the base
\* balance moved by: nothing executed is lost and nothing counted twice
\* (balance_manager.py:58-66).
THEOREM TrackerMakesLedger == NamesAgree => (ConnectorSpec => []TrackerAndReplacementsMakeLedger)
<1>1. ASSUME NamesAgree PROVE ConnectorSpec => []TrackerAndReplacementsMakeLedger
  <2> DEFINE LI == HearInv /\ LedgerInv
  <2>1. LI => TrackerAndReplacementsMakeLedger
    <3> SUFFICES ASSUME LI PROVE TrackerAndReplacementsMakeLedger
      OBVIOUS
    <3> DEFINE Known(id) == IF nameOf[id] = 0 THEN orders[id].filled ELSE tracker[nameOf[id]].executed
               moved == [id \in OrderIds |-> Signed(orders[id], Known(id))]
    <3>1. \A id \in OrderIds : Known(id) = orders[id].filled
      BY DEF HearInv, TrackerSide, TrackerHearsFills
    <3>2. orders \in [OrderIds -> Order] /\ OrderIds = 1 .. MaxOrders /\ MaxOrders \in Nat
      BY IdsAreNames DEF LedgerInv, TypeInv, TypeOK, OrderIds
    <3>3. \A i \in 1 .. MaxOrders : /\ FilledOf("BUY")[i] \in Int /\ FilledOf("SELL")[i] \in Int
                                   /\ moved[i] = FilledOf("BUY")[i] - FilledOf("SELL")[i]
      <4> SUFFICES ASSUME NEW i \in OrderIds
                   PROVE  /\ FilledOf("BUY")[i] \in Int /\ FilledOf("SELL")[i] \in Int
                          /\ moved[i] = FilledOf("BUY")[i] - FilledOf("SELL")[i]
        BY <3>2
      <4>1. orders[i].filled \in Nat /\ orders[i].side \in {"BUY", "SELL"}
        BY <3>2 DEF Order, Sides
      <4>2. moved[i] = Signed(orders[i], orders[i].filled)
        BY <3>1
      <4>3. /\ FilledOf("BUY")[i] = OfSide(orders[i], "BUY", orders[i].filled)
            /\ FilledOf("SELL")[i] = OfSide(orders[i], "SELL", orders[i].filled)
        BY DEF FilledOf
      <4> HIDE DEF moved
      <4> QED BY <4>1, <4>2, <4>3 DEF OfSide, Signed
    <3>4. Total(moved, MaxOrders) = Total(FilledOf("BUY"), MaxOrders) - Total(FilledOf("SELL"), MaxOrders)
      <4> HIDE DEF moved
      <4> QED BY <3>2, <3>3, TotalDifference
    <3>5. \A i \in 1 .. MaxOrders : FilledOf("BUY")[i] \in Int /\ FilledOf("SELL")[i] \in Int
      BY <3>3
    <3>6. Total(FilledOf("BUY"), MaxOrders) \in Int /\ Total(FilledOf("SELL"), MaxOrders) \in Int
      BY <3>2, <3>5, TotalType
    <3>7. balances["base"].total = InitialBalances["base"].total
             + Total(FilledOf("BUY"), MaxOrders) - Total(FilledOf("SELL"), MaxOrders)
      BY DEF LedgerInv, BaseMatches
    <3>8. InitialBalances["base"].total \in Int
      BY ExchangeAssumption DEF TokenBalance, Currencies
    <3>9. balances["base"].total - InitialBalances["base"].total = Total(moved, MaxOrders)
      <4> HIDE DEF moved
      <4> QED BY <3>4, <3>6, <3>7, <3>8
    <3> QED BY <3>9 DEF TrackerAndReplacementsMakeLedger
  <2>2. LI /\ [ConnectorNext]_<<vars, connectorVars>> => LI'
    BY <1>1, TrackerStep, ConnectorStepsExchange, LedgerStep DEF connVars
  <2>3. ConnectorInit => LI
    BY HearInit, LedgerInit DEF ConnectorInit
  <2> HIDE DEF LI
  <2> QED BY <2>1, <2>2, <2>3, PTL DEF ConnectorSpec
<1> QED BY <1>1

-----------------------------------------------------------------------------
(* The ends of orders. *)

EndsKnown(id) ==
  /\ (tracker[id].state = "FILLED") <=> (orders[id].status = "FILLED")
  /\ tracker[id].state \in {"FILLED", "CANCELED", "FAILED"} => ~IsOpen(orders[id])

EndsInv == HearInv /\ BaseInv /\ \A id \in OrderIds : nameOf[id] = id => EndsKnown(id)

\* A step the connector listens to tells it of every end that is not a failure
\* or a cancellation.
LEMMA HearingKeepsEnds ==
  ASSUME ~StaleCancels, EndsInv, [Next]_vars, NEW before, Prepared(before), Hears(before),
         NEW id \in OrderIds, nameOf'[id] = id
  PROVE  EndsKnown(id)'
<1>a. HearInv /\ CallInv /\ CallInv' /\ TypeInv
  BY CallStep DEF EndsInv, HearInv, CallInv
<1>b. /\ orders[id] \in Order /\ orders'[id] \in Order /\ counter \in Nat /\ counter' \in Nat
      /\ id \in Names /\ id \in Int /\ id # 0 /\ before \in [Names -> Entry] /\ before[id] \in Entry
  BY <1>a, IdsAreNames DEF CallInv, TypeInv, TypeOK, Prepared
<1>c. counter <= counter'
  <2>1. counter' \in {counter, counter + 1}
    BY <1>a, CounterGrows
  <2> QED BY <1>b, <2>1
<1>d. OrderMoves(id)
  BY <1>a, StepsMoveOrders
<1>e. before[id].state # "untracked" /\ id <= counter'
  BY <1>a, <1>b, <1>c, PreparedSound
<1>f. /\ OnSimTriggered(id, before[id]).state = "CANCELED"
      /\ OnSimFill(id, before[id]).state = IF orders'[id].status = "FILLED" THEN "FILLED" ELSE before[id].state
  BY <1>b DEF OnSimTriggered, OnSimFill, Entry
<1>g. TriggeredNow(id) => orders'[id].status = "CANCELLED"
  BY <1>a DEF TriggeredNow, CallInv, RecordOK
<1>1. CASE id > counter
  <2>1. before[id].state = "tracked" /\ orders[id] = NoOrder
    BY <1>a, <1>b, <1>c, <1>1, PreparedSound DEF TypeInv, FreshIds
  <2>2. orders'[id] = orders[id] \/ PlacedNow(id)
    BY <1>b, <1>d, <1>1, <2>1 DEF OrderMoves, WithdrawnNow, FilledMore, IsOpen, NoOrder
  <2>3. orders'[id].status \in {"ABSENT", "OPEN", "FAILED"}
    BY <2>1, <2>2 DEF PlacedNow, NoOrder
  <2>4. ~FilledNow(id) /\ ~TriggeredNow(id)
    BY <1>g, <2>3 DEF FilledNow
  <2>5. tracker'[id] = before[id]
    BY <1>b, <1>e, <2>4, HeardEntry
  <2> QED BY <2>1, <2>3, <2>5 DEF EndsKnown
<1>2. CASE id <= counter
  <2>1. before[id] = tracker[id] /\ EndsKnown(id)
    <3>1. nameOf[id] = id /\ before[id] = tracker[id]
      BY <1>a, <1>b, <1>c, <1>2, PreparedSound
    <3> QED BY <3>1 DEF EndsInv
  <2>2. CASE orders'[id] = orders[id]
    <3>1. ~FilledNow(id)
      BY <2>2 DEF FilledNow
    <3>2. tracker'[id] = before[id] \/ (tracker'[id].state = "CANCELED" /\ orders'[id].status = "CANCELLED")
      BY <1>b, <1>e, <1>f, <1>g, <3>1, HeardEntry
    <3> QED BY <2>1, <2>2, <3>2 DEF EndsKnown, IsOpen
  <2>3. CASE WithdrawnNow(id)
    <3>1. orders'[id].status = "CANCELLED" /\ IsOpen(orders[id])
      BY <1>b, <2>3 DEF WithdrawnNow, Order
    <3>2. ~FilledNow(id)
      BY <3>1 DEF FilledNow
    <3>3. tracker'[id] = before[id] \/ tracker'[id].state = "CANCELED"
      BY <1>b, <1>e, <1>f, <3>2, HeardEntry
    <3> QED BY <2>1, <3>1, <3>3 DEF EndsKnown, IsOpen
  <2>4. CASE FilledMore(id) /\ orders'[id] # orders[id]
    <3>1. FilledNow(id) /\ IsOpen(orders[id]) /\ orders'[id].status \in {"FILLED", "PARTIALLY_FILLED"}
      BY <2>4 DEF FilledMore, FilledNow, EndsInv, BaseInv
    <3>2. tracker'[id] = OnSimFill(id, before[id])
      BY <1>b, <1>e, <3>1, HeardEntry
    <3>3. before[id].state \notin {"FILLED", "CANCELED", "FAILED"}
      BY <2>1, <3>1 DEF EndsKnown
    <3> QED BY <1>f, <3>1, <3>2, <3>3 DEF EndsKnown, IsOpen
  <2> QED BY <1>2, <1>b, <1>d, <2>2, <2>3, <2>4 DEF OrderMoves, PlacedNow
<1> QED BY <1>b, <1>1, <1>2

\* So does every step of the connector.
LEMMA EndsStep == NamesAgree /\ ~StaleCancels /\ EndsInv /\ [ConnectorNext]_connVars => EndsInv'
<1> SUFFICES ASSUME NamesAgree, ~StaleCancels, EndsInv, [ConnectorNext]_connVars PROVE EndsInv'
  OBVIOUS
<1>a. [Next]_vars /\ HearInv /\ TypeInv /\ CallInv
  BY ConnectorStepsExchange DEF EndsInv, HearInv, CallInv
<1>b. HearInv' /\ BaseInv'
  BY <1>a, TrackerStep, BaseStep DEF EndsInv
<1>c. tracker \in [Names -> Entry] /\ \A id \in OrderIds : id \in Names /\ id # 0
  BY <1>a, IdsAreNames DEF HearInv, TrackerSide, ConnectorType
<1> DEFINE Goal == \A id \in OrderIds : nameOf'[id] = id => EndsKnown(id)'
<1>1. ASSUME NEW r \in Requests, Submit(r) PROVE Goal
  BY <1>1, <1>a, SubmitPrepares, HearingKeepsEnds
<1>2. ASSUME NEW name \in Names, PlaceCancel(name) PROVE Goal
  <2> SUFFICES ASSUME NEW id \in OrderIds, nameOf'[id] = id PROVE EndsKnown(id)'
    OBVIOUS
  <2>1. nameOf[id] = id /\ EndsKnown(id) /\ ~Ended(name)
        /\ tracker' = [tracker EXCEPT ![name].state = "CANCELED"]
    BY <1>2, <1>a, PlaceCancelMoves DEF EndsInv
  <2>2. CASE id # name
    <3>1. tracker'[id] = tracker[id] /\ orders'[id] = orders[id]
      BY <1>2, <1>a, <1>c, <2>1, <2>2, PlaceCancelMoves
    <3> QED BY <2>1, <3>1 DEF EndsKnown
  <2>3. CASE id = name
    <3>1. tracker'[id].state = "CANCELED"
      BY <1>c, <2>1, <2>3 DEF Entry
    <3>2. orders[id].status # "FILLED"
      BY <2>1, <2>3 DEF EndsKnown, Ended
    <3>3. \/ orders'[id].status = "CANCELLED"
          \/ orders'[id] = orders[id] /\ ~IsOpen(orders[id])
      BY <1>2, <1>a, <2>3, PlaceCancelMoves
    <3> QED BY <3>1, <3>2, <3>3 DEF EndsKnown, IsOpen
  <2> QED BY <2>2, <2>3
<1>3. ASSUME NEW name \in Names, RequestOrderStatus(name) PROVE Goal
  <2> SUFFICES ASSUME NEW id \in OrderIds, nameOf'[id] = id PROVE EndsKnown(id)'
    OBVIOUS
  <2>1. /\ UNCHANGED <<nameOf, orders>>
        /\ tracker' = [tracker EXCEPT ![name].state = StateOf(OrderNamed(name))]
    BY <1>3 DEF RequestOrderStatus, vars
  <2>2. EndsKnown(id) /\ id \in Names
    BY <1>c, <2>1 DEF EndsInv
  <2>3. CASE id # name
    <3>1. tracker'[id] = tracker[id]
      BY <1>c, <2>1, <2>3
    <3> QED BY <2>1, <2>2, <3>1 DEF EndsKnown
  <2>4. CASE id = name
    <3>1. tracker'[id].state = StateOf(orders[id])
      BY <1>c, <2>1, <2>4 DEF Entry, OrderNamed
    <3>2. orders[id].status \in Statuses
      BY <1>a DEF TypeInv, TypeOK, Order
    <3> QED BY <2>1, <3>1, <3>2 DEF EndsKnown, StateOf, IsOpen, Statuses
  <2> QED BY <2>3, <2>4
<1>4. ASSUME ExchangeStep PROVE Goal
  BY <1>4, <1>a, ExchangePrepares, HearingKeepsEnds
<1>5. ASSUME UNCHANGED connVars \/ \E r \in Requests : SubmitUnmapped(r) PROVE Goal
  <2>1. UNCHANGED <<orders, tracker, nameOf>>
    BY <1>5 DEF connVars, connectorVars, vars, SubmitUnmapped
  <2> QED BY <2>1 DEF EndsInv, EndsKnown
<1>6. Goal
  <2> HIDE DEF Goal
  <2> QED BY <1>1, <1>2, <1>3, <1>4, <1>5 DEF ConnectorNext
<1> QED BY <1>6, <1>b DEF EndsInv

\* Where listeners cancel no held order, the tracker takes an order for filled
\* exactly when the exchange has filled it, and none for ended that is open
\* (simulated_connector.py:498-560).
THEOREM TrackerKnowsEnds ==
  NamesAgree /\ ~StaleCancels => (ConnectorSpec => []TrackerHearsEnds)
<1>1. ASSUME NamesAgree, ~StaleCancels PROVE ConnectorSpec => []TrackerHearsEnds
  <2>1. EndsInv => TrackerHearsEnds
    BY DEF EndsInv, EndsKnown, HearInv, TrackerSide, NamesSound, TrackerHearsEnds, Ended
  <2>2. ConnectorInit => EndsInv
    <3>1. ConnectorInit => \A id \in OrderIds : nameOf[id] # id
      BY IdsAreNames DEF ConnectorInit
    <3> QED BY <3>1, HearInit, BaseInit DEF EndsInv, ConnectorInit
  <2>3. EndsInv /\ [ConnectorNext]_<<vars, connectorVars>> => EndsInv'
    BY <1>1, EndsStep DEF connVars
  <2> QED BY <2>1, <2>2, <2>3, PTL DEF ConnectorSpec
<1> QED BY <1>1
=============================================================================
