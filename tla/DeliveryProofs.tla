--------------------------- MODULE DeliveryProofs ---------------------------
(***************************************************************************)
(* What EventDelivery promises follows from how an exchange hears events,  *)
(* for any events, any exchanges and any times.                            *)
(***************************************************************************)
EXTENDS EventDelivery, SequenceTheorems, TLAPS

DeliveryType ==
  /\ heard \in [Exchanges -> Seq(EventIds)]
  /\ horizon \in Nat

\* The type of the history is kept.
LEMMA DeliveryTypeKept == DeliveryType /\ [Next]_dvars => DeliveryType'
<1> SUFFICES ASSUME DeliveryType, [Next]_dvars PROVE DeliveryType'
  OBVIOUS
<1>1. CASE Advance
  BY <1>1 DEF Advance, DeliveryType
<1>2. CASE Restart
  <2>1. Silence \in [Exchanges -> Seq(EventIds)]
    BY DEF Silence
  <2> QED BY <1>2, <2>1 DEF Restart, DeliveryType
<1>3. ASSUME NEW x \in Exchanges, NEW e \in EventIds, Hear(x, e) PROVE DeliveryType'
  <2>1. Append(heard[x], e) \in Seq(EventIds)
    BY DEF DeliveryType
  <2> QED BY <1>3, <2>1 DEF Hear, DeliveryType
<1>4. CASE UNCHANGED dvars
  BY <1>4 DEF dvars, DeliveryType
<1> QED BY <1>1, <1>2, <1>3, <1>4 DEF Next

\* Hearing one more event keeps the promise.
LEMMA HearKeepsOrder ==
  ASSUME DeliveryType, HeardInOrder, NEW x \in Exchanges, NEW e \in EventIds, Hear(x, e)
  PROVE  HeardInOrder'
<1> SUFFICES ASSUME NEW y \in Exchanges
             PROVE  /\ InOrder(heard'[y])
                    /\ \A i, j \in DOMAIN heard'[y] : heard'[y][i] = heard'[y][j] => i = j
                    /\ \A i \in DOMAIN heard'[y] :
                         OwnerOf[heard'[y][i]] = y /\ TimeOf[heard'[y][i]] <= horizon'
  BY DEF HeardInOrder
<1>1. horizon' = horizon
  BY DEF Hear
<1>2. CASE y # x
  <2>1. heard'[y] = heard[y]
    BY <1>2 DEF Hear, DeliveryType
  <2> QED BY <1>1, <2>1 DEF HeardInOrder
<1>3. CASE y = x
  <2> DEFINE old == heard[x]
             new == heard'[x]
             n   == Len(old) + 1
  <2>1. old \in Seq(EventIds) /\ new = Append(old, e)
    BY DEF Hear, DeliveryType
  <2>2. /\ n \in Nat /\ DOMAIN new = 1 .. n /\ DOMAIN old = 1 .. n - 1
        /\ new[n] = e /\ \A i \in 1 .. n - 1 : new[i] = old[i]
    BY <2>1
  <2>3. /\ OwnerOf[e] = x /\ TimeOf[e] <= horizon
        /\ \A i \in DOMAIN old : old[i] # e /\ ~Precedes(e, old[i])
    BY DEF Hear
  <2>4. /\ InOrder(old)
        /\ \A i, j \in DOMAIN old : old[i] = old[j] => i = j
        /\ \A i \in DOMAIN old : OwnerOf[old[i]] = x /\ TimeOf[old[i]] <= horizon
    BY DEF HeardInOrder
  <2> HIDE DEF old, new, n
  <2>5. InOrder(new)
    <3> SUFFICES ASSUME NEW i \in 1 .. n, NEW j \in 1 .. n, i < j
                 PROVE  ~Precedes(new[j], new[i])
      BY <2>2 DEF InOrder
    <3>1. i \in 1 .. n - 1
      BY <2>2
    <3>2. CASE j = n
      BY <3>1, <3>2, <2>2, <2>3
    <3>3. CASE j \in 1 .. n - 1
      BY <3>1, <3>3, <2>2, <2>4 DEF InOrder
    <3> QED BY <2>2, <3>2, <3>3
  <2>6. \A i, j \in 1 .. n : new[i] = new[j] => i = j
    <3> SUFFICES ASSUME NEW i \in 1 .. n, NEW j \in 1 .. n, new[i] = new[j]
                 PROVE  i = j
      OBVIOUS
    <3>1. CASE i = n \/ j = n
      BY <3>1, <2>2, <2>3
    <3>2. CASE i \in 1 .. n - 1 /\ j \in 1 .. n - 1
      BY <3>2, <2>2, <2>4
    <3> QED BY <2>2, <3>1, <3>2
  <2>7. \A i \in 1 .. n : OwnerOf[new[i]] = x /\ TimeOf[new[i]] <= horizon
    BY <2>2, <2>3, <2>4
  <2> QED BY <1>1, <1>3, <2>2, <2>5, <2>6, <2>7 DEF new
<1> QED BY <1>2, <1>3

\* Whatever is heard in a run is heard once, in its order and not before its
\* time: sources may grow while they are read (replay_source.py:120-135).
THEOREM HeardOnceInOrder == Spec => []HeardInOrder
<1>1. Init => DeliveryType /\ HeardInOrder
  <2> SUFFICES ASSUME Init PROVE DeliveryType /\ HeardInOrder
    OBVIOUS
  <2>1. heard \in [Exchanges -> Seq(EventIds)] /\ \A x \in Exchanges : heard[x] = << >>
    BY DEF Init, Silence
  <2>2. horizon \in Nat
    BY DEF Init
  <2>3. DOMAIN << >> = {}
    OBVIOUS
  <2> QED BY <2>1, <2>2, <2>3 DEF DeliveryType, HeardInOrder, InOrder
<1>2. DeliveryType /\ HeardInOrder /\ [Next]_dvars => HeardInOrder'
  <2> SUFFICES ASSUME DeliveryType, HeardInOrder, [Next]_dvars PROVE HeardInOrder'
    OBVIOUS
  <2>1. CASE Advance
    <3>1. heard' = heard /\ horizon \in Nat /\ horizon' \in Nat /\ horizon <= horizon'
      BY <2>1 DEF Advance, DeliveryType
    <3>2. ASSUME NEW x \in Exchanges, NEW i \in DOMAIN heard[x] PROVE TimeOf[heard[x][i]] <= horizon'
      <4>1. heard[x][i] \in EventIds
        BY DEF DeliveryType
      <4>2. TimeOf[heard[x][i]] \in Nat /\ TimeOf[heard[x][i]] <= horizon
        BY <4>1, EventAssumption DEF HeardInOrder
      <4> QED BY <3>1, <4>2
    <3> QED BY <3>1, <3>2 DEF HeardInOrder, InOrder
  <2>2. CASE Restart
    <3>1. \A x \in Exchanges : heard'[x] = << >>
      BY <2>2 DEF Restart, Silence
    <3>2. DOMAIN << >> = {}
      OBVIOUS
    <3> QED BY <3>1, <3>2 DEF HeardInOrder, InOrder
  <2>3. ASSUME NEW x \in Exchanges, NEW e \in EventIds, Hear(x, e) PROVE HeardInOrder'
    BY <2>3, HearKeepsOrder
  <2>4. CASE UNCHANGED dvars
    BY <2>4 DEF dvars, HeardInOrder
  <2> QED BY <2>1, <2>2, <2>3, <2>4 DEF Next
<1> QED BY <1>1, <1>2, DeliveryTypeKept, PTL DEF Spec
=============================================================================
