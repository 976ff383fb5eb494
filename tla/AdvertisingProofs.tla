-------------------------- MODULE AdvertisingProofs --------------------------
(***************************************************************************)
(* Proofs about Advertising, for every set of packs, rates and bounds.     *)
(* IInv is inductive: WaitBound follows the rotation phase by phase, and   *)
(* ElementOrder the four calls that renew the vendor elements.             *)
(***************************************************************************)
EXTENDS Advertising, TLAPS

\* How long the location can have waited when the rotation is at a phase.  At phase 6 without a
\* second identity one has been lost since phase 5 was left, and it is paid for.
WaitBound ==
    /\ legacy_phase = 0 => wait <= 6 * drops + 7
    /\ legacy_phase \in 1..5 => wait <= 6 * drops + legacy_phase
    /\ legacy_phase = 6 => wait <= IF Twin(pack) THEN 6 * drops + 6 ELSE 6 * drops

\* Between the second and the fourth call the beacon has its new element already.
ElementOrder ==
    /\ pc \in {"remove_probe", "add_probe"} => element["BEACON"] = 0
    /\ BeaconLeads

\* Before init() nothing has been counted.
CounterOrder ==
    /\ ~initialised => counted = [k \in Counters |-> CounterSize - 1]
    /\ CountersContinue

IInv == TypeOK /\ WaitBound /\ ElementOrder /\ CounterOrder

-----------------------------------------------------------------------------
(* Arithmetic. *)

\* The successor of a counter is a counter, and 0 follows the last one.
LEMMA CounterArithmetic ==
    /\ \A n \in 0..CounterSize - 1 : (n + 1) % CounterSize \in 0..CounterSize - 1
    /\ (CounterSize - 1 + 1) % CounterSize = 0
<1>1. CounterSize \in Nat /\ CounterSize > 0
  BY BoundsAssumption
<1>2. ASSUME NEW n \in Nat PROVE n % CounterSize \in 0..CounterSize - 1
  BY <1>1, <1>2
<1>3. CounterSize % CounterSize = 0
  <2> DEFINE q == CounterSize \div CounterSize
             r == CounterSize % CounterSize
  <2>1. r \in 0..CounterSize - 1 /\ q \in Int /\ CounterSize = CounterSize * q + r
    BY <1>1
  <2> HIDE DEF q, r
  <2>2. q = 1
    BY <1>1, <2>1
  <2>3. r = 0
    BY <1>1, <2>1, <2>2
  <2> QED
    BY <2>3 DEF r
<1> QED
  BY <1>1, <1>2, <1>3

\* One call makes an element older, and never changes which of two is the newer.
Aged(age) == IF age = Absent THEN Absent ELSE Older(age)

LEMMA AgeArithmetic ==
    ASSUME NEW b \in 0..Absent, NEW p \in 0..Absent
    PROVE  /\ Aged(b) \in 0..Absent
           /\ Aged(b) # Absent <=> b # Absent
           /\ b <= p /\ p # Absent => Aged(b) <= Aged(p)
<1>1. MaxAge \in Nat
  BY BoundsAssumption
<1> QED
  BY <1>1 DEF Aged, Older, Absent

\* The next phase, spelt out.
LEMMA PhaseArithmetic ==
    ASSUME NEW phase \in 0..6, NEW p
    PROVE  NextPhase(phase, p) = IF phase = 6 THEN IF Twin(p) THEN 0 ELSE 1
                                 ELSE IF phase = 5 /\ ~Twin(p) THEN 0 ELSE phase + 1
  BY DEF NextPhase

-----------------------------------------------------------------------------
(* The steps. *)

LEMMA InitIInv == Init => IInv
<1> SUFFICES ASSUME Init PROVE IInv
  OBVIOUS
<1> USE BoundsAssumption, PacksAssumption DEF Init
<1>1. TypeOK
  <2>1. /\ counted \in [Counters -> 0..CounterSize - 1]
        /\ msg_counters \in [Counters -> 0..CounterSize - 1]
        /\ element \in [Frames -> 0..Absent]
    BY DEF Absent
  <2>2. drops \in 0..MaxDrops /\ wait \in Nat /\ legacy_phase \in 0..6 /\ pack \in Packs
    OBVIOUS
  <2> QED
    BY <2>1, <2>2 DEF TypeOK
<1>2. WaitBound
  BY DEF WaitBound
<1>3. ElementOrder
  BY DEF ElementOrder, BeaconLeads, Frames, Absent
<1>4. CounterOrder
  BY DEF CounterOrder, CountersContinue
<1> QED
  BY <1>1, <1>2, <1>3, <1>4 DEF IInv

\* Counting k keeps the counters typed and every kind in sequence.
LEMMA CountStep ==
    ASSUME TypeOK, CounterOrder, NEW k \in Counters, Count(k), initialised' = TRUE
    PROVE  /\ msg_counters' \in [Counters -> 0..CounterSize - 1]
           /\ counted' \in [Counters -> 0..CounterSize - 1]
           /\ CounterOrder'
<1> DEFINE now == CountersNow
<1>1. now \in [Counters -> 0..CounterSize - 1]
  BY BoundsAssumption DEF TypeOK, CountersNow
<1>2. \A j \in Counters : now[j] = (counted[j] + 1) % CounterSize
  BY CounterArithmetic DEF CounterOrder, CountersContinue, CountersNow
<1>3. /\ msg_counters' = [now EXCEPT ![k] = (now[k] + 1) % CounterSize]
      /\ counted' = [counted EXCEPT ![k] = now[k]]
  BY DEF Count
<1>4. (now[k] + 1) % CounterSize \in 0..CounterSize - 1
  BY <1>1, CounterArithmetic
<1> HIDE DEF now
<1>5. /\ msg_counters' \in [Counters -> 0..CounterSize - 1]
      /\ counted' \in [Counters -> 0..CounterSize - 1]
  BY <1>1, <1>3, <1>4 DEF TypeOK
<1>6. \A j \in Counters : msg_counters'[j] = (counted'[j] + 1) % CounterSize
  BY <1>1, <1>2, <1>3 DEF TypeOK
<1> QED
  BY <1>5, <1>6 DEF CounterOrder, CountersContinue

\* Initialising without counting.
LEMMA ClearStep ==
    ASSUME TypeOK, CounterOrder, msg_counters' = CountersNow, counted' = counted, initialised' = TRUE
    PROVE  /\ msg_counters' \in [Counters -> 0..CounterSize - 1]
           /\ CounterOrder'
  BY BoundsAssumption, CounterArithmetic DEF TypeOK, CountersNow, CounterOrder, CountersContinue

LEMMA SetDataStep == IInv /\ SetData => IInv'
<1> SUFFICES ASSUME IInv, SetData PROVE IInv'
  OBVIOUS
<1> USE BoundsAssumption DEF IInv, SetData, bleVars, counts
<1>1. TypeOK'
  BY DEF TypeOK
<1>2. WaitBound'
  BY DEF TypeOK, WaitBound
<1>3. ElementOrder' /\ CounterOrder'
  BY DEF ElementOrder, BeaconLeads, CounterOrder, CountersContinue, Absent
<1> QED
  BY <1>1, <1>2, <1>3

LEMMA LegacyStep == IInv /\ Legacy => IInv'
<1> SUFFICES ASSUME IInv, Legacy PROVE IInv'
  OBVIOUS
<1> USE BoundsAssumption DEF IInv
<1> DEFINE m == PhaseMessage(legacy_phase)
<1>1. /\ legacy_phase \in 0..6 /\ wait \in Nat /\ drops \in 0..MaxDrops /\ MaxDrops \in Nat
      /\ legacy_phase' = NextPhase(legacy_phase, pack)
      /\ wait' = IF legacy_phase = 0 THEN 1 ELSE wait + 1
      /\ drops' = IF legacy_phase = 0 THEN 0 ELSE drops
      /\ pc' = "set_data" /\ initialised' = TRUE /\ started' = TRUE
      /\ UNCHANGED <<pack, longrange, element>>
  BY DEF TypeOK, Legacy, After
<1>2. legacy_phase' = IF legacy_phase = 6 THEN IF Twin(pack) THEN 0 ELSE 1
                      ELSE IF legacy_phase = 5 /\ ~Twin(pack) THEN 0 ELSE legacy_phase + 1
  BY <1>1, PhaseArithmetic
<1>3. WaitBound'
  BY <1>1, <1>2 DEF WaitBound, Twin
<1>4. ElementOrder'
  BY <1>1 DEF ElementOrder, BeaconLeads, Absent
<1>5. /\ msg_counters' \in [Counters -> 0..CounterSize - 1]
      /\ counted' \in [Counters -> 0..CounterSize - 1]
      /\ CounterOrder'
      /\ legacy' \in Messages \cup {HeaderOnly}
  <2>1. CASE m \in Sendable(pack)
    <3>1. m \in Messages
      BY <2>1, PacksAssumption DEF Sendable, TypeOK
    <3>2. Counter(m) \in Counters
      BY <3>1 DEF Messages, Counters, Counter
    <3>3. legacy' = m /\ Count(Counter(m))
      BY <2>1 DEF Legacy
    <3> QED
      BY <1>1, <3>1, <3>2, <3>3, CountStep
  <2>2. CASE m \notin Sendable(pack)
    BY <1>1, <2>2, ClearStep DEF Legacy, TypeOK
  <2> QED
    BY <2>1, <2>2
<1>6. TypeOK'
  BY <1>1, <1>2, <1>5 DEF TypeOK
<1> QED
  BY <1>3, <1>4, <1>5, <1>6

LEMMA LongrangeStep == IInv /\ Longrange => IInv'
<1> SUFFICES ASSUME IInv, Longrange PROVE IInv'
  OBVIOUS
<1> USE BoundsAssumption DEF IInv
<1>1. /\ pc' = "bt4" /\ initialised' = TRUE
      /\ UNCHANGED <<pack, legacy_phase, legacy, element, wait, drops>>
  BY DEF Longrange, After, history
<1>2. WaitBound' /\ ElementOrder'
  BY <1>1 DEF WaitBound, Twin, ElementOrder, BeaconLeads, Absent
<1>3. /\ msg_counters' \in [Counters -> 0..CounterSize - 1]
      /\ counted' \in [Counters -> 0..CounterSize - 1]
      /\ CounterOrder'
      /\ longrange' \in SUBSET Messages /\ started' \in BOOLEAN
  <2>1. CASE Sendable(pack) = {}
    BY <1>1, <2>1, ClearStep DEF Longrange, TypeOK
  <2>2. CASE Sendable(pack) # {}
    <3>1. longrange' = Sendable(pack) /\ started' = TRUE /\ Count("PACKED")
      BY <2>2 DEF Longrange
    <3>2. Sendable(pack) \subseteq Messages
      BY PacksAssumption DEF Sendable, TypeOK
    <3> QED
      BY <1>1, <3>1, <3>2, CountStep DEF Counters
  <2> QED
    BY <2>1, <2>2
<1>4. TypeOK'
  BY <1>1, <1>3 DEF TypeOK
<1> QED
  BY <1>2, <1>3, <1>4

LEMMA BeaconStep == IInv /\ Beacon => IInv'
<1> SUFFICES ASSUME IInv, Beacon PROVE IInv'
  OBVIOUS
<1> USE DEF IInv
<1>1. /\ pc' \in {"remove_beacon", "bt5"}
      /\ UNCHANGED <<pack, bleVars, counts, wait, drops>>
      /\ element \in [Frames -> 0..Absent]
      /\ element' = [f \in Frames |-> Aged(element[f])]
  BY DEF Beacon, After, history, TypeOK, Aged
<1>2. element' \in [Frames -> 0..Absent]
  BY <1>1, AgeArithmetic
<1>3. ElementOrder'
  <2> DEFINE b == element["BEACON"]
             p == element["PROBE_RESP"]
  <2>1. b \in 0..Absent /\ p \in 0..Absent
    BY <1>1 DEF Frames
  <2>2. element'["BEACON"] = Aged(b) /\ element'["PROBE_RESP"] = Aged(p)
    BY <1>1 DEF Frames
  <2>3. b # Absent /\ p # Absent => b <= p
    BY DEF ElementOrder, BeaconLeads
  <2> HIDE DEF b, p
  <2>4. Aged(b) # Absent /\ Aged(p) # Absent => Aged(b) <= Aged(p)
    <3>1. (Aged(b) # Absent <=> b # Absent) /\ (Aged(p) # Absent <=> p # Absent)
      BY <2>1, AgeArithmetic
    <3>2. b <= p /\ p # Absent => Aged(b) <= Aged(p)
      BY <2>1, AgeArithmetic
    <3> QED
      BY <2>3, <3>1, <3>2
  <2>5. Absent' = Absent
    BY DEF Absent
  <2> QED
    BY <1>1, <2>2, <2>4, <2>5 DEF ElementOrder, BeaconLeads
<1>4. WaitBound' /\ CounterOrder'
  BY <1>1 DEF WaitBound, Twin, CounterOrder, CountersContinue, bleVars, counts
<1>5. "removeBeacon" \in Calls /\ ElementCall["removeBeacon"].pc = "remove_beacon"
  BY DEF Calls, ElementCall
<1>6. pc' \in {"set_data", "beacon", "bt5", "bt4"} \cup {ElementCall[c].pc : c \in Calls}
  <2>1. "remove_beacon" \in {ElementCall[c].pc : c \in Calls}
    BY <1>5
  <2> QED
    BY <1>1, <2>1
<1>7. TypeOK'
  BY <1>1, <1>2, <1>6 DEF TypeOK, bleVars, counts, Absent
<1> QED
  BY <1>3, <1>4, <1>7

LEMMA ElementStep == ASSUME NEW c \in Calls, IInv, SetElement(c) \/ ElementFails(c) PROVE IInv'
<1>1. UNCHANGED <<pack, bleVars, counts, wait, drops>>
  BY DEF SetElement, ElementFails, history
<1>2. WaitBound' /\ CounterOrder'
  BY <1>1 DEF IInv, WaitBound, Twin, CounterOrder, CountersContinue, bleVars, counts
<1>3. /\ element \in [Frames -> 0..Absent] /\ ElementOrder
      /\ Absent \in Nat /\ Absent > 0 /\ Absent' = Absent
  BY BoundsAssumption DEF IInv, TypeOK, Absent
<1>4. /\ element' \in [Frames -> 0..Absent]
      /\ pc' \in {"bt5", "add_beacon", "remove_probe", "add_probe"}
      /\ ElementOrder'
  <2>1. CASE ElementFails(c)
    BY <1>3, <2>1 DEF ElementFails, After, ElementOrder, BeaconLeads
  <2>2. CASE SetElement(c) /\ c = "removeBeacon"
    <3>1. /\ pc = "remove_beacon" /\ pc' = "add_beacon"
          /\ element' = [element EXCEPT !["BEACON"] = Absent]
      BY <2>2 DEF SetElement, ElementCall
    <3>2. element' \in [Frames -> 0..Absent]
      BY <1>3, <3>1 DEF Frames
    <3>3. ElementOrder'
      BY <1>3, <3>1 DEF ElementOrder, BeaconLeads, Frames
    <3> QED
      BY <3>1, <3>2, <3>3
  <2>3. CASE SetElement(c) /\ c = "addBeacon"
    <3>1. /\ pc = "add_beacon" /\ pc' = "remove_probe"
          /\ element' = [element EXCEPT !["BEACON"] = 0]
      BY <2>3 DEF SetElement, ElementCall
    <3>2. element' \in [Frames -> 0..Absent]
      BY <1>3, <3>1 DEF Frames
    <3>3. ElementOrder'
      BY <1>3, <3>1 DEF ElementOrder, BeaconLeads, Frames
    <3> QED
      BY <3>1, <3>2, <3>3
  <2>4. CASE SetElement(c) /\ c = "removeProbe"
    <3>1. /\ pc = "remove_probe" /\ pc' = "add_probe"
          /\ element' = [element EXCEPT !["PROBE_RESP"] = Absent]
      BY <2>4 DEF SetElement, ElementCall
    <3>2. element' \in [Frames -> 0..Absent]
      BY <1>3, <3>1 DEF Frames
    <3>3. ElementOrder'
      BY <1>3, <3>1 DEF ElementOrder, BeaconLeads, Frames
    <3> QED
      BY <3>1, <3>2, <3>3
  <2>5. CASE SetElement(c) /\ c = "addProbe"
    <3>1. /\ pc = "add_probe" /\ pc' = "bt5"
          /\ element' = [element EXCEPT !["PROBE_RESP"] = 0]
      BY <2>5 DEF SetElement, ElementCall
    <3>2. element' \in [Frames -> 0..Absent]
      BY <1>3, <3>1 DEF Frames
    <3>3. ElementOrder'
      BY <1>3, <3>1 DEF ElementOrder, BeaconLeads, Frames
    <3> QED
      BY <3>1, <3>2, <3>3
  <2> QED
    BY <2>1, <2>2, <2>3, <2>4, <2>5 DEF Calls
<1>5. pc' \in {"set_data", "beacon", "bt5", "bt4"} \cup {ElementCall[d].pc : d \in Calls}
  BY <1>4 DEF Calls, ElementCall
<1>6. TypeOK'
  BY <1>1, <1>3, <1>4, <1>5 DEF IInv, TypeOK, bleVars, counts
<1> QED
  BY <1>2, <1>4, <1>6 DEF IInv

LEMMA NotDueStep == ASSUME NEW t \in {"beacon", "bt5", "bt4"}, IInv, NotDue(t) PROVE IInv'
<1>1. pc' \in {"bt5", "bt4", "set_data"} /\ UNCHANGED <<pack, bleVars, counts, element, wait, drops>>
  BY DEF NotDue, After, history
<1> QED
  BY <1>1 DEF IInv, TypeOK, WaitBound, Twin, ElementOrder, BeaconLeads, CounterOrder,
              CountersContinue, Absent, bleVars, counts

LEMMA StutterStep == IInv /\ UNCHANGED vars => IInv'
<1> SUFFICES ASSUME IInv, UNCHANGED vars PROVE IInv'
  OBVIOUS
<1> USE DEF IInv, vars, bleVars, counts, history
<1>1. TypeOK'
  BY DEF TypeOK
<1>2. WaitBound'
  BY DEF WaitBound, Twin
<1>3. ElementOrder'
  BY DEF ElementOrder, BeaconLeads, Absent
<1>4. CounterOrder'
  BY DEF CounterOrder, CountersContinue
<1> QED
  BY <1>1, <1>2, <1>3, <1>4

LEMMA Inductive == IInv /\ [Next]_vars => IInv'
  BY SetDataStep, LegacyStep, LongrangeStep, BeaconStep, ElementStep, NotDueStep, StutterStep DEF Next

LEMMA IInvIsInvariant == Spec => []IInv
  BY InitIInv, Inductive, PTL DEF Spec

-----------------------------------------------------------------------------
\* Every variable stays in its type: the phase within its seven values, the counters in a byte.
THEOREM TypeCorrect == Spec => []TypeOK
<1>1. IInv => TypeOK
  BY DEF IInv
<1> QED
  BY IInvIsInvariant, <1>1, PTL

\* The location is not passed over twice for one disappearance of the second identity, however
\* set_data and the rotation interleave (BLE_TX.cpp:316-322).
THEOREM LocationTurn == Spec => []LocationHasItsTurn
<1>1. IInv => LocationHasItsTurn
  <2> SUFFICES ASSUME IInv PROVE LocationHasItsTurn
    OBVIOUS
  <2>1. legacy_phase \in 0..6 /\ wait \in Nat /\ drops \in Nat
    BY BoundsAssumption DEF IInv, TypeOK
  <2> QED
    BY <2>1 DEF IInv, WaitBound, LocationHasItsTurn
<1> QED
  BY IInvIsInvariant, <1>1, PTL

\* Wherever the four calls stop, the probe response is never ahead of the beacon.
THEOREM BeaconFirst == Spec => []BeaconLeads
<1>1. IInv => BeaconLeads
  BY DEF IInv, ElementOrder
<1> QED
  BY IInvIsInvariant, <1>1, PTL

\* Counters follow one another on the air, through init() and either order of the transmissions.
THEOREM CountersInSequence == Spec => []CountersContinue
<1>1. IInv => CountersContinue
  BY DEF IInv, CounterOrder
<1> QED
  BY IInvIsInvariant, <1>1, PTL

=============================================================================
