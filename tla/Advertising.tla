----------------------------- MODULE Advertising -----------------------------
(***************************************************************************)
(* The transmitting end of loop() (RemoteIDModule.ino:579-612): BLE_TX.cpp *)
(* and WiFi_TX.cpp.                                                        *)
(*                                                                         *)
(* Bluetooth 4 advertises one message at a time: transmit_legacy walks     *)
(* through phases, one per call.  Bluetooth 5 sends the whole pack.  The   *)
(* WiFi beacon carries it in a vendor element that is removed and added    *)
(* again, in the beacon and then in the probe response: four calls, each   *)
(* of which may fail and ends the transmission if it does.  WiFi NAN keeps *)
(* nothing but a counter and is left out.                                  *)
(*                                                                         *)
(* A timer that is compared with millis() in every turn of the loop is     *)
(* found expired in some turns and not in others.                          *)
(***************************************************************************)
EXTENDS Integers

CONSTANTS
    Packs,          (* The packs set_data may leave: which messages are     *)
                    (* valid, and which of these do not encode.             *)
    Enabled,        (* The transmitters whose rate is not 0.                *)
    CounterSize,    (* Values of a message counter: 256, a uint8_t.         *)
    MaxAge,         (* Ages of vendor elements, in calls, saturate here.    *)
    MaxDrops        (* Bound: times slot 1 may become empty between two     *)
                    (* turns of the location.                               *)

Messages == {"LOCATION", "BASIC_ID_0", "SELF_ID", "SYSTEM", "OPERATOR_ID", "BASIC_ID_1"}
Counters == {"LOCATION", "BASIC_ID", "SELF_ID", "SYSTEM", "OPERATOR_ID", "PACKED"}

ASSUME PacksAssumption ==
    Packs # {} /\ Packs \subseteq [valid : SUBSET Messages, bad : SUBSET Messages]
ASSUME BoundsAssumption ==
    /\ CounterSize \in Nat \ {0}
    /\ MaxAge \in Nat \ {0}
    /\ MaxDrops \in Nat
    /\ Enabled \subseteq {"beacon", "bt5", "bt4"}

VARIABLES
    pc,             (* Where loop() is.                                     *)
    pack,           (* UAS_data                                             *)
    initialised,    (* BLE_TX::initialised                                  *)
    legacy_phase,
    legacy,         (* What instance 0 advertises: a message or HeaderOnly. *)
    longrange,      (* What instance 1 advertises: the messages of a pack.  *)
    started,
    msg_counters,
    element,        (* Age of the vendor element in each kind of frame.     *)
    counted,        (* History: last counter on the air.                    *)
    wait,           (* History: legacy calls since the location's turn.     *)
    drops           (* History: times slot 1 became empty since then.       *)

bleVars  == <<initialised, legacy_phase, legacy, longrange, started>>
history  == <<wait, drops>>
counts   == <<msg_counters, counted>>
vars     == <<pc, pack, bleVars, counts, element, history>>

-----------------------------------------------------------------------------
(* The pack.                                                               *)

\* What there is to send: valid, and encoded without an error.
Sendable(p) == p.valid \ p.bad

\* BasicIDValid[1]
Twin(p) == "BASIC_ID_1" \in p.valid

\* The cases of transmit_legacy.  Phase 6 has none: the flight time is commented out, and the
\* name, case 7, is a phase the rotation does not have.
PhaseMessage(phase) ==
    CASE phase = 0 -> "LOCATION"  [] phase = 1 -> "BASIC_ID_0"   [] phase = 2 -> "SELF_ID"
      [] phase = 3 -> "SYSTEM"    [] phase = 4 -> "OPERATOR_ID"  [] phase = 5 -> "BASIC_ID_1"
      [] OTHER -> "NONE"

\* A payload of the ASTM header alone: the message of the phase is not valid or does not encode.
HeaderOnly == "NONE"

\* One counter for both basic IDs.
Counter(m) == IF m \in {"BASIC_ID_0", "BASIC_ID_1"} THEN "BASIC_ID" ELSE m

\* legacy_phase++, then % 7 if there is a second identity now, % 6 if there is none.
NextPhase_NoTwin(phase, p) == (phase + 1) % 5
NextPhase_Stuck(phase, p) == IF phase = 5 /\ ~Twin(p) THEN 1 ELSE (phase + 1) % 7
NextPhase(phase, p) == (phase + 1) % (IF Twin(p) THEN 7 ELSE 6)

-----------------------------------------------------------------------------
(* The loop: set_data, then each transmitter if its timer has expired.     *)

After(t) == [beacon |-> "bt5", bt5 |-> "bt4", bt4 |-> "set_data"][t]

\* set_data rebuilds the pack from what has arrived.
SetData ==
    /\ pc = "set_data"
    /\ pc' = "beacon"
    /\ \E p \in Packs :
          /\ Twin(pack) /\ ~Twin(p) => drops < MaxDrops
          /\ pack' = p
          /\ drops' = IF Twin(pack) /\ ~Twin(p) THEN drops + 1 ELSE drops
    /\ UNCHANGED <<bleVars, counts, element, wait>>

\* The timer of t has not expired, or its rate is 0.
NotDue(t) ==
    /\ pc = t
    /\ pc' = After(t)
    /\ UNCHANGED <<pack, bleVars, counts, element, history>>

-----------------------------------------------------------------------------
(* Bluetooth.                                                              *)

\* init() clears the counters the first time it is called.
CountersNow == IF initialised THEN msg_counters ELSE [k \in Counters |-> 0]

Count(k) ==
    /\ msg_counters' = [CountersNow EXCEPT ![k] = (@ + 1) % CounterSize]
    /\ counted' = [counted EXCEPT ![k] = CountersNow[k]]

\* transmit_longrange: nothing is done when there is no pack to send; what is on the air stays.
Longrange ==
    /\ pc = "bt5" /\ "bt5" \in Enabled
    /\ pc' = After("bt5")
    /\ initialised' = TRUE
    /\ IF Sendable(pack) = {}
       THEN /\ msg_counters' = CountersNow
            /\ UNCHANGED <<longrange, started, counted>>
       ELSE /\ longrange' = Sendable(pack)
            /\ started' = TRUE
            /\ Count("PACKED")
    /\ UNCHANGED <<pack, legacy_phase, legacy, element, history>>

\* transmit_legacy: one message, or a header, and on to the next phase whatever was sent.
Legacy ==
    /\ pc = "bt4" /\ "bt4" \in Enabled
    /\ pc' = After("bt4")
    /\ initialised' = TRUE
    /\ started' = TRUE
    /\ LET m == PhaseMessage(legacy_phase) IN
       IF m \in Sendable(pack)
       THEN legacy' = m /\ Count(Counter(m))
       ELSE legacy' = HeaderOnly /\ msg_counters' = CountersNow /\ counted' = counted
    /\ legacy_phase' = NextPhase(legacy_phase, pack)
    /\ wait' = IF legacy_phase = 0 THEN 1 ELSE wait + 1
    /\ drops' = IF legacy_phase = 0 THEN 0 ELSE drops
    /\ UNCHANGED <<pack, longrange, element>>

-----------------------------------------------------------------------------
(* WiFi.  Any call of the driver may fail.                                 *)

\* transmit_beacon: without a pack the elements stay as they are, one call older.
Older(age) == IF age < MaxAge THEN age + 1 ELSE age
Absent == MaxAge + 1
Frames == {"BEACON", "PROBE_RESP"}

Beacon ==
    /\ pc = "beacon" /\ "beacon" \in Enabled
    /\ pc' = IF Sendable(pack) = {} THEN After("beacon") ELSE "remove_beacon"
    /\ element' = [f \in Frames |-> IF element[f] = Absent THEN Absent ELSE Older(element[f])]
    /\ UNCHANGED <<pack, bleVars, counts, history>>

\* The four calls of esp_wifi_set_vendor_ie, in order.  Removing an element that is not there
\* is no error: the first transmit_beacon of all does it.
ElementCall_ProbeFirst ==
    [ removeBeacon |-> [pc |-> "remove_probe", frame |-> "BEACON", age |-> Absent, then |-> "add_probe"],
      addBeacon |-> [pc |-> "add_probe", frame |-> "BEACON", age |-> 0, then |-> "bt5"],
      removeProbe |-> [pc |-> "remove_beacon", frame |-> "PROBE_RESP", age |-> Absent, then |-> "add_beacon"],
      addProbe |-> [pc |-> "add_beacon", frame |-> "PROBE_RESP", age |-> 0, then |-> "remove_probe"] ]
ElementCall_BeaconOnly ==
    [ removeBeacon |-> [pc |-> "remove_beacon", frame |-> "BEACON", age |-> Absent, then |-> "add_beacon"],
      addBeacon |-> [pc |-> "add_beacon", frame |-> "BEACON", age |-> 0, then |-> "bt5"],
      removeProbe |-> [pc |-> "remove_probe", frame |-> "PROBE_RESP", age |-> Absent, then |-> "add_probe"],
      addProbe |-> [pc |-> "add_probe", frame |-> "PROBE_RESP", age |-> 0, then |-> "bt5"] ]
ElementCall ==
    [ removeBeacon |-> [pc |-> "remove_beacon", frame |-> "BEACON", age |-> Absent, then |-> "add_beacon"],
      addBeacon |-> [pc |-> "add_beacon", frame |-> "BEACON", age |-> 0, then |-> "remove_probe"],
      removeProbe |-> [pc |-> "remove_probe", frame |-> "PROBE_RESP", age |-> Absent, then |-> "add_probe"],
      addProbe |-> [pc |-> "add_probe", frame |-> "PROBE_RESP", age |-> 0, then |-> "bt5"] ]
Calls == {"removeBeacon", "addBeacon", "removeProbe", "addProbe"}

SetElement(c) ==
    /\ pc = ElementCall[c].pc
    /\ pc' = ElementCall[c].then
    /\ element' = [element EXCEPT ![ElementCall[c].frame] = ElementCall[c].age]
    /\ UNCHANGED <<pack, bleVars, counts, history>>

ElementFails(c) ==
    /\ pc = ElementCall[c].pc
    /\ pc' = After("beacon")
    /\ UNCHANGED <<pack, bleVars, counts, element, history>>

-----------------------------------------------------------------------------
Init ==
    /\ pc = "set_data"
    /\ pack \in {p \in Packs : ~Twin(p)}
    /\ initialised = FALSE /\ started = FALSE
    /\ legacy_phase = 0 /\ legacy = HeaderOnly
    /\ longrange = {}
    /\ msg_counters = [k \in Counters |-> 0]
    /\ counted = [k \in Counters |-> CounterSize - 1]
    /\ element = [f \in Frames |-> Absent]
    /\ wait = 0 /\ drops = 0

Next ==
    \/ SetData
    \/ \E t \in {"beacon", "bt5", "bt4"} : NotDue(t)
    \/ Beacon \/ Longrange \/ Legacy
    \/ \E c \in Calls : SetElement(c) \/ ElementFails(c)

\* loop() goes on, and a timer that is looked at again and again is at some time found expired.
Fairness ==
    /\ WF_vars(Next)
    /\ SF_vars(Beacon) /\ SF_vars(Longrange) /\ SF_vars(Legacy)

Spec == Init /\ [][Next]_vars /\ Fairness

-----------------------------------------------------------------------------
TypeOK ==
    /\ pc \in {"set_data", "beacon", "bt5", "bt4"} \cup {ElementCall[c].pc : c \in Calls}
    /\ pack \in Packs
    /\ initialised \in BOOLEAN /\ started \in BOOLEAN
    /\ legacy_phase \in 0..6
    /\ legacy \in Messages \cup {HeaderOnly}
    /\ longrange \in SUBSET Messages
    /\ msg_counters \in [Counters -> 0..CounterSize - 1]
    /\ counted \in [Counters -> 0..CounterSize - 1]
    /\ element \in [Frames -> 0..Absent]
    /\ wait \in Nat /\ drops \in 0..MaxDrops

\* The location has its turn at least every seventh call, except that each time slot 1 becomes
\* empty one turn may be passed over: from phase 6, 7 % 6 is 1 (BLE_TX.cpp:316-322).
LocationHasItsTurn == wait <= 6 * (drops + 1) + 1

\* The counters a receiver sees of one kind of message follow one another, whatever else was
\* sent in between and whichever of the two transmissions came first (init() clears them).
CountersContinue ==
    initialised => \A k \in Counters : msg_counters[k] = (counted[k] + 1) % CounterSize

\* If both frames have the element, the probe response is never ahead of the beacon, wherever the
\* four calls stopped (WiFi_TX.cpp:96-112).
BeaconLeads ==
    (Absent \notin {element["BEACON"], element["PROBE_RESP"]}) => element["BEACON"] <= element["PROBE_RESP"]

\* A message that stays sendable is advertised again and again by Bluetooth 4, unless the second
\* identity comes and goes for ever, and from some time on is in every pack Bluetooth 5 advertises.
EveryMessageAdvertised ==
    \A m \in Messages : <>[](m \in Sendable(pack)) =>
        /\ <>[](m \in longrange)
        /\ (<>[]Twin(pack) \/ <>[]~Twin(pack)) => []<>(legacy = m)

\* Once the driver fails no more and there is something to send, both frames carry an element of
\* the latest transmission whenever the transmission is over, whatever failures left behind.
BeaconRecovers ==
    /\ "beacon" \in Enabled
    /\ <>[](Sendable(pack) # {})
    /\ <>[][\A c \in Calls : ~ElementFails(c)]_vars
    => <>[](pc = "bt5" => \A f \in Frames : element[f] = 0)

=============================================================================
