---------------------------- MODULE RemoteIDLoop ----------------------------
(***************************************************************************)
(* loop() of RemoteIDModule.ino: take what the transports received, mark   *)
(* the status, decide whether to broadcast, rebuild UAS_data, run the      *)
(* flight-area check and the arming check, broadcast.  One thread runs all *)
(* of it, but the first flight-area check reads whole files and, not to    *)
(* starve the watchdog, runs DroneCAN's update() from inside set_data():   *)
(* messages arrive, and arm statuses leave, in the middle of a verdict.    *)
(***************************************************************************)
EXTENDS Transport

CONSTANTS
  Configs,          \* the parameters the module may boot with
  OtherFaults,      \* may SelfID, OperatorID or BasicID data fail to encode?
  Mounts            \* may the file system be mounted, may it not?

ASSUME LoopAssumption ==
  /\ Configs \subseteq Parameters
  /\ OtherFaults \subseteq BOOLEAN
  /\ Mounts \subseteq BOOLEAN /\ Mounts # {}

VARIABLES
  pc,               \* where loop() is
  UAS_data,         \* the pack that is broadcast and shown on the web page
  origin,           \* position the flight-area check works on
  spiffs_mounted,
  files_read,
  reading,          \* the list being read
  loaded,           \* lists that had an entry within reach when they were read
  inside,           \* is_inside_banned_country > 0
  freed,            \* the arrays were freed after a failed read
  bad,              \* set_data's local: check_parse found a fault
  renamed,          \* history, for a property: the identity's parameters changed
                    \* between the rebuild of the pack and its broadcast
  told              \* last arm status each peer was sent, and the last ack
                    \* since the peer's request

zoneVars == <<origin, spiffs_mounted, files_read, loaded, inside, freed>>
areaVars == <<zoneVars, reading>>
loopVars == <<pc, UAS_data, areaVars, bad, renamed, told>>
vars     == <<transportVars, loopVars>>

-----------------------------------------------------------------------------
Slots == {0, 1}
PC == {"mavlink", "dronecan_send", "dronecan_receive", "head", "gate", "set_data",
       "check", "zones", "scan", "scan_send", "scan_receive", "transmit"}
Scanning == pc \in {"scan", "scan_send", "scan_receive"}
Judging  == pc \in {"check", "zones", "transmit"} \/ Scanning
BypassAll == Lists \subseteq g.options
DontSave  == "DONT_SAVE_BASIC_ID_TO_PARAMETERS" \in g.options
\* What of the parameters says whom the pack names.
NameOf(p) == <<p.uas_id, p.typed, "DONT_SAVE_BASIC_ID_TO_PARAMETERS" \in p.options>>

Pack == [LocationValid : BOOLEAN, SystemValid : BOOLEAN, pos : Positions,
         failure : BOOLEAN, BasicID : [Slots -> UasId]]

TypeOK ==
  /\ TransportTypeOK
  /\ pc \in PC
  /\ UAS_data \in Pack
  /\ origin \in Positions
  /\ spiffs_mounted \in BOOLEAN
  /\ files_read \in BOOLEAN
  /\ reading \in Lists \cup {"none"}
  /\ loaded \subseteq Lists
  /\ inside \in BOOLEAN
  /\ freed \in BOOLEAN
  /\ bad \in BOOLEAN
  /\ renamed \in BOOLEAN
  /\ told \in [MAVLINK : {"none", "GOOD_TO_ARM", "FAIL_GENERIC"},
               DRONECAN : {"none", "ZERO", "GOOD_TO_ARM", "FAIL_GENERIC",
                           "FAIL_FLYING_NOT_ALLOWED"},
               ACK : {"none", "unset", "stale", "fresh"}]

\* odid_initUasData: every field invalid, the position 0,0.
odid_initUasData ==
  [LocationValid |-> FALSE, SystemValid |-> FALSE, pos |-> ZeroPos,
   failure |-> FALSE, BasicID |-> [i \in Slots |-> NoId]]

\* The part of setup() that concerns the loop; only g survives a restart, unless
\* it was a reset to the defaults.
Boot ==
  /\ pc = "mavlink"
  /\ UAS_data = odid_initUasData
  /\ origin = ZeroPos
  /\ spiffs_mounted \in Mounts
  /\ files_read = FALSE
  /\ reading = "none"
  /\ loaded = {}
  /\ inside = FALSE
  /\ freed = FALSE
  /\ bad = FALSE
  /\ renamed = FALSE

Init ==
  /\ g \in Configs
  /\ TransportInit
  /\ Boot
  /\ told = [MAVLINK |-> "none", DRONECAN |-> "none", ACK |-> "none"]

-----------------------------------------------------------------------------
(* update() of the transports. *)

\* Nothing is sent without a system ID, learnt from a heartbeat (Handle) or taken
\* from the parameter once that is set.
MavlinkSend ==
  /\ pc = "mavlink"
  /\ \/ /\ sysid
        /\ told' = [told EXCEPT !.MAVLINK = ArmStatus("MAVLINK")]
        /\ UNCHANGED sysid
     \/ /\ ~sysid /\ g.mavlink_sysid
        /\ sysid' = TRUE
        /\ UNCHANGED told
  /\ UNCHANGED <<evidence, ack_request, ack_response, fl_status, parse_fail, g,
                 pc, UAS_data, areaVars, bad, renamed>>

MavlinkReceive(m) ==
  /\ pc = "mavlink"
  /\ m.via = "MAVLINK"
  /\ Handle(m)
  /\ UNCHANGED loopVars

MavlinkDone ==
  /\ pc = "mavlink"
  /\ pc' = "dronecan_send"
  /\ UNCHANGED <<transportVars, UAS_data, areaVars, bad, renamed, told>>

\* What DroneCAN sends is due by its own timers: the arm status every 500 ms,
\* the ack every 100 ms while one is requested.
DroneCANSend(due) ==
  /\ pc \in {"dronecan_send", "scan_send"}
  /\ "ACK" \in due => ack_request = "NEED"
  /\ pc' = IF pc = "scan_send" THEN "scan_receive" ELSE "dronecan_receive"
  /\ told' = [told EXCEPT
                !.DRONECAN = IF "ARM" \in due THEN ArmStatus("DRONECAN") ELSE @,
                !.ACK = IF "ACK" \in due THEN ack_response ELSE @]
  /\ UNCHANGED <<transportVars, UAS_data, areaVars, bad, renamed>>

DroneCANReceive(m) ==
  /\ pc \in {"dronecan_receive", "scan_receive"}
  /\ m.via = "DRONECAN"
  /\ Handle(m)
  /\ told' = IF m.type = "ACK_REQUEST" THEN [told EXCEPT !.ACK = "none"] ELSE told
  /\ renamed' = (renamed \/ (Judging /\ NameOf(g') # NameOf(g)))
  /\ UNCHANGED <<pc, UAS_data, areaVars, bad>>

DroneCANDone ==
  /\ pc \in {"dronecan_receive", "scan_receive"}
  /\ pc' = IF pc = "scan_receive" THEN "scan" ELSE "head"
  /\ UNCHANGED <<transportVars, UAS_data, areaVars, bad, renamed, told>>

-----------------------------------------------------------------------------
(* The body of loop(). *)

SystemFailure_StaleOnly ==       \* mutant: the refusal forgotten
  Older("LOCATION", FailAge) \/ Older("SYSTEM", FailAge)
SystemFailure ==
  Older("LOCATION", FailAge) \/ Older("SYSTEM", FailAge) \/ parse_fail # "nullptr"

\* Stale or refused data turns the status of the LAST pack to failure, for the
\* web page, which is served next.
Head ==
  /\ pc = "head"
  /\ pc' = "gate"
  /\ UAS_data' = [UAS_data EXCEPT !.failure = @ \/ SystemFailure]
  /\ UNCHANGED <<transportVars, areaVars, bad, renamed, told>>

AckWanted_Once == ack_request = "NEED" /\ ack_response = "unset"  \* mutant
AckWanted == ack_request = "NEED"

\* With BCAST_POWERUP the location is marked valid; without, nothing is
\* broadcast before a location came.  Then a requested ack is computed.
Gate ==
  /\ pc = "gate"
  /\ \/ /\ ~g.bcast_powerup /\ last_ms["LOCATION"] = Never
        /\ pc' = "mavlink"
        /\ UNCHANGED <<UAS_data, ack_response>>
     \/ /\ g.bcast_powerup \/ last_ms["LOCATION"] # Never
        /\ pc' = "set_data"
        /\ UAS_data' = IF g.bcast_powerup /\ ~UAS_data.LocationValid
                         THEN [UAS_data EXCEPT !.failure = TRUE, !.LocationValid = TRUE]
                         ELSE UAS_data
        /\ ack_response' = IF AckWanted THEN "fresh" ELSE ack_response
  /\ UNCHANGED <<evidence, ack_request, fl_status, parse_fail, sysid, g, areaVars, bad, renamed, told>>

-----------------------------------------------------------------------------
(* set_data().  Its first half rebuilds the pack from the transports and the *)
(* parameters, its second half judges it.                                    *)

\* The identity is persisted from a usable BASIC_ID message while there is none,
\* or none with its types.
Persists == ~have_basic_id_info /\ ~DontSave /\ basic_id # NoId
PersistedId == IF Persists THEN basic_id ELSE g.uas_id
HasId == have_basic_id_info \/ Persists

\* The stored identity fills slot 0 and a different streamed one slot 1; with
\* DONT_SAVE the streamed one is compared with the slot 0 just cleared.
\* UAS_ID_2 is not set.
BasicIDs ==
  [i \in Slots |->
     IF DontSave THEN IF i = 1 THEN basic_id ELSE NoId
     ELSE IF ~HasId THEN NoId
     ELSE IF i = 0 THEN PersistedId
     ELSE IF basic_id # PersistedId THEN basic_id ELSE NoId]

NewPack ==
  [LocationValid |-> location.timestamp # 0,
   SystemValid   |-> system.timestamp # 0,
   pos           |-> IF location.timestamp # 0 THEN location.pos ELSE ZeroPos,
   failure       |-> FALSE,
   BasicID       |-> BasicIDs]

LocationEncodes == location.timestamp = 0 \/ location.encodes
SystemEncodes   == system.timestamp = 0 \/ system.encodes

\* check_parse: whether some message of the pack does not encode, of the kinds
\* whose contents the model leaves out too (`other`).
check_parse(other) == ~LocationEncodes \/ ~SystemEncodes \/ other

\* A location that does not encode leaves the position of the last check.
CheckedPosition_Shown == UAS_data.pos   \* mutant: taken before the rebuild
CheckedPosition == IF LocationEncodes THEN NewPack.pos ELSE origin

\* Rebuild the pack, check that it encodes, hand a location that does to the
\* flight-area check.
SetData ==
  /\ pc = "set_data"
  /\ pc' = "check"
  /\ UAS_data' = NewPack
  /\ g' = [g EXCEPT !.uas_id = PersistedId, !.typed = @ \/ Persists]
  /\ \E other \in OtherFaults : bad' = check_parse(other)
  /\ origin' = CheckedPosition
  /\ UNCHANGED <<evidence, ack_request, ack_response, fl_status, parse_fail, sysid,
                 spiffs_mounted, files_read, reading, loaded, inside, freed, renamed, told>>

\* The verdict, once the flight-area check has said whether it refuses.
Judge(refused) ==
  /\ status_check(bad \/ refused)
  /\ pc' = "transmit"
  /\ UNCHANGED <<evidence, ack_request, ack_response, sysid, g, UAS_data, bad, renamed, told>>

\* The zone lists are read once, when the peer has confirmed the ack handshake;
\* until then the zone checks run on no list at all.
MustRead_Again == ack_request = "DONE"   \* mutant: not remembered
MustRead == ~files_read /\ ack_request = "DONE"

\* The lists are read in this order, each unless it is bypassed when its turn comes.
Rank == [AIRPORT |-> 1, COUNTRY |-> 2, PRISON |-> 3]
Unread(rank) == {l \in Lists \ Bypass : Rank[l] > rank}
Open(rank) == \E l \in Unread(rank) :
  reading' = l /\ \A k \in Unread(rank) : Rank[l] <= Rank[k]

\* is_flying_allowed up to the zone checks.
CheckArea ==
  /\ pc = "check"
  /\ \/ BypassAll /\ Judge(FALSE) /\ UNCHANGED reading
     \/ /\ ~BypassAll /\ (~spiffs_mounted \/ origin = ZeroPos)
        /\ Judge(TRUE) /\ UNCHANGED reading
     \/ /\ ~BypassAll /\ spiffs_mounted /\ origin # ZeroPos
        /\ \/ MustRead /\ pc' = "scan" /\ Open(0)
           \/ ~MustRead /\ pc' = "zones" /\ UNCHANGED reading
        /\ UNCHANGED <<transportVars, UAS_data, bad, renamed, told>>
  /\ UNCHANGED zoneVars

Near_BypassedOnly(l) == l \in loaded \cap Bypass /\ l \in Zones[origin]   \* mutant

\* A list names a zone around the origin.  Only COUNTRY has a second way, kept
\* from when the file was read and not recomputed.
Near(l) ==
  IF l \in loaded \ Bypass THEN l \in Zones[origin] ELSE l = "COUNTRY" /\ inside

\* What the zone checks find in freed arrays is undefined.
CheckZones ==
  /\ pc = "zones"
  /\ \/ Judge(\E l \in Lists : Near(l))
     \/ freed /\ loaded # {} /\ \E refused \in BOOLEAN : Judge(refused)
  /\ UNCHANGED areaVars

\* Mutants: one of the two forgotten.
Refuse_StatusOnly == fl_status' = "FAIL_FLYING_NOT_ALLOWED" /\ UNCHANGED parse_fail
Refuse_TextOnly   == parse_fail' = "Initializing" /\ UNCHANGED fl_status
Refuse == fl_status' = "FAIL_FLYING_NOT_ALLOWED" /\ parse_fail' = "Initializing"

\* reset_wdt, every 500 ms of reading: refuse on both transports and run
\* DroneCAN's update(), back to reading when it is done.
WatchdogUpdate ==
  /\ pc = "scan"
  /\ pc' = "scan_send"
  /\ Refuse
  /\ UNCHANGED <<evidence, ack_request, ack_response, sysid, g, UAS_data, areaVars, bad, renamed, told>>

\* The end of a file: it may have had entries within reach of the origin.
FileEnds(l) ==
  /\ pc = "scan" /\ reading = l
  /\ loaded' \in {loaded, loaded \cup {l}}
  /\ inside' \in IF l = "COUNTRY" THEN BOOLEAN ELSE {inside}
  /\ UNCHANGED <<origin, spiffs_mounted>>

ReadNext(l) ==
  /\ FileEnds(l)
  /\ Open(Rank[l])
  /\ UNCHANGED <<transportVars, pc, files_read, freed, UAS_data, bad, renamed, told>>

ReadDone(l) ==
  /\ FileEnds(l)
  /\ Unread(Rank[l]) = {}
  /\ pc' = "zones"
  /\ files_read' = TRUE
  /\ reading' = "none"
  /\ UNCHANGED <<transportVars, freed, UAS_data, bad, renamed, told>>

\* One of them was missing or empty, or memory ran out: the arrays are freed, and
\* read into again by the next loop.
ReadFailed(l) ==
  /\ FileEnds(l)
  /\ Unread(Rank[l]) = {}
  /\ freed' = TRUE
  /\ reading' = "none"
  /\ Judge(TRUE)
  /\ UNCHANGED files_read

Transmit ==
  /\ pc = "transmit"
  /\ pc' = "mavlink"
  /\ renamed' = FALSE
  /\ UNCHANGED <<transportVars, UAS_data, areaVars, bad, told>>

-----------------------------------------------------------------------------
Time == Tick /\ UNCHANGED loopVars

\* Every step of the loop but the receptions.
Progress ==
  \/ MavlinkDone
  \/ \E due \in SUBSET {"ARM", "ACK"} : DroneCANSend(due)
  \/ DroneCANDone
  \/ Head \/ Gate \/ SetData \/ CheckArea \/ CheckZones
  \/ WatchdogUpdate
  \/ \E l \in Lists : ReadNext(l) \/ ReadDone(l) \/ ReadFailed(l)
  \/ Transmit

Run ==
  \/ Time
  \/ MavlinkSend
  \/ \E m \in Messages : MavlinkReceive(m) \/ DroneCANReceive(m)
  \/ Progress

\* Power loss, watchdog or RestartNode: what the peers were told stays theirs.
Restart ==
  /\ g' \in Configs \cup {g}
  /\ TransportReset
  /\ pc' = "mavlink"
  /\ UAS_data' = odid_initUasData
  /\ origin' = ZeroPos
  /\ spiffs_mounted' \in Mounts
  /\ files_read' = FALSE
  /\ reading' = "none"
  /\ loaded' = {}
  /\ inside' = FALSE
  /\ freed' = FALSE
  /\ bad' = FALSE
  /\ renamed' = FALSE
  /\ UNCHANGED told

Next == Run \/ Restart

Spec == Init /\ [][Next]_vars

\* After the last restart: loop() is called forever, the files end, and a timer
\* that is due again and again is served.
Fairness ==
  /\ WF_vars(Progress)
  /\ SF_vars(\E l \in Lists : ReadNext(l) \/ ReadDone(l) \/ ReadFailed(l))
  /\ SF_vars(MavlinkSend)
  /\ SF_vars(\E due \in SUBSET {"ARM", "ACK"} : "ARM" \in due /\ DroneCANSend(due))
  /\ SF_vars(\E due \in SUBSET {"ARM", "ACK"} : "ACK" \in due /\ DroneCANSend(due))
FairSpec == Init /\ [][Run]_vars /\ Fairness

-----------------------------------------------------------------------------
(* Properties. *)

\* MAVLink derives its arm status from parse_fail and DroneCAN from fl_status,
\* two variables written in three places: they never say different things,
\* not before the first verdict and not while the files are read either.
VerdictsAgree == fl_status = "GOOD_TO_ARM" <=> parse_fail = "nullptr"

\* The web page, served between Head and the rebuild of the pack, never shows
\* a vehicle in working order while the transports refuse to arm.
WebShowsRefusal == pc = "gate" /\ fl_status # "GOOD_TO_ARM" => UAS_data.failure

\* A vehicle told that it may arm broadcasts, in that iteration, a valid
\* location, and it is the position the flight-area check worked on, although
\* the transports may have replaced the location while the files were read.
GoodPackWasChecked ==
  pc = "transmit" /\ fl_status = "GOOD_TO_ARM" /\ ~BypassAll =>
    UAS_data.LocationValid /\ UAS_data.pos = origin /\ origin # ZeroPos

\* No good verdict for a broadcast position in a zone of a list that was found
\* to have entries within reach, unless that list is bypassed (or its array
\* freed).
GoodPackOutsideZones ==
  pc = "transmit" /\ fl_status = "GOOD_TO_ARM" /\ ~freed =>
    \A l \in loaded \ Bypass : l \notin Zones[UAS_data.pos]

\* A good verdict names the vehicle: the flight controller's serial number is
\* the stored identity's, and slot 0 of the pack is that identity, although the
\* verdict reads it a nested update later; only when that update itself was told
\* another identity does the one pack still carry the former.
GoodPackNamesVehicle ==
  pc = "transmit" /\ fl_status = "GOOD_TO_ARM" /\ ~ForceArmOk /\ ~DontSave =>
    /\ g.uas_id # NoId /\ serial_number = g.uas_id
    /\ UAS_data.BasicID[0] = g.uas_id \/ renamed

\* No arm status that leaves in the middle of a verdict says good, whatever
\* the verdict before it was.
NoGoodWhileReading ==
  [][Scanning /\ told'.DRONECAN # told.DRONECAN => told'.DRONECAN # "GOOD_TO_ARM"]_vars

\* When the location stays stale, both peers are told not to arm, and not told
\* otherwise again.
SilenceIsReported ==
  <>[](Older("LOCATION", MaxAgeLocation) /\ ~ForceArmOk) =>
    <>[](told.MAVLINK # "GOOD_TO_ARM" /\ told.DRONECAN # "GOOD_TO_ARM")

\* When the evidence stays complete and clear of every zone, both peers are
\* told to arm, whatever happened before (a failed read of the files excepted);
\* MAVLink's once the module has a system ID.
Clear ==
  /\ ForceArmOk \/ Faults = {}
  /\ sysid
  /\ location.timestamp # 0 /\ location.encodes /\ SystemEncodes
  /\ Zones[location.pos] = {} /\ ~inside /\ ~freed
  /\ spiffs_mounted \/ BypassAll
EvidenceArms ==
  <>[]Clear => <>[](told.MAVLINK = "GOOD_TO_ARM" /\ told.DRONECAN = "GOOD_TO_ARM")

\* A request for an ack is answered with a response computed for it, or
\* withdrawn, as soon as the loop gets past its gate: at once with
\* BCAST_POWERUP, and else from the first location on, also for a request made
\* before it.
Broadcasts == g.bcast_powerup \/ last_ms["LOCATION"] # Never
NeedIsAnswered ==
  [](ack_request = "NEED" /\ Broadcasts =>
       <>(told.ACK = "fresh" \/ ack_request # "NEED" \/ ~Broadcasts))

-----------------------------------------------------------------------------
(* Why the safety properties hold, step by step: the inductive invariant.   *)

\* From the rebuild of the pack to its broadcast, the pack holds the position
\* under check, unless its location did not encode.
PackUnderCheck ==
  Judging => /\ bad \/ UAS_data.pos = origin
             /\ UAS_data.pos # ZeroPos => UAS_data.LocationValid
             /\ have_basic_id_info /\ ~DontSave /\ ~renamed => UAS_data.BasicID[0] = g.uas_id

\* Zones are only looked at, and files only read, for a known position.
KnownPosition == pc = "zones" \/ Scanning => origin # ZeroPos

\* DroneCAN's nested update runs under a refusal.
RefusedWhileReading == pc \in {"scan_send", "scan_receive"} => fl_status # "GOOD_TO_ARM"

\* What a good verdict has established when the pack is about to leave: it
\* parses, its position is known, is in no zone in memory, the identity is right.
GoodToGo == pc = "transmit" /\ fl_status = "GOOD_TO_ARM"
GoodParses == GoodToGo => ~bad
GoodKnown  == GoodToGo /\ ~BypassAll => origin # ZeroPos
GoodClear  == GoodToGo /\ ~freed => \A l \in loaded \ Bypass : l \notin Zones[origin]
GoodNamed  == GoodToGo /\ ~ForceArmOk => have_basic_id_info /\ serial_number = g.uas_id
GoodVerdict == GoodParses /\ GoodKnown /\ GoodClear /\ GoodNamed

IInv ==
  /\ TypeOK
  /\ VerdictsAgree
  /\ PackUnderCheck
  /\ KnownPosition
  /\ RefusedWhileReading
  /\ GoodVerdict

-----------------------------------------------------------------------------
(* What a comment says, and the code does not do. *)

\* "if we are broadcasting on powerup we always mark location valid so the
\* location with default data is sent": it is marked, and then set_data clears
\* the pack before it is sent.
DefaultLocationIsSent ==
  pc = "transmit" /\ g.bcast_powerup => UAS_data.LocationValid
=============================================================================
