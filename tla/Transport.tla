------------------------------ MODULE Transport ------------------------------
(***************************************************************************)
(* The state that every transport of the RemoteID module shares: the last  *)
(* message of each type, when it arrived, and the arming verdict.  The     *)
(* fields are the static members of class Transport, written by the        *)
(* MAVLink handlers (mavlink.cpp) and the DroneCAN handlers (DroneCAN.cpp) *)
(* and read by the loop (RemoteIDModule.ino).  "The last message of each   *)
(* type, no matter what transport it was on, wins."                        *)
(*                                                                         *)
(* A time stamp last_x_ms is kept as the AGE of the message, in ticks; the *)
(* code only ever tests it against 0 and against a limit, so an age        *)
(* saturates at AgeCap, above every limit.                                 *)
(***************************************************************************)
EXTENDS Integers

CONSTANTS
  Texts,            \* text messages followed, of {"SELF_ID", "OPERATOR_ID"}
  Lists,            \* zone lists consulted, of {"AIRPORT", "PRISON", "COUNTRY"}
  Positions,        \* classes of positions
  ZeroPos,          \* the class of latitude 0 and longitude 0
  Zones,            \* Zones[p]: the lists with a forbidden zone around p
  UasIds,           \* identities; NoId stands for the empty string
  NoId,
  MaxAgeLocation,   \* 3000 ms in the code
  FailAge,          \* 5000 ms
  MaxAgeOther,      \* 22000 ms
  AgeCap,           \* where ages saturate
  Messages          \* the messages the environment may send

VARIABLES
  last_ms,                  \* age of the last message of each kind
  last_location_timestamp,
  last_system_timestamp,
  location, system, basic_id, serial_number, ack_request,
  ack_response,             \* is the stored response an answer to the request?
  fl_status,                \* what DroneCAN reports
  parse_fail,               \* what MAVLink reports, "nullptr" if no fault
  sysid,                    \* has the module a MAVLink system ID?
  g                         \* the parameters the verdict depends on

evidence == <<last_ms, last_location_timestamp, last_system_timestamp,
              location, system, basic_id, serial_number>>
transportVars == <<evidence, ack_request, ack_response, fl_status, parse_fail, sysid, g>>

-----------------------------------------------------------------------------
Never == -1
Age   == (0..AgeCap) \cup {Never}
Kinds == {"LOCATION", "SYSTEM", "SERIAL_NUMBER"} \cup Texts
Stamp == Nat
Options == {"FORCE_ARM_OK", "DONT_SAVE_BASIC_ID_TO_PARAMETERS"} \cup Lists

LocationData == [timestamp : Stamp, pos : Positions, encodes : BOOLEAN]
SystemData   == [timestamp : Stamp, zero : BOOLEAN, encodes : BOOLEAN]
\* An identity or none.  A serial number is the identity whose digits it is
\* (Parameters::get_serial_number), NoId the number 0.
UasId        == UasIds \cup {NoId}
\* `typed`: UAS_TYPE and UAS_ID_TYPE are set; `locked`: LOCK_LEVEL > 0;
\* `mavlink_sysid`: MAVLINK_SYSID is not 0.
Parameters   == [uas_id : UasId, typed : BOOLEAN, options : SUBSET Options,
                 bcast_powerup : BOOLEAN, locked : BOOLEAN, mavlink_sysid : BOOLEAN]
Setting ==
       [name : {"uas_id"}, value : UasId]
  \cup [name : {"options"}, value : SUBSET Options]
  \cup [name : {"typed", "bcast_powerup", "locked", "mavlink_sysid"}, value : BOOLEAN]

\* Messages of either transport.  PARAM_SET is param.GetSet on DroneCAN; a
\* SECURE_COMMAND has a valid signature and stands for one NAME=VALUE of it.  A
\* HEARTBEAT comes from a vehicle.
Message ==
       [type : {"LOCATION"}, via : {"MAVLINK", "DRONECAN"}, data : LocationData]
  \cup [type : {"SYSTEM"}, via : {"MAVLINK", "DRONECAN"}, data : SystemData]
  \cup [type : {"SYSTEM_UPDATE"}, via : {"MAVLINK"}, timestamp : Stamp, zero : BOOLEAN]
  \cup [type : {"TEXT"}, via : {"MAVLINK", "DRONECAN"}, text : Texts]
  \cup [type : {"BASIC_ID"}, via : {"MAVLINK", "DRONECAN"}, uas_id : UasIds, typed : BOOLEAN]
  \cup [type : {"PARAM_SET", "SECURE_COMMAND"}, via : {"MAVLINK", "DRONECAN"}, set : Setting]
  \cup [type : {"HEARTBEAT"}, via : {"MAVLINK"}]
  \cup [type : {"SERIAL_NUMBER"}, via : {"DRONECAN"}, serial_number : UasId]
  \cup [type : {"ACK_REQUEST"}, via : {"DRONECAN"}, status : {"NEED", "DONE"}]

ASSUME TransportAssumption ==
  /\ Texts \subseteq {"SELF_ID", "OPERATOR_ID"}
  /\ Lists \subseteq {"AIRPORT", "PRISON", "COUNTRY"}
  /\ ZeroPos \in Positions
  /\ Zones \in [Positions -> SUBSET Lists]
  /\ NoId \notin UasIds
  /\ MaxAgeLocation \in Nat /\ FailAge \in Nat /\ MaxAgeOther \in Nat
  /\ MaxAgeLocation <= FailAge /\ FailAge <= MaxAgeOther /\ MaxAgeOther < AgeCap
  /\ AgeCap \in Nat
  /\ Messages \subseteq Message

TransportTypeOK ==
  /\ last_ms \in [Kinds -> Age]
  /\ last_location_timestamp \in Stamp
  /\ last_system_timestamp \in Stamp
  /\ location \in LocationData
  /\ system \in SystemData
  /\ basic_id \in UasId
  /\ serial_number \in UasId
  /\ ack_request \in {"ZERO", "NEED", "DONE"}
  /\ ack_response \in {"unset", "stale", "fresh"}
  /\ fl_status \in {"ZERO", "GOOD_TO_ARM", "FAIL_GENERIC", "FAIL_FLYING_NOT_ALLOWED"}
  /\ parse_fail \in {"nullptr", "uninitialised", "Initializing", "reason"}
  /\ sysid \in BOOLEAN
  /\ g \in Parameters

\* Zero-initialised statics.  The generated dialects are not in the
\* repository, so which enumerator has code 0 is not known: "ZERO" stands for it.
TransportInit ==
  /\ last_ms = [k \in Kinds |-> Never]
  /\ last_location_timestamp = 0
  /\ last_system_timestamp = 0
  /\ location = [timestamp |-> 0, pos |-> ZeroPos, encodes |-> TRUE]
  /\ system = [timestamp |-> 0, zero |-> TRUE, encodes |-> TRUE]
  /\ basic_id = NoId
  /\ serial_number = NoId
  /\ ack_request = "ZERO"
  /\ ack_response = "unset"
  /\ fl_status = "ZERO"
  /\ parse_fail = "uninitialised"
  /\ sysid = g.mavlink_sysid

\* The same after a restart.
TransportReset ==
  /\ last_ms' = [k \in Kinds |-> Never]
  /\ last_location_timestamp' = 0
  /\ last_system_timestamp' = 0
  /\ location' = [timestamp |-> 0, pos |-> ZeroPos, encodes |-> TRUE]
  /\ system' = [timestamp |-> 0, zero |-> TRUE, encodes |-> TRUE]
  /\ basic_id' = NoId
  /\ serial_number' = NoId
  /\ ack_request' = "ZERO"
  /\ ack_response' = "unset"
  /\ fl_status' = "ZERO"
  /\ parse_fail' = "uninitialised"
  /\ sysid' = g'.mavlink_sysid

NextAge(age) == IF age \in {Never, AgeCap} THEN age ELSE age + 1

Tick ==
  /\ last_ms' = [k \in Kinds |-> NextAge(last_ms[k])]
  /\ UNCHANGED <<last_location_timestamp, last_system_timestamp, location, system,
                 basic_id, serial_number, ack_request, ack_response,
                 fl_status, parse_fail, sysid, g>>

-----------------------------------------------------------------------------
(* The handlers.  Each says what it changes of the evidence; Handle below   *)
(* frames the rest.                                                         *)

Touch(k) == last_ms' = [last_ms EXCEPT ![k] = 0]

\* MAVLink refreshes the age of a location whatever its timestamp.
MavlinkLocation(d) ==
  /\ location' = d
  /\ last_location_timestamp' = d.timestamp
  /\ Touch("LOCATION")
  /\ UNCHANGED <<last_system_timestamp, system, basic_id, serial_number>>

\* DroneCAN refreshes it only when the timestamp differs.
handle_Location(d) ==
  /\ location' = d
  /\ \/ /\ last_location_timestamp # d.timestamp
        /\ Touch("LOCATION")
        /\ last_location_timestamp' = d.timestamp
     \/ /\ last_location_timestamp = d.timestamp
        /\ UNCHANGED <<last_ms, last_location_timestamp>>
  /\ UNCHANGED <<last_system_timestamp, system, basic_id, serial_number>>

\* The two transports treat a SYSTEM message alike.
handle_System(d) ==
  /\ system' = d
  /\ \/ /\ last_system_timestamp # d.timestamp \/ d.timestamp = 0
        /\ Touch("SYSTEM")
        /\ last_system_timestamp' = d.timestamp
     \/ /\ last_system_timestamp = d.timestamp /\ d.timestamp # 0
        /\ UNCHANGED <<last_ms, last_system_timestamp>>
  /\ UNCHANGED <<last_location_timestamp, location, basic_id, serial_number>>

\* Counts as an update only when a SYSTEM message came before.
MavlinkSystemUpdate(m) ==
  /\ system' = [system EXCEPT !.timestamp = m.timestamp, !.zero = m.zero]
  /\ \/ /\ last_ms["SYSTEM"] # Never
        /\ Touch("SYSTEM")
        /\ last_system_timestamp' = m.timestamp
     \/ /\ last_ms["SYSTEM"] = Never
        /\ UNCHANGED <<last_ms, last_system_timestamp>>
  /\ UNCHANGED <<last_location_timestamp, location, basic_id, serial_number>>

handle_Text(t) ==
  /\ Touch(t)
  /\ UNCHANGED <<last_location_timestamp, last_system_timestamp, location,
                 system, basic_id, serial_number>>

\* A message with an empty identity or an unknown id_type is dropped (no step).
\* One without a ua_type is kept, and set_data then has no identity to use.
handle_BasicID(m) ==
  /\ basic_id' = IF m.typed THEN m.uas_id ELSE NoId
  /\ UNCHANGED <<last_ms, last_location_timestamp, last_system_timestamp,
                 location, system, serial_number>>

handle_SerialNumber(n) ==
  /\ serial_number' = n
  /\ Touch("SERIAL_NUMBER")
  /\ UNCHANGED <<last_location_timestamp, last_system_timestamp, location,
                 system, basic_id>>

\* A request for an answer makes the stored response one to an earlier request.
handle_AckRequest(status) ==
  /\ ack_request' = status
  /\ ack_response' = IF status = "NEED" /\ ack_response = "fresh"
                       THEN "stale" ELSE ack_response

\* MAVLink sets numbers only and, when locked, the lock level only, "upwards" by
\* a comparison of bytes: a byte above 127 is stored as a negative level, and
\* the module is unlocked.  DroneCAN sets strings too, and nothing when locked.
\* A secure command sets anything, locked or not.
MaySet(m) ==
  \/ m.type = "SECURE_COMMAND"
  \/ m.via = "DRONECAN" /\ ~g.locked
  \/ m.via = "MAVLINK" /\ m.set.name # "uas_id" /\ (g.locked => m.set.name = "locked")

handle_ParamSet(m) ==
  g' = IF MaySet(m) THEN [g EXCEPT ![m.set.name] = m.set.value] ELSE g

Evidence(m) ==
  \/ m.type = "LOCATION" /\ m.via = "MAVLINK" /\ MavlinkLocation(m.data)
  \/ m.type = "LOCATION" /\ m.via = "DRONECAN" /\ handle_Location(m.data)
  \/ m.type = "SYSTEM" /\ handle_System(m.data)
  \/ m.type = "SYSTEM_UPDATE" /\ MavlinkSystemUpdate(m)
  \/ m.type = "TEXT" /\ handle_Text(m.text)
  \/ m.type = "BASIC_ID" /\ handle_BasicID(m)
  \/ m.type = "SERIAL_NUMBER" /\ handle_SerialNumber(m.serial_number)

\* One message taken from a transport.
Handle(m) ==
  /\ UNCHANGED <<fl_status, parse_fail>>
  /\ \/ Evidence(m) /\ UNCHANGED <<ack_request, ack_response, sysid, g>>
     \/ /\ m.type = "ACK_REQUEST"
        /\ handle_AckRequest(m.status)
        /\ UNCHANGED <<evidence, sysid, g>>
     \/ /\ m.type \in {"PARAM_SET", "SECURE_COMMAND"}
        /\ handle_ParamSet(m)
        /\ UNCHANGED <<evidence, ack_request, ack_response, sysid>>
     \/ /\ m.type = "HEARTBEAT"
        /\ sysid' = TRUE
        /\ UNCHANGED <<evidence, ack_request, ack_response, g>>

-----------------------------------------------------------------------------
(* The arming check. *)

have_basic_id_info == g.uas_id # NoId /\ g.typed
ForceArmOk == "FORCE_ARM_OK" \in g.options
Bypass     == g.options \cap Lists

Older(k, limit) == last_ms[k] = Never \/ last_ms[k] > limit

\* Mutants of Fault: the age of the location, the serial number's value ignored.
Fault_AnyAge ==
  [LOC |-> location.pos = ZeroPos, ID |-> ~have_basic_id_info,
   SYS |-> Older("SYSTEM", MaxAgeLocation), OP_LOC |-> system.zero,
   SN |-> serial_number = NoId \/ Older("SERIAL_NUMBER", MaxAgeOther),
   BAD_RID |-> serial_number \notin {NoId, g.uas_id}]
Fault_AnySerial ==
  [LOC |-> Older("LOCATION", MaxAgeLocation) \/ location.pos = ZeroPos,
   ID |-> ~have_basic_id_info, SYS |-> Older("SYSTEM", MaxAgeLocation),
   OP_LOC |-> system.zero,
   SN |-> serial_number = NoId \/ Older("SERIAL_NUMBER", MaxAgeOther),
   BAD_RID |-> FALSE]

\* The faults status_check names, besides the stale texts.
Fault ==
  [LOC     |-> Older("LOCATION", MaxAgeLocation) \/ location.pos = ZeroPos,
   ID      |-> ~have_basic_id_info,
   SYS     |-> Older("SYSTEM", MaxAgeLocation),
   OP_LOC  |-> system.zero,
   SN      |-> serial_number = NoId \/ Older("SERIAL_NUMBER", MaxAgeOther),
   BAD_RID |-> /\ serial_number \notin {NoId, g.uas_id}
               /\ ~Older("SERIAL_NUMBER", MaxAgeOther)]

Faults == {f \in DOMAIN Fault : Fault[f]} \cup {t \in Texts : Older(t, MaxAgeOther)}

\* LOC and OP_LOC leave the default status; every other fault is "generic".
GenericFaults == Faults \ {"LOC", "OP_LOC"}

\* status_check, given whether set_data already has a reason to refuse, and
\* set_parse_fail with the reason it hands back.
status_check(refused) ==
  LET blocked == refused \/ (~ForceArmOk /\ Faults # {})
  IN  /\ fl_status' = IF ~blocked THEN "GOOD_TO_ARM"
                      ELSE IF ~ForceArmOk /\ GenericFaults # {} THEN "FAIL_GENERIC"
                      ELSE "FAIL_FLYING_NOT_ALLOWED"
      /\ parse_fail' = IF blocked THEN "reason" ELSE "nullptr"

\* arm_status_send of each transport.
ArmStatus(via) ==
  IF via = "DRONECAN" THEN fl_status
  ELSE IF parse_fail = "nullptr" THEN "GOOD_TO_ARM" ELSE "FAIL_GENERIC"
=============================================================================
