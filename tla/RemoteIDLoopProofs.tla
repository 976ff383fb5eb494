------------------------- MODULE RemoteIDLoopProofs -------------------------
(***************************************************************************)
(* Proofs about RemoteIDLoop, for every set of messages, configurations,   *)
(* positions, zones and limits.  IInv is inductive: the lemmas below show  *)
(* it for the receptions, then step by step for the loop.                  *)
(***************************************************************************)
EXTENDS RemoteIDLoop, TLAPS

-----------------------------------------------------------------------------
(* Types. *)

\* What the type of a message says of its fields.
LEMMA MessageFields ==
  ASSUME NEW m \in Messages
  PROVE  /\ m.type = "LOCATION" => m.data \in LocationData
         /\ m.type = "SYSTEM" => m.data \in SystemData
         /\ m.type = "SYSTEM_UPDATE" => m.timestamp \in Stamp /\ m.zero \in BOOLEAN
         /\ m.type = "TEXT" => m.text \in Texts
         /\ m.type = "BASIC_ID" => m.uas_id \in UasIds
         /\ m.type \in {"PARAM_SET", "SECURE_COMMAND"} => m.set \in Setting
         /\ m.type = "SERIAL_NUMBER" => m.serial_number \in UasId
         /\ m.type = "ACK_REQUEST" => m.status \in {"NEED", "DONE"}
<1>1. m \in Message
  BY TransportAssumption
<1> QED
  BY <1>1 DEF Message

\* Setting a parameter, over either link, leaves every one of its type.
LEMMA SettingType ==
  ASSUME g \in Parameters, NEW m \in Messages,
         m.type \in {"PARAM_SET", "SECURE_COMMAND"}, handle_ParamSet(m)
  PROVE  g' \in Parameters
<1>1. m.set \in Setting
  BY MessageFields
<1>2. CASE ~MaySet(m)
  BY <1>2 DEF handle_ParamSet
<1>3. CASE m.set.name = "uas_id" /\ m.set.value \in UasId /\ MaySet(m)
  BY <1>3 DEF handle_ParamSet, Parameters
<1>4. CASE m.set.name = "options" /\ m.set.value \in SUBSET Options /\ MaySet(m)
  BY <1>4 DEF handle_ParamSet, Parameters
<1>5. CASE /\ m.set.name \in {"typed", "bcast_powerup", "locked", "mavlink_sysid"}
           /\ m.set.value \in BOOLEAN
           /\ MaySet(m)
  BY <1>5 DEF handle_ParamSet, Parameters
<1> QED
  BY <1>1, <1>2, <1>3, <1>4, <1>5 DEF Setting

\* A reception keeps the shared state well typed.
LEMMA HandleType ==
  ASSUME TransportTypeOK, NEW m \in Messages, Handle(m)
  PROVE  TransportTypeOK'
<1> USE TransportAssumption DEF TransportTypeOK, Kinds, Age, Touch
<1>1. CASE Evidence(m) /\ UNCHANGED <<ack_request, ack_response, sysid, g>>
  <2>1. CASE m.type = "LOCATION" /\ m.via = "MAVLINK" /\ MavlinkLocation(m.data)
    BY <1>1, <2>1, MessageFields DEF Handle, MavlinkLocation, LocationData
  <2>2. CASE m.type = "LOCATION" /\ m.via = "DRONECAN" /\ handle_Location(m.data)
    BY <1>1, <2>2, MessageFields DEF Handle, handle_Location, LocationData
  <2>3. CASE m.type = "SYSTEM" /\ handle_System(m.data)
    BY <1>1, <2>3, MessageFields DEF Handle, handle_System, SystemData
  <2>4. CASE m.type = "SYSTEM_UPDATE" /\ MavlinkSystemUpdate(m)
    <3>1. m.timestamp \in Stamp /\ m.zero \in BOOLEAN
      BY <2>4, MessageFields
    <3>2. system' \in SystemData
      BY <2>4, <3>1 DEF MavlinkSystemUpdate, SystemData
    <3>3. last_ms' \in [Kinds -> Age] /\ last_system_timestamp' \in Stamp
      BY <2>4, <3>1 DEF MavlinkSystemUpdate
    <3> QED
      BY <1>1, <2>4, <3>2, <3>3 DEF Handle, MavlinkSystemUpdate
  <2>5. CASE m.type = "TEXT" /\ handle_Text(m.text)
    BY <1>1, <2>5, MessageFields DEF Handle, handle_Text
  <2>6. CASE m.type = "BASIC_ID" /\ handle_BasicID(m)
    BY <1>1, <2>6, MessageFields DEF Handle, handle_BasicID, UasId
  <2>7. CASE m.type = "SERIAL_NUMBER" /\ handle_SerialNumber(m.serial_number)
    BY <1>1, <2>7, MessageFields DEF Handle, handle_SerialNumber
  <2> QED
    BY <1>1, <2>1, <2>2, <2>3, <2>4, <2>5, <2>6, <2>7 DEF Evidence
<1>2. CASE /\ m.type = "ACK_REQUEST"
           /\ handle_AckRequest(m.status)
           /\ UNCHANGED <<evidence, sysid, g>>
  BY <1>2, MessageFields DEF Handle, handle_AckRequest, evidence
<1>3. CASE /\ m.type \in {"PARAM_SET", "SECURE_COMMAND"}
           /\ handle_ParamSet(m)
           /\ UNCHANGED <<evidence, ack_request, ack_response, sysid>>
  <2>1. g' \in Parameters
    BY <1>3, SettingType
  <2> QED
    BY <1>3, <2>1 DEF Handle, evidence
<1>4. CASE /\ m.type = "HEARTBEAT"
           /\ sysid' = TRUE
           /\ UNCHANGED <<evidence, ack_request, ack_response, g>>
  BY <1>4 DEF Handle, evidence
<1> QED
  BY <1>1, <1>2, <1>3, <1>4 DEF Handle

\* The arming check leaves the other statics alone and writes legal statuses.
LEMMA JudgeType ==
  ASSUME TypeOK, NEW refused \in BOOLEAN, Judge(refused)
  PROVE  TransportTypeOK' /\ pc' \in PC
BY DEF Judge, status_check, TypeOK, TransportTypeOK, evidence, PC

\* No step leaves the types.
THEOREM TypeCorrect == Spec => []TypeOK
<1> USE TransportAssumption, LoopAssumption
<1>1. Init => TypeOK
  <2> SUFFICES ASSUME Init PROVE TypeOK
    OBVIOUS
  <2>1. TransportTypeOK
    BY DEF Init, TransportInit, TransportTypeOK, Age, Kinds, Stamp, LocationData,
           SystemData, UasId, Parameters
  <2>2. UAS_data \in Pack
    BY DEF Init, Boot, Pack, odid_initUasData, UasId
  <2> QED
    BY <2>1, <2>2 DEF Init, Boot, TypeOK, PC
<1>2. ASSUME TypeOK, [Next]_vars
      PROVE  TypeOK'
  <2> USE <1>2
  <2>1. CASE Time
    <3>1. last_ms' \in [Kinds -> Age]
      BY <2>1 DEF Time, Tick, NextAge, TypeOK, TransportTypeOK, Age
    <3> QED
      BY <2>1, <3>1 DEF Time, Tick, TypeOK, TransportTypeOK, loopVars, areaVars, zoneVars
  <2>2. CASE MavlinkSend
    <3>1. /\ told' \in [MAVLINK : {"none", "GOOD_TO_ARM", "FAIL_GENERIC"},
                        DRONECAN : {"none", "ZERO", "GOOD_TO_ARM", "FAIL_GENERIC",
                                    "FAIL_FLYING_NOT_ALLOWED"},
                        ACK : {"none", "unset", "stale", "fresh"}]
          /\ sysid' \in BOOLEAN
      BY <2>2 DEF MavlinkSend, ArmStatus, TypeOK, TransportTypeOK
    <3> QED
      BY <2>2, <3>1 DEF MavlinkSend, TypeOK, TransportTypeOK, evidence, areaVars, zoneVars
  <2>3. ASSUME NEW m \in Messages, MavlinkReceive(m)
        PROVE  TypeOK'
    BY <2>3, HandleType DEF MavlinkReceive, TypeOK, loopVars, areaVars, zoneVars
  <2>4. ASSUME NEW m \in Messages, DroneCANReceive(m)
        PROVE  TypeOK'
    BY <2>4, HandleType DEF DroneCANReceive, TypeOK, areaVars, zoneVars
  <2>5. CASE MavlinkDone
    BY <2>5 DEF MavlinkDone, TypeOK, TransportTypeOK, transportVars, evidence, areaVars, zoneVars, PC
  <2>6. ASSUME NEW due \in SUBSET {"ARM", "ACK"}, DroneCANSend(due)
        PROVE  TypeOK'
    <3>1. /\ ArmStatus("DRONECAN") \in {"ZERO", "GOOD_TO_ARM", "FAIL_GENERIC",
                                        "FAIL_FLYING_NOT_ALLOWED"}
          /\ ack_response \in {"unset", "stale", "fresh"}
      BY DEF ArmStatus, TypeOK, TransportTypeOK
    <3>2. told' \in [MAVLINK : {"none", "GOOD_TO_ARM", "FAIL_GENERIC"},
                     DRONECAN : {"none", "ZERO", "GOOD_TO_ARM", "FAIL_GENERIC",
                                 "FAIL_FLYING_NOT_ALLOWED"},
                     ACK : {"none", "unset", "stale", "fresh"}]
      BY <2>6, <3>1 DEF DroneCANSend, TypeOK
    <3> QED
      BY <2>6, <3>2 DEF DroneCANSend, TypeOK, TransportTypeOK, transportVars, evidence, areaVars, zoneVars, PC
  <2>7. CASE DroneCANDone
    BY <2>7 DEF DroneCANDone, TypeOK, TransportTypeOK, transportVars, evidence, areaVars, zoneVars, PC
  <2>8. CASE Head
    <3>1. PICK f \in BOOLEAN : UAS_data' = [UAS_data EXCEPT !.failure = f]
      BY <2>8 DEF Head, TypeOK, Pack
    <3>2. UAS_data' \in Pack
      BY <3>1 DEF TypeOK, Pack
    <3>3. TransportTypeOK'
      BY <2>8 DEF Head, TypeOK, TransportTypeOK, transportVars, evidence
    <3> QED
      BY <2>8, <3>2, <3>3 DEF Head, TypeOK, areaVars, zoneVars, PC
  <2>9. CASE Gate
    <3>1. UAS_data' \in Pack
      <4>1. \/ UAS_data' = UAS_data
            \/ UAS_data' = [UAS_data EXCEPT !.failure = TRUE, !.LocationValid = TRUE]
        BY <2>9, Zenon DEF Gate
      <4>2. UAS_data \in Pack
        BY DEF TypeOK
      <4> QED BY ONLY <4>1, <4>2 DEF Pack
    <3> QED
      BY <2>9, <3>1 DEF Gate, TypeOK, TransportTypeOK, evidence, areaVars, zoneVars, PC
  <2>10. CASE SetData
    <3>1. PersistedId \in UasId /\ BasicIDs \in [Slots -> UasId]
      BY DEF PersistedId, Persists, BasicIDs, TypeOK, TransportTypeOK, Parameters, UasId
    <3>2. NewPack \in Pack
      BY <3>1 DEF NewPack, Pack, TypeOK, TransportTypeOK, LocationData
    <3>3. origin' \in Positions
      BY <2>10, <3>2 DEF SetData, check_parse, CheckedPosition, TypeOK, Pack
    <3>4. g' \in Parameters
      BY <2>10, <3>1 DEF SetData, check_parse, TypeOK, TransportTypeOK, Parameters, UasId
    <3>5. bad' \in BOOLEAN
      BY <2>10 DEF SetData, check_parse
    <3> QED
      BY <2>10, <3>2, <3>3, <3>4, <3>5 DEF SetData, check_parse, TypeOK, TransportTypeOK, evidence, PC
  <2>11. CASE CheckArea
    <3>1. TransportTypeOK' /\ pc' \in PC
      <4>1. \/ Judge(FALSE) \/ Judge(TRUE)
            \/ pc' \in {"scan", "zones"} /\ UNCHANGED transportVars
        BY <2>11, Zenon DEF CheckArea
      <4>2. CASE pc' \in {"scan", "zones"} /\ UNCHANGED transportVars
        <5>1. TransportTypeOK
          BY DEF TypeOK
        <5> QED BY ONLY <4>2, <5>1 DEF TransportTypeOK, transportVars, evidence, PC
      <4> QED BY ONLY <1>2, <4>1, <4>2, JudgeType
    <3>2. reading' \in Lists \cup {"none"}
      BY <2>11 DEF CheckArea, Open, Unread, TypeOK
    <3> QED
      BY <2>11, <3>1, <3>2 DEF CheckArea, Judge, TypeOK, zoneVars
  <2>12. CASE CheckZones
    <3>1. TransportTypeOK' /\ pc' \in PC
      BY <2>12, JudgeType DEF CheckZones
    <3> QED
      BY <2>12, <3>1 DEF CheckZones, Judge, TypeOK, areaVars, zoneVars
  <2>13. CASE WatchdogUpdate
    BY <2>13 DEF WatchdogUpdate, Refuse, TypeOK, TransportTypeOK, evidence, areaVars, zoneVars, PC
  <2>14. ASSUME NEW l \in Lists, ReadNext(l) \/ ReadDone(l) PROVE TypeOK'
    <3>1. reading' \in Lists \cup {"none"}
      BY <2>14 DEF ReadNext, ReadDone, Open, Unread
    <3>2. loaded' \subseteq Lists /\ inside' \in BOOLEAN
      BY <2>14 DEF ReadNext, ReadDone, FileEnds, TypeOK
    <3>3. TransportTypeOK'
      BY <2>14 DEF ReadNext, ReadDone, TypeOK, TransportTypeOK, transportVars, evidence
    <3>4. pc' \in PC /\ files_read' \in BOOLEAN /\ freed' \in BOOLEAN
      BY <2>14 DEF ReadNext, ReadDone, TypeOK, PC
    <3> QED
      BY <2>14, <3>1, <3>2, <3>3, <3>4 DEF ReadNext, ReadDone, FileEnds, TypeOK
  <2>15. ASSUME NEW l \in Lists, ReadFailed(l) PROVE TypeOK'
    <3>1. TransportTypeOK' /\ pc' \in PC
      BY <2>15, JudgeType DEF ReadFailed
    <3>2. loaded' \subseteq Lists /\ inside' \in BOOLEAN
      BY <2>15 DEF ReadFailed, FileEnds, TypeOK
    <3> QED
      BY <2>15, <3>1, <3>2 DEF ReadFailed, FileEnds, Judge, TypeOK
  <2>16. CASE Transmit
    <3>1. TransportTypeOK'
      BY <2>16 DEF Transmit, TypeOK, TransportTypeOK, transportVars, evidence
    <3>2. pc' \in PC /\ renamed' \in BOOLEAN
      BY <2>16 DEF Transmit, PC
    <3>3. UNCHANGED <<UAS_data, origin, spiffs_mounted, files_read, reading, loaded,
                      inside, freed, bad, told>>
      BY <2>16 DEF Transmit, areaVars, zoneVars
    <3> QED
      BY <3>1, <3>2, <3>3 DEF TypeOK
  <2>17. CASE Restart
    <3>1. g' \in Parameters
      BY <2>17 DEF Restart, TypeOK, TransportTypeOK
    <3>2. sysid' \in BOOLEAN
      BY <2>17, <3>1 DEF Restart, TransportReset, Parameters
    <3> QED
      BY <2>17, <3>1, <3>2 DEF Restart, TransportReset, TypeOK, TransportTypeOK, Age, Kinds,
         Stamp, LocationData, SystemData, UasId, PC, Pack, odid_initUasData, Slots
  <2>18. CASE UNCHANGED vars
    BY <2>18 DEF vars, loopVars, transportVars, evidence, areaVars, zoneVars, TypeOK, TransportTypeOK
  <2> QED
    BY <2>1, <2>2, <2>3, <2>4, <2>5, <2>6, <2>7, <2>8, <2>9, <2>10, <2>11, <2>12,
       <2>13, <2>14, <2>15, <2>16, <2>17, <2>18 DEF Next, Run, Progress
<1> QED
  BY <1>1, <1>2, PTL DEF Spec

-----------------------------------------------------------------------------
(* Safety. *)

\* The parts of IInv that are not types.
SafetyInv ==
  VerdictsAgree /\ PackUnderCheck /\ KnownPosition /\ RefusedWhileReading /\ GoodVerdict

\* A reception never touches the verdict.
LEMMA HandleFrame ==
  ASSUME NEW m \in Messages, Handle(m)
  PROVE  UNCHANGED <<fl_status, parse_fail>>
BY DEF Handle

\* The pack names what the parameters name as long as these do not change what
\* they say of it.
LEMMA SameName ==
  ASSUME PackUnderCheck, Judging, NameOf(g') = NameOf(g), UNCHANGED <<UAS_data, bad, origin>>,
         renamed' = renamed
  PROVE  PackUnderCheck'
BY DEF PackUnderCheck, NameOf, have_basic_id_info, DontSave

\* The verdict is good on both transports or on none, and good only when
\* nothing refuses and, unless forced, no source is at fault.
LEMMA JudgeVerdict ==
  ASSUME NEW refused \in BOOLEAN, Judge(refused), TypeOK
  PROVE  /\ VerdictsAgree'
         /\ fl_status' = "GOOD_TO_ARM" => ~bad /\ ~refused
         /\ fl_status' = "GOOD_TO_ARM" /\ ~ForceArmOk =>
              have_basic_id_info /\ serial_number = g.uas_id
<1>1. /\ fl_status' = "GOOD_TO_ARM" <=> parse_fail' = "nullptr"
      /\ fl_status' = "GOOD_TO_ARM" => ~bad /\ ~refused /\ (ForceArmOk \/ Faults = {})
  BY DEF Judge, status_check
<1>2. Faults = {} => have_basic_id_info /\ serial_number = g.uas_id
  <2> SUFFICES ASSUME Faults = {} PROVE have_basic_id_info /\ serial_number = g.uas_id
    OBVIOUS
  <2>1. ~Fault["ID"] /\ ~Fault["SN"] /\ ~Fault["BAD_RID"]
    BY DEF Faults, Fault
  <2> QED
    BY <2>1 DEF Fault
<1> QED
  BY <1>1, <1>2 DEF VerdictsAgree

\* A good verdict reached with the position known: what GoodVerdict asks.
LEMMA JudgeGood ==
  ASSUME NEW refused \in BOOLEAN, Judge(refused), TypeOK, PackUnderCheck,
         Judging, UNCHANGED origin, loaded' \subseteq Lists,
         ~BypassAll => origin # ZeroPos \/ refused,
         freed' \/ refused \/ \A l \in loaded' \ Bypass : l \notin Zones[origin]
  PROVE  SafetyInv'
<1>1. VerdictsAgree'
  BY JudgeVerdict
<1>2. PackUnderCheck'
  BY DEF PackUnderCheck, Judge, Judging, DontSave, have_basic_id_info
<1>3. KnownPosition' /\ RefusedWhileReading'
  BY DEF KnownPosition, RefusedWhileReading, Scanning, Judge
<1>4. GoodVerdict'
  <2>1. GoodParses'
    BY JudgeVerdict DEF GoodParses, GoodToGo, Judge
  <2>2. GoodKnown'
    BY JudgeVerdict DEF GoodKnown, GoodToGo, Judge, BypassAll
  <2>3. GoodClear'
    BY JudgeVerdict DEF GoodClear, GoodToGo, Judge, Bypass
  <2>4. GoodNamed'
    <3>1. g' = g /\ serial_number' = serial_number
      BY DEF Judge, evidence
    <3>2. ForceArmOk' <=> ForceArmOk
      BY <3>1 DEF ForceArmOk
    <3>3. fl_status' = "GOOD_TO_ARM" /\ ~ForceArmOk =>
            have_basic_id_info' /\ serial_number' = g'.uas_id
      BY <3>1, JudgeVerdict DEF have_basic_id_info
    <3> QED
      BY <3>2, <3>3 DEF GoodNamed, GoodToGo
  <2> QED
    BY <2>1, <2>2, <2>3, <2>4 DEF GoodVerdict
<1> QED
  BY <1>1, <1>2, <1>3, <1>4 DEF SafetyInv

\* The safety invariant does not read the clocks.
LEMMA Unchanged ==
  ASSUME SafetyInv,
         UNCHANGED <<pc, UAS_data, origin, loaded, freed, bad, renamed, fl_status,
                     parse_fail, serial_number, g>>
  PROVE  SafetyInv'
<1>1. VerdictsAgree' /\ KnownPosition' /\ RefusedWhileReading'
  BY DEF SafetyInv, VerdictsAgree, KnownPosition, Scanning, RefusedWhileReading
<1>2. PackUnderCheck'
  BY DEF SafetyInv, PackUnderCheck, Judging, Scanning, DontSave, have_basic_id_info
<1>3. GoodVerdict'
  <2>1. GoodParses' /\ GoodKnown'
    BY DEF SafetyInv, GoodVerdict, GoodParses, GoodKnown, GoodToGo, BypassAll
  <2>2. GoodClear'
    BY DEF SafetyInv, GoodVerdict, GoodClear, GoodToGo, Bypass
  <2>3. GoodNamed'
    <3>1. ForceArmOk' <=> ForceArmOk
      BY DEF ForceArmOk
    <3>2. GoodToGo' /\ ~ForceArmOk => have_basic_id_info' /\ serial_number' = g'.uas_id
      BY DEF SafetyInv, GoodVerdict, GoodNamed, GoodToGo, have_basic_id_info
    <3> QED
      BY <3>1, <3>2 DEF GoodNamed
  <2> QED
    BY <2>1, <2>2, <2>3 DEF GoodVerdict
<1> QED
  BY <1>1, <1>2, <1>3 DEF SafetyInv

\* IInv holds initially and every step keeps it.
THEOREM Invariance == Spec => []IInv
<1> USE TransportAssumption
<1>1. Init => SafetyInv
  BY DEF Init, TransportInit, Boot, SafetyInv, VerdictsAgree, PackUnderCheck, Judging,
         KnownPosition, Scanning, RefusedWhileReading, GoodVerdict, GoodParses, GoodKnown, GoodClear,
         GoodNamed, GoodToGo
<1>2. ASSUME TypeOK, TypeOK', SafetyInv, [Next]_vars
      PROVE  SafetyInv'
  <2> USE <1>2 DEF SafetyInv, VerdictsAgree, PackUnderCheck, Judging, KnownPosition,
         Scanning, RefusedWhileReading, GoodVerdict, GoodParses, GoodKnown, GoodClear,
         GoodNamed, GoodToGo, DontSave, have_basic_id_info
  <2>1. CASE Time
    BY <2>1, Unchanged DEF Time, Tick, loopVars, areaVars, zoneVars
  <2>2. CASE MavlinkSend
    BY <2>2, Unchanged DEF MavlinkSend, areaVars, zoneVars, evidence
  <2>3. ASSUME NEW m \in Messages, MavlinkReceive(m)
        PROVE  SafetyInv'
    BY <2>3, HandleFrame DEF MavlinkReceive, loopVars, areaVars, zoneVars
  <2>4. ASSUME NEW m \in Messages, DroneCANReceive(m)
        PROVE  SafetyInv'
    <3>1. /\ UNCHANGED <<pc, UAS_data, origin, loaded, freed, bad, fl_status, parse_fail>>
          /\ pc # "transmit"
          /\ renamed' = (renamed \/ (Judging /\ NameOf(g') # NameOf(g)))
      BY <2>4, HandleFrame DEF DroneCANReceive, areaVars, zoneVars
    <3>2. PackUnderCheck'
      <4>1. CASE Judging /\ NameOf(g') = NameOf(g)
        BY <3>1, <4>1, SameName DEF TypeOK
      <4>2. CASE Judging /\ NameOf(g') # NameOf(g)
        BY <3>1, <4>2 DEF SafetyInv, PackUnderCheck
      <4> QED
        BY <3>1, <4>1, <4>2 DEF PackUnderCheck, Judging, Scanning
    <3> QED
      BY <3>1, <3>2
  <2>5. CASE MavlinkDone
    BY <2>5 DEF MavlinkDone, areaVars, zoneVars, transportVars
  <2>6. ASSUME NEW due \in SUBSET {"ARM", "ACK"}, DroneCANSend(due)
        PROVE  SafetyInv'
    BY <2>6 DEF DroneCANSend, areaVars, zoneVars, transportVars
  <2>7. CASE DroneCANDone
    BY <2>7 DEF DroneCANDone, areaVars, zoneVars, transportVars
  <2>8. CASE Head
    BY <2>8 DEF Head, areaVars, zoneVars, transportVars
  <2>9. CASE Gate
    BY <2>9 DEF Gate, areaVars, zoneVars
  <2>10. CASE SetData
    <3>1. PackUnderCheck'
      <4>1. bad' \/ UAS_data'.pos = origin'
        BY <2>10 DEF SetData, check_parse, CheckedPosition
      <4>2. UAS_data'.pos # ZeroPos => UAS_data'.LocationValid
        BY <2>10 DEF SetData, check_parse, NewPack
      <4>3. have_basic_id_info' /\ ~DontSave' => UAS_data'.BasicID[0] = g'.uas_id
        <5>1. /\ DontSave' <=> DontSave
              /\ have_basic_id_info' => HasId
          BY <2>10 DEF SetData, DontSave, HasId, Persists, PersistedId,
                       TypeOK, TransportTypeOK, Parameters
        <5>2. UAS_data'.BasicID[0] = BasicIDs[0]
          BY <2>10 DEF SetData, check_parse, NewPack
        <5>3. HasId /\ ~DontSave => BasicIDs[0] = PersistedId
          BY DEF BasicIDs, Slots
        <5>4. g'.uas_id = PersistedId
          BY <2>10 DEF SetData, check_parse, TypeOK, TransportTypeOK, Parameters
        <5> QED
          BY <5>1, <5>2, <5>3, <5>4
      <4> QED
        BY <4>1, <4>2, <4>3 DEF PackUnderCheck
    <3> QED
      BY <2>10, <3>1 DEF SetData, check_parse
  <2>11. CASE CheckArea
    <3>1. CASE BypassAll /\ Judge(FALSE)
      <4>1. \A l \in loaded \ Bypass : l \notin Zones[origin]
        BY <3>1 DEF BypassAll, Bypass, TypeOK
      <4> QED
        BY <2>11, <3>1, <4>1, JudgeGood DEF CheckArea, Judging, zoneVars, SafetyInv, TypeOK
    <3>2. CASE ~BypassAll /\ (~spiffs_mounted \/ origin = ZeroPos) /\ Judge(TRUE)
      BY <2>11, <3>2, JudgeGood DEF CheckArea, Judging, zoneVars, SafetyInv, TypeOK
    <3>3. CASE /\ ~BypassAll /\ spiffs_mounted /\ origin # ZeroPos
               /\ pc' \in {"scan", "zones"}
               /\ UNCHANGED <<transportVars, UAS_data, bad, told>>
      BY <2>11, <3>3 DEF CheckArea, zoneVars, transportVars
    <3> QED
      BY <2>11, <3>1, <3>2, <3>3 DEF CheckArea
  <2>12. CASE CheckZones
    <3> DEFINE near == \E l \in Lists : Near(l)
    <3>1. CASE Judge(near)
      <4>1. near \/ \A l \in loaded \ Bypass : l \notin Zones[origin]
        BY DEF Near, TypeOK
      <4>2. near \in BOOLEAN
        OBVIOUS
      <4> QED
        BY <2>12, <3>1, <4>1, <4>2, JudgeGood
           DEF CheckZones, Judging, areaVars, zoneVars, SafetyInv, TypeOK, KnownPosition
    <3>2. CASE freed /\ loaded # {} /\ \E refused \in BOOLEAN : Judge(refused)
      BY <2>12, <3>2, JudgeGood
         DEF CheckZones, Judging, areaVars, zoneVars, SafetyInv, TypeOK, KnownPosition
    <3> QED
      BY <2>12, <3>1, <3>2 DEF CheckZones
  <2>13. CASE WatchdogUpdate
    BY <2>13 DEF WatchdogUpdate, Refuse, areaVars, zoneVars
  <2>14. ASSUME NEW l \in Lists, ReadNext(l) \/ ReadDone(l) PROVE SafetyInv'
    <3>1. CASE ReadNext(l)
      BY <2>14, <3>1 DEF ReadNext, FileEnds, transportVars
    <3>2. CASE ReadDone(l)
      BY <2>14, <3>2 DEF ReadDone, FileEnds, transportVars
    <3> QED
      BY <2>14, <3>1, <3>2
  <2>15. ASSUME NEW l \in Lists, ReadFailed(l) PROVE SafetyInv'
    <3>1. loaded' \subseteq Lists
      BY <2>15 DEF ReadFailed, FileEnds, TypeOK
    <3> QED
      BY <2>15, <3>1, JudgeGood DEF ReadFailed, FileEnds, Judging, SafetyInv, TypeOK
  <2>16. CASE Transmit
    BY <2>16 DEF Transmit, areaVars, zoneVars, transportVars
  <2>17. CASE Restart
    BY <2>17 DEF Restart, TransportReset
  <2>18. CASE UNCHANGED vars
    BY <2>18, Unchanged DEF vars, loopVars, transportVars, evidence, areaVars, zoneVars
  <2> QED
    BY <2>1, <2>2, <2>3, <2>4, <2>5, <2>6, <2>7, <2>8, <2>9, <2>10, <2>11, <2>12,
       <2>13, <2>14, <2>15, <2>16, <2>17, <2>18 DEF Next, Run, Progress
<1>3. TypeOK /\ SafetyInv => IInv
  BY DEF IInv, SafetyInv
<1> QED
  BY <1>1, <1>2, <1>3, TypeCorrect, PTL DEF Spec

\* MAVLink and DroneCAN agree on whether the vehicle may arm.
THEOREM Agreement == Spec => []VerdictsAgree
BY Invariance, PTL DEF IInv

\* A good verdict goes out with a valid location, the one that was checked.
THEOREM CheckedPack == Spec => []GoodPackWasChecked
<1>1. IInv => GoodPackWasChecked
  BY DEF IInv, PackUnderCheck, Judging, GoodVerdict, GoodParses, GoodKnown, GoodClear,
         GoodNamed, GoodToGo, GoodPackWasChecked
<1> QED
  BY <1>1, Invariance, PTL

\* No good verdict in a zone of a list in memory.
THEOREM OutsideZones == Spec => []GoodPackOutsideZones
<1>1. IInv => GoodPackOutsideZones
  BY DEF IInv, PackUnderCheck, Judging, GoodVerdict, GoodParses, GoodKnown, GoodClear,
         GoodNamed, GoodToGo, GoodPackOutsideZones
<1> QED
  BY <1>1, Invariance, PTL

\* A good verdict names the vehicle, whatever identities are set and streamed,
\* before and while the verdict is reached.
THEOREM NamesVehicle == Spec => []GoodPackNamesVehicle
<1>1. IInv => GoodPackNamesVehicle
  BY DEF IInv, PackUnderCheck, Judging, have_basic_id_info, GoodVerdict, GoodParses, GoodKnown, GoodClear,
         GoodNamed, GoodToGo, GoodPackNamesVehicle
<1> QED
  BY <1>1, Invariance, PTL

\* The web page shows a failure whenever the transports refuse to arm.
THEOREM WebTold == Spec => []WebShowsRefusal
<1>1. Init => WebShowsRefusal
  BY DEF Init, Boot, WebShowsRefusal
<1>2. ASSUME IInv, WebShowsRefusal, [Next]_vars
      PROVE  WebShowsRefusal'
  <2> SUFFICES ASSUME pc' = "gate", fl_status' # "GOOD_TO_ARM"
               PROVE  UAS_data'.failure
    BY DEF WebShowsRefusal
  <2>1. CASE Head
    <3>1. fl_status' = fl_status /\ parse_fail # "nullptr"
      BY <1>2, <2>1 DEF Head, transportVars, IInv, VerdictsAgree
    <3>2. UAS_data' = [UAS_data EXCEPT !.failure = @ \/ SystemFailure] /\ SystemFailure
      BY <2>1, <3>1 DEF Head, SystemFailure
    <3>3. UAS_data \in Pack
      BY <1>2 DEF IInv, TypeOK
    <3> QED
      BY <3>2, <3>3 DEF Pack
  <2>2. CASE UNCHANGED <<pc, fl_status, UAS_data>>
    BY <1>2, <2>2 DEF WebShowsRefusal
  <2>3. CASE Next /\ ~Head
    <3>1. pc = "gate" /\ UNCHANGED <<pc, fl_status, UAS_data>>
      BY <2>3 DEF Next, Run, Progress, Restart, Time, Tick, loopVars, transportVars, MavlinkSend,
         MavlinkReceive, DroneCANReceive, DroneCANSend, MavlinkDone, DroneCANDone, Gate,
         SetData, CheckArea, CheckZones, WatchdogUpdate, ReadNext, ReadDone, ReadFailed,
         Judge, Transmit, Handle
    <3> QED
      BY <2>2, <3>1
  <2> QED
    BY <1>2, <2>1, <2>2, <2>3 DEF vars, loopVars, transportVars
<1> QED
  BY <1>1, <1>2, Invariance, PTL DEF Spec

\* No arm status sent while the files are read says good.
THEOREM SilentWhileReading == Spec => NoGoodWhileReading
<1>1. TypeOK /\ IInv /\ [Next]_vars =>
        [Scanning /\ told'.DRONECAN # told.DRONECAN => told'.DRONECAN # "GOOD_TO_ARM"]_vars
  <2> SUFFICES ASSUME TypeOK, IInv, Next, Scanning, told'.DRONECAN # told.DRONECAN
               PROVE  told'.DRONECAN # "GOOD_TO_ARM"
    OBVIOUS
  <2>1. PICK due \in SUBSET {"ARM", "ACK"} : DroneCANSend(due)
    BY DEF Next, Run, Progress, Restart, Time, loopVars, Scanning, MavlinkSend,
       MavlinkReceive, DroneCANReceive, MavlinkDone, DroneCANDone, Head, Gate, SetData,
       CheckArea, CheckZones, WatchdogUpdate, ReadNext, ReadDone, ReadFailed, Judge, Transmit, TypeOK
  <2> QED
    BY <2>1 DEF DroneCANSend, Scanning, ArmStatus, IInv, RefusedWhileReading, TypeOK
<1> QED
  BY <1>1, TypeCorrect, Invariance, PTL DEF Spec, NoGoodWhileReading
=============================================================================
