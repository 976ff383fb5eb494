------------------------------- MODULE MCLoop -------------------------------
(* Instances of RemoteIDLoop for TLC.  An instance is what the environment may *)
(* send: every payload a property can tell apart, few of each.                 *)
EXTENDS RemoteIDLoop

CONSTANTS zero, field, strip, kite, wren

MCPositions == {zero, field, strip}
MCZones == [p \in MCPositions |-> IF p = strip THEN Lists ELSE {}]
MCUasIds == {kite, wren}

Both == {"MAVLINK", "DRONECAN"}
Loc(via, t, p, e) ==
  [type |-> "LOCATION", via |-> via,
   data |-> [timestamp |-> t, pos |-> p, encodes |-> e]]
Sys(via, t, z, e) ==
  [type |-> "SYSTEM", via |-> via,
   data |-> [timestamp |-> t, zero |-> z, encodes |-> e]]
SysUpdate(t, z) == [type |-> "SYSTEM_UPDATE", via |-> "MAVLINK", timestamp |-> t, zero |-> z]
Text(via, t)  == [type |-> "TEXT", via |-> via, text |-> t]
Basic(via, u) == [type |-> "BASIC_ID", via |-> via, uas_id |-> u, typed |-> TRUE]
Serial(u)     == [type |-> "SERIAL_NUMBER", via |-> "DRONECAN", serial_number |-> u]
Ack(s)        == [type |-> "ACK_REQUEST", via |-> "DRONECAN", status |-> s]
SetParam(via, n, v) ==
  [type |-> "PARAM_SET", via |-> via, set |-> [name |-> n, value |-> v]]
Secure(via, n, v) ==
  [type |-> "SECURE_COMMAND", via |-> via, set |-> [name |-> n, value |-> v]]
Heartbeat == [type |-> "HEARTBEAT", via |-> "MAVLINK"]

Config(u, o, b, l, id) ==
  [uas_id |-> u, typed |-> TRUE, options |-> o, bcast_powerup |-> b, locked |-> l,
   mavlink_sysid |-> id]

-----------------------------------------------------------------------------
(* "verdict": where the vehicle is, what has been read, and what arrives while *)
(* it is read: locations, bypasses, identities.                                *)
VerdictMessages ==
  {Loc("DRONECAN", 1, field, TRUE), Loc("MAVLINK", 2, strip, TRUE),
   Sys("DRONECAN", 1, FALSE, TRUE), SysUpdate(1, FALSE), Serial(kite),
   Basic("MAVLINK", kite), Ack("DONE"),
   SetParam("DRONECAN", "options", {"AIRPORT"}), Secure("DRONECAN", "uas_id", wren)}
VerdictConfigs == {Config(NoId, {}, TRUE, FALSE, FALSE)}

(* "lasting": every source of the arming check, each of which may stop at any  *)
(* time, on a module that has no system ID yet; and, on modules where           *)
(* FORCE_ARM_OK takes the other sources out of the verdict, the ack handshake. *)
LastingMessages ==
  {Loc("DRONECAN", 1, field, TRUE), Sys("DRONECAN", 1, FALSE, TRUE),
   Text("MAVLINK", "SELF_ID"), Serial(kite), Ack("NEED"), Ack("DONE"),
   Heartbeat, SetParam("DRONECAN", "mavlink_sysid", TRUE)}
LastingConfigs ==
  {Config(kite, {}, TRUE, FALSE, FALSE)} \cup
  {Config(kite, {"FORCE_ARM_OK"}, b, TRUE, TRUE) : b \in BOOLEAN}
OneQuestion ==
  IF ForceArmOk
    THEN UNCHANGED <<system, serial_number>> /\ last_ms'["SELF_ID"] = Never
    ELSE ack_request' # "NEED"

(* "powerup": the first loops of a module that broadcasts from power-up on. *)
PowerupMessages == {Loc("DRONECAN", 1, field, TRUE), Sys("MAVLINK", 0, FALSE, TRUE)}
PowerupConfigs == {Config(kite, {}, TRUE, TRUE, TRUE)}
=============================================================================
