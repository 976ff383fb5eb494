------------------------------- MODULE MCStore -------------------------------
(* Instances of ParameterStore for TLC. *)
EXTENDS ParameterStore

CONSTANTS kite, kiteLong, blank

MCUasIds == {kite, kiteLong, blank}
\* kiteLong is longer than its field.
MCField == [u \in MCUasIds \cup {NoId} |-> IF u = kiteLong THEN kite ELSE u]

W(n, v) == [name |-> n, value |-> v]

StoreSets ==
  {W("UAS_TYPE", 0), W("UAS_ID", kite), W("LOCK_LEVEL", 1),
   W("LOCK_LEVEL", -1), W("TO_DEFAULTS", 1)}
StoreCommands ==
  {<<W("UAS_ID", kiteLong), W("LOCK_LEVEL", 0)>>,
   <<W("LOCK_LEVEL", 1), W("TO_DEFAULTS", 1)>>,
   <<W("PUBLIC_KEY3", "other"), W("MIN_TEST_AIRPORT", 1), W("WIFI_SSID", NoId)>>}
=============================================================================
