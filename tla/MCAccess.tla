------------------------------ MODULE MCAccess ------------------------------
(* An instance of ParamAccess for TLC: one parameter of every kind, in the order *)
(* of params[], the hidden ones and the terminator last.                         *)
EXTENDS ParamAccess

P(name, type) == [name |-> name, type |-> type, hidden |-> FALSE, secret |-> FALSE, full |-> FALSE]
MCTable == <<
  P("LOCK_LEVEL", "int8"),
  [P("WIFI_PASSWORD", "char20") EXCEPT !.secret = TRUE],
  [P("MIN_TEST_AIRPORT", "float") EXCEPT !.full = TRUE],
  P("TO_DEFAULTS", "uint8"),
  [P("FLT_TIME_AUX", "uint32") EXCEPT !.hidden = TRUE],
  P("", "none")>>
MCDefault == [p \in 1..5 |-> IF MCTable[p].type \in NumberTypes THEN 0 ELSE Empty]

(* "keywipe": two keys next to each other, as the five are in params[]. *)
KeyTable == <<P("LOCK_LEVEL", "int8"), P("PUBLIC_KEY1", "char64"), P("PUBLIC_KEY2", "char64"),
              P("TO_DEFAULTS", "uint8"),
              [P("FLT_TIME_AUX", "uint32") EXCEPT !.hidden = TRUE], P("", "none")>>
KeyDefault == [p \in 1..5 |-> IF KeyTable[p].type \in NumberTypes THEN 0 ELSE Empty]
=============================================================================
