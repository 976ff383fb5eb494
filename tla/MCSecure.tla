------------------------------ MODULE MCSecure ------------------------------
\* Two clients whose changes overlap; one of them may instead set an unknown
\* name, reset the module or manage its keys.
EXTENDS SecureCommand

MCKeyOf == [c \in Client |-> IF c = "ann" THEN 1 ELSE 2]
MCWishes == [c \in Client |-> IF c = "ann" THEN {"SET_REMOTEID_CONFIG"} ELSE Operations]
MCChanges ==
  [c \in Client |->
    IF c = "ann" THEN {<<"UAS_TYPE", "UAS_ID">>}
    ELSE {<<"UAS_TYPO", "UAS_TYPE">>, <<"UAS_ID", "TO_DEFAULTS", "UAS_TYPE">>}]
=============================================================================
