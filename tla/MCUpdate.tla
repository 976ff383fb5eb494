------------------------------ MODULE MCUpdate ------------------------------
\* Two images of three sectors, one to be wanted, the other with each of the
\* three reasons for a refusal in turn.
EXTENDS FirmwareUpdate

CONSTANTS good, other, foreign

MCSettings == {[lock_level |-> 0, public_keys |-> TRUE],
               [lock_level |-> 0, public_keys |-> FALSE],
               [lock_level |-> -1, public_keys |-> TRUE]}
=============================================================================
