---------------------------- MODULE Installation ----------------------------
(***************************************************************************)
(* What the firmware update promises: the image a power cycle starts is    *)
(* replaced in one step, by a whole image the module's rules accept, or    *)
(* not at all.  Nothing else ever changes what runs.                       *)
(***************************************************************************)
CONSTANT Image          \* the firmware images there are

VARIABLES acceptable,   \* those the module's lock level and keys accept
          installed,    \* the image the next power cycle starts
          executing     \* the image that runs

vars == <<acceptable, installed, executing>>

Init == /\ acceptable \subseteq Image
        /\ installed \in Image
        /\ executing = installed

\* An upload ends with its image in the place of the one that runs.
Install(f) == /\ f \in acceptable
              /\ installed = executing
              /\ installed' = f
              /\ UNCHANGED <<acceptable, executing>>

\* The module restarts, on purpose or for want of power.
PowerCycle == /\ executing' = installed
              /\ UNCHANGED <<acceptable, installed>>

Next == PowerCycle \/ \E f \in Image : Install(f)

Spec == Init /\ [][Next]_vars
=============================================================================
