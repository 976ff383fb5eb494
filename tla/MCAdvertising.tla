---------------------------- MODULE MCAdvertising ----------------------------
(***************************************************************************)
(* An instance of Advertising: a location that may not encode, a second    *)
(* identity that comes and goes, and a pack with nothing to send.          *)
(***************************************************************************)
EXTENDS Advertising

MCPacks ==
    {[valid |-> {"LOCATION", "BASIC_ID_0"}, bad |-> {}],
     [valid |-> {"LOCATION", "BASIC_ID_0", "BASIC_ID_1"}, bad |-> {}],
     [valid |-> {"LOCATION"}, bad |-> {"LOCATION"}]}

=============================================================================
