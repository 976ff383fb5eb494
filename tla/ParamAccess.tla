----------------------------- MODULE ParamAccess -----------------------------
(***************************************************************************)
(* Reading and setting the parameter table from outside: the requests of a *)
(* MAVLink ground station (mavlink.cpp) and of a DroneCAN tool             *)
(* (DroneCAN.cpp, param.GetSet) over one table (parameters.cpp).           *)
(*                                                                         *)
(* A parameter is its place in Table; the last entry is the terminator.    *)
(* MAVLink knows the numbers only, counted apart from the strings and from *)
(* what is hidden, and lists them one by one between its other work.  A    *)
(* number is written in halves, so that a fraction is one too; a negative  *)
(* one is only ever what an int8_t makes of a byte.  PARAM_VALUE messages  *)
(* may be lost, and the ground station asks again for what it misses.      *)
(* Flash is ParameterStore's.                                              *)
(***************************************************************************)
EXTENDS Integers, Sequences, FiniteSets

CONSTANTS
  Table,       \* params[]: records [name, type, hidden, secret, full]
  Default,     \* the values after a reset, by place
  Numbers,     \* what a client may set a number to
  Strings,     \* and a string
  TooShort,    \* strings below the length a password must have
  Empty,       \* ""
  MaxLists,    \* bound: PARAM_REQUEST_LIST messages
  MaxLost      \* bound: PARAM_VALUE messages lost

NumberTypes == {"uint8", "int8", "uint32", "float"}
Params  == 1..(Len(Table) - 1)
Value   == Int \cup Strings \cup {Empty}

IsNumber(p) == Table[p].type \in NumberTypes    \* get_as_float() succeeds
VisibleNumbers == {p \in Params : IsNumber(p) /\ ~Table[p].hidden}
Preceding(p) == Cardinality({q \in VisibleNumbers : q < p})

\* What a parameter may hold.
Half(v)    == 2 * v
Integer(v) == v \div 2      \* the fraction is dropped
Kind(p) ==
  IF Table[p].type = "float" THEN Nat
  ELSE IF Table[p].type = "uint32" THEN {v \in Nat : v % 2 = 0}
  ELSE IF Table[p].type = "uint8" THEN {v \in 0..510 : v % 2 = 0}
  ELSE IF Table[p].type = "int8" THEN {v \in -256..254 : v % 2 = 0}
  ELSE Strings \cup {Empty}

ASSUME TableAssumption ==
  /\ Len(Table) \in Nat /\ Len(Table) > 1 /\ Table[Len(Table)].type = "none"
  /\ \A p \in Params : Table[p].type \in NumberTypes \cup {"char20", "char64"}
  /\ Table[1].name = "LOCK_LEVEL" /\ Table[1].type = "int8" /\ 1 \in VisibleNumbers
  /\ Default \in [Params -> Value] /\ \A p \in Params : Default[p] \in Kind(p)
  /\ Numbers \subseteq Nat /\ TooShort \subseteq Strings
  /\ MaxLists \in Nat /\ MaxLost \in Nat

\* What is hidden comes last, and there is something hidden.
ASSUME HiddenAssumption ==
  /\ Table[Len(Table) - 1].hidden
  /\ \A p, q \in Params : p < q /\ Table[p].hidden => Table[q].hidden

VARIABLES
  value,       \* g
  param_next,  \* MAVLink: the entry to be listed next, 0 for nullptr
  elapsed,     \* param_request_last_ms: "zero", or how long ago the last step was
  listed,      \* the indices sent for the last list request
  known,       \* what the ground station has been told of
  index,       \* DroneCAN: the index the tool asks for next
  ended,       \* and whether it was answered that there is none
  lists, lost  \* bounded

list == <<param_next, elapsed, listed>>
tool == <<index, ended>>
vars == <<value, list, known, tool, lists, lost>>

-----------------------------------------------------------------------------
(* The table. *)

LockLevel == 1
Locked    == value[LockLevel] > 0

Index_All(p) == p - 1   \* mutant: strings are counted, and what is hidden
param_index_float(p) == IF p \in VisibleNumbers THEN Preceding(p) ELSE -1
param_count_float == Cardinality(VisibleNumbers) - 1
find_by_index_float(i) == {p \in VisibleNumbers : Preceding(p) = i}

\* set_as_float() and set_*(): an integer drops the fraction and what does not fit
\* in it, and a byte from 128 on is a negative int8_t.
Byte(v)   == Integer(v) % 256
Signed(b) == IF b < 128 THEN b ELSE b - 256
Stored(p, v) ==
  IF Table[p].type = "uint32" THEN Half(Integer(v))
  ELSE IF Table[p].type = "uint8" THEN Half(Byte(v))
  ELSE IF Table[p].type = "int8" THEN Half(Signed(Byte(v)))
  ELSE v

\* memset() clears 65 of the 64 characters of a key, and so the beginning of the
\* key after it.
Clears(p, q) == q = p + 1 /\ Table[p].type = "char64" /\ Table[q].type = "char64"

\* The parameters when p has been set to v: TO_DEFAULTS at one erases the flash
\* and restarts the module.
Resets(p, v) == Table[p].name = "TO_DEFAULTS" /\ Stored(p, v) = 2
After(p, v) ==
  [q \in Params |-> IF q = p THEN Stored(p, v) ELSE IF Clears(p, q) THEN Empty ELSE value[q]]
Reset ==
  /\ value' = Default
  /\ param_next' = 0 /\ elapsed' = "zero" /\ listed' = <<>>
  /\ UNCHANGED <<known, tool, lists, lost>>

Init ==
  /\ value = Default
  /\ param_next = 0
  /\ elapsed = "zero"
  /\ listed = <<>>
  /\ known = {}
  /\ index = 0
  /\ ended = FALSE
  /\ lists = 0
  /\ lost = 0

-----------------------------------------------------------------------------
(* MAVLink. *)

\* A PARAM_VALUE message, which may be lost.
Send(p) ==
  \/ known' = known \cup {p} /\ UNCHANGED lost
  \/ lost < MaxLost /\ lost' = lost + 1 /\ UNCHANGED known

\* PARAM_REQUEST_LIST restarts the list.  Its time is taken after that of the
\* update it is handled in, so that the difference of the two may wrap around.
RequestList ==
  /\ lists < MaxLists
  /\ lists' = lists + 1
  /\ param_next' \in find_by_index_float(0)
  /\ elapsed' \in {"fresh", "later"}
  /\ listed' = <<>>
  /\ UNCHANGED <<value, known, tool, lost>>

\* Mutants: the list ends, or stays, at the first string.
Following_Stops(p) == IF IsNumber(p) THEN p + 1 ELSE Len(Table)
Following_Stays(p) == IF IsNumber(p) THEN p + 1 ELSE p
Following(p) == p + 1

\* One step through the table: what is no number is passed over in silence, what
\* is hidden is sent with index -1.
Stream ==
  /\ elapsed \in {"over", "later"}
  /\ IF IsNumber(param_next)
       THEN Send(param_next) /\ listed' = Append(listed, param_index_float(param_next))
       ELSE UNCHANGED <<known, lost, listed>>
  /\ LET next == Following(param_next)
         ends == Table[next].type = "none"
     IN  /\ param_next' = IF ends THEN 0 ELSE next
         /\ elapsed' = IF ends THEN "zero" ELSE "fresh"
  /\ UNCHANGED <<value, tool, lists>>

\* 50 ms pass.
Wait ==
  /\ elapsed = "fresh"
  /\ elapsed' = "over"
  /\ UNCHANGED <<value, param_next, listed, known, tool, lists, lost>>

\* PARAM_REQUEST_READ, by index, or by name.  A name of 16 characters is not
\* terminated in the message, and may not be found.
Read(p) ==
  /\ p \in VisibleNumbers
  /\ Send(p)
  /\ UNCHANGED <<value, list, tool, lists>>
ReadByIndex(i) == \E p \in find_by_index_float(i) : Read(p)

\* Mutant: whatever the parameter.
Raises_Any(p, v) == IsNumber(p) /\ Byte(v) > Byte(value[p])
\* While locked, a higher lock level only; levels are compared as bytes.
Raises(p, v) == p = LockLevel /\ Byte(v) > Byte(value[p])

\* PARAM_SET is answered with what the parameter is then, hidden or not.  The type
\* that follows a name of 16 characters makes it another name.
MavlinkSet(p, v) ==
  /\ IsNumber(p) /\ ~Table[p].full
  /\ LET allowed == ~Locked \/ Raises(p, v)
     IN  IF allowed /\ Resets(p, v) THEN Reset
         ELSE /\ value' = IF allowed THEN After(p, v) ELSE value
              /\ Send(p)
              /\ UNCHANGED <<list, tool, lists>>

-----------------------------------------------------------------------------
(* DroneCAN: param.GetSet. *)

find_by_index_Three(i) == {p \in Params : p = i + 1 /\ i < Len(Table) - 3}   \* mutant
\* The terminator and the entry before it have no index.
find_by_index(i) == {p \in Params : p = i + 1 /\ i < Len(Table) - 2}

\* A tool that lists the parameters asks for one index after the other, until the
\* answer is empty; it is for a hidden parameter too.
GetByIndex ==
  /\ ~ended
  /\ IF \E p \in find_by_index(index) : ~Table[p].hidden
       THEN index' = index + 1 /\ UNCHANGED ended
       ELSE ended' = TRUE /\ UNCHANGED index
  /\ UNCHANGED <<value, list, known, lists, lost>>

\* A value of another type than the parameter's is not even answered.
Fits(p, v) ==
  IF Table[p].type = "float" THEN v \in Numbers
  ELSE IF IsNumber(p) THEN v \in Numbers /\ v % 2 = 0
  ELSE v \in Strings

GetSet(p, v) ==
  /\ ~Table[p].hidden
  /\ ~Locked /\ Fits(p, v)
  /\ ~(Table[p].secret /\ v \in TooShort)
  /\ IF Resets(p, v) THEN Reset
     ELSE value' = After(p, v) /\ UNCHANGED <<list, known, tool, lists, lost>>

-----------------------------------------------------------------------------
Next ==
  \/ RequestList \/ Stream \/ Wait
  \/ \E i \in 0..Len(Table) : ReadByIndex(i)
  \/ GetByIndex
  \/ \E p \in Params :
       \/ \E v \in Numbers : MavlinkSet(p, v)
       \/ \E v \in Numbers \cup Strings : GetSet(p, v)

\* The ground station asks again, when its list is over, for every index below the
\* count that it misses.
Promised == {p \in VisibleNumbers : Preceding(p) < param_count_float}
AskAgain(i) ==
  /\ lists > 0 /\ elapsed = "zero"
  /\ find_by_index_float(i) \cap known = {}
  /\ i < param_count_float /\ ReadByIndex(i)

Fairness ==
  /\ WF_vars(Stream) /\ WF_vars(Wait)
  /\ \A i \in 0..Len(Table) : WF_vars(AskAgain(i))

Spec == Init /\ [][Next]_vars /\ Fairness

-----------------------------------------------------------------------------
(* Properties. *)

\* Every parameter holds a value of its type, whichever interface set it last.
TypeOK ==
  /\ DOMAIN value = Params /\ \A p \in Params : value[p] \in Kind(p)
  /\ param_next \in {0} \cup Params /\ elapsed \in {"zero", "fresh", "over", "later"}
  /\ listed \in Seq(Int) /\ known \subseteq Params
  /\ index \in 0..Len(Table) /\ ended \in BOOLEAN
  /\ lists \in 0..MaxLists /\ lost \in 0..MaxLost

\* The first n indices are told, each once and in order; -1 tells none.
Told(s, n) ==
  /\ \A i, j \in 1..Len(s) : i < j /\ s[j] >= 0 => s[i] < s[j]
  /\ \A k \in 0..n - 1 : \E j \in 1..Len(s) : s[j] = k
  /\ \A j \in 1..Len(s) : s[j] < n

\* A list that is over has told every visible number once, with its own index
\* and in order, whatever strings and hidden entries lie between them, and
\* however often it was begun anew.
ListComplete ==
  param_next = 0 /\ listed # <<>> => Told(listed, Cardinality(VisibleNumbers))

\* A ground station that has asked for a list comes to know every parameter that
\* the count promises, whatever is lost, set or reset meanwhile.
EveryIndexKnown == lists > 0 ~> Promised \subseteq known

\* A DroneCAN tool that asks for one index after the other and stops at the first
\* empty answer has been given everything that is not hidden.
EnumerationComplete ==
  ended => \A p \in Params : ~Table[p].hidden => p <= index

\* While the module is locked nothing is changed on either interface but the lock
\* level itself, and that to a higher one or to one below zero: MAVLink compares
\* levels as bytes, in which those below zero are the highest, so that setting 255
\* ends the lock.
LockHolds ==
  [][Locked => \A p \in Params : value'[p] # value[p] =>
                 p = LockLevel /\ (value'[p] > value[p] \/ value'[p] < 0)]_vars

-----------------------------------------------------------------------------
(* What the README says, and the code does not do. *)

\* "these are the public keys that will be used to verify firmware updates and
\* secure update of parameters": a setting changes the parameter it names and
\* no other, a reset excepted.  A key clears the one after it.
SetTouchesOne ==
  [][\A p, q \in Params :
       value'[p] # value[p] /\ value'[q] # value[q] => p = q \/ value' = Default]_vars
=============================================================================
