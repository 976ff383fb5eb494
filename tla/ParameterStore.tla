---------------------------- MODULE ParameterStore ----------------------------
(***************************************************************************)
(* The parameters of the RemoteID module: g in RAM and its copy in NVS     *)
(* flash (parameters.cpp), and the three that set_data() writes by itself, *)
(* the identity and the two flight-time counters (RemoteIDModule.ino).     *)
(*                                                                         *)
(* Each set_* call is one flash write, and a call that sets several        *)
(* parameters is several: `todo` holds what it has still to write, and     *)
(* power may be cut between any two.  A text is followed as far as the 20  *)
(* characters it may have.  The parameters init() itself sets are here     *)
(* (WIFI_SSID, MIN_TEST_AIRPORT, DONE_INIT, the keys); one that nobody     *)
(* reads here (rates, powers, the other distances) behaves as LOCK_LEVEL   *)
(* does.  PUBLIC_KEY5, which the first boot does not set, is left out.     *)
(***************************************************************************)
EXTENDS Integers, Sequences

CONSTANTS
  UasIds,      \* texts: identities, names of networks; NoId is the empty one
  NoId,
  DefaultId,   \* "ABCD123456789", UAS_ID as compiled in
  MacName,     \* "RID_" and the MAC address, the name of a network without one
  Field,       \* Field[u]: the first 20 characters of u
  Absent,      \* no entry in NVS
  Sets,        \* what a ground station may set: records [name, value]
  Commands,    \* what a SecureCommand may set: sequences of those
  MaxFlown     \* bound: flight time of the vehicle

KeyNames == <<"PUBLIC_KEY1", "PUBLIC_KEY2", "PUBLIC_KEY3", "PUBLIC_KEY4">>
Keys     == {"PUBLIC_KEY1", "PUBLIC_KEY2", "PUBLIC_KEY3", "PUBLIC_KEY4"}
Hidden   == {"DONE_INIT", "FLT_TIME", "FLT_TIME_AUX"}
\* MIN_TEST_AIRPORT: a distance, or none.
Flags    == {"UAS_TYPE", "UAS_ID_TYPE", "TO_DEFAULTS", "DONE_INIT", "MIN_TEST_AIRPORT"}
Texts    == {"UAS_ID", "WIFI_SSID"}
Times    == {"FLT_TIME", "FLT_TIME_AUX"}
Names    == Flags \cup Times \cup Keys \cup Texts \cup {"LOCK_LEVEL"}

Value(n) ==
  IF n \in Flags THEN {0, 1}
  ELSE IF n \in Times THEN Nat
  ELSE IF n \in Keys THEN {"empty", "release", "other"}
  ELSE IF n \in Texts THEN UasIds \cup {NoId}
  ELSE -1..2

\* One set_* call: a parameter and a value of its type.
Write ==
       [name : Flags, value : Value("TO_DEFAULTS")]
  \cup [name : Times, value : Value("FLT_TIME")]
  \cup [name : Keys, value : Value("PUBLIC_KEY1")]
  \cup [name : Texts, value : Value("UAS_ID")]
  \cup [name : {"LOCK_LEVEL"}, value : Value("LOCK_LEVEL")]

ASSUME StoreAssumption ==
  /\ {DefaultId, MacName} \subseteq UasIds /\ NoId \notin UasIds
  /\ Field \in [UasIds \cup {NoId} -> UasIds \cup {NoId}]
  /\ \A u \in UasIds : Field[u] # NoId
  /\ Field[NoId] = NoId
  /\ \A n \in Names : Absent \notin Value(n)
  /\ Sets \subseteq Write
  /\ Commands \subseteq Seq(Write)
  /\ MaxFlown \in Nat

\* The counters are hidden: DroneCAN refuses to set them.  MAVLink would not, but
\* counts them nowhere, and no ground station is taken to set them.
ASSUME CountersAssumption ==
  /\ \A w \in Sets : w.name \notin Times
  /\ \A writes \in Commands : \A i \in 1..Len(writes) : writes[i].name \notin Times

VARIABLES
  g,          \* the parameters in RAM
  nvs,        \* the parameters in flash
  pc,         \* the call the thread is in: who writes
  todo,       \* what that call has still to write
  rekeyed,    \* history: the keys that were set since the boot, after init()
  flt_time,   \* RAM: the last flight time the flight controller reported
  counter,    \* the flight controller's own counter
  flown       \* what the vehicle has really flown

vehicle == <<counter, flown>>
vars == <<g, nvs, pc, todo, rekeyed, flt_time, vehicle>>

-----------------------------------------------------------------------------
Default(n) ==
  IF n \in Flags \cup Times \cup {"LOCK_LEVEL"} THEN 0
  ELSE IF n \in Keys THEN "empty"
  ELSE IF n = "UAS_ID" THEN DefaultId
  ELSE NoId

\* nvs_get_str fails on a string longer than its buffer.
TooLong(n, v) == n \in Texts /\ Field[v] # v

Load_Raw(n) == nvs[n]   \* mutant: no defaults
\* init(): the defaults, overwritten by what NVS has; a network without a name is
\* named, in RAM only.
Read(n) ==
  IF nvs[n] = Absent \/ TooLong(n, nvs[n]) THEN Default(n) ELSE nvs[n]
Load(n) == IF n = "WIFI_SSID" /\ Read(n) = NoId THEN MacName ELSE Read(n)
Loaded == [n \in Names |-> Load(n)]
Empty  == [n \in Names |-> Absent]

TypeOK ==
  /\ \A n \in Names : g[n] \in Value(n)
  /\ \A n \in Names : nvs[n] \in Value(n) \cup {Absent}
  /\ DOMAIN g = Names /\ DOMAIN nvs = Names
  /\ pc \in {"off", "init", "loop", "set_data", "param_set", "secure_command", "erasing"}
  /\ todo \in Seq(Write)
  /\ rekeyed \subseteq Keys
  /\ flt_time \in Nat
  /\ counter \in Nat
  /\ flown \in Nat

\* A module with blank flash, on a vehicle that has not flown.
Init ==
  /\ g = [n \in Names |-> Default(n)]
  /\ nvs = Empty
  /\ pc = "off"
  /\ todo = <<>>
  /\ rekeyed = {}
  /\ flt_time = 0
  /\ counter = 0
  /\ flown = 0

-----------------------------------------------------------------------------
(* Power, boot, and the writes of a call. *)

\* DONE_INIT, then the keys built into the firmware.
FirstInit ==
  <<[name |-> "DONE_INIT", value |-> 1]>> \o
    [i \in 1..Len(KeyNames) |-> [name |-> KeyNames[i], value |-> "release"]]

ResetPending_Ignored == FALSE   \* mutant
ResetPending == Loaded["TO_DEFAULTS"] = 1

\* reset_min_test_distance(), at every boot.
NoTestAirport == [name |-> "MIN_TEST_AIRPORT", value |-> 0]

\* A reset to the defaults that was interrupted is done now, and the module
\* restarts again.
Boot ==
  /\ pc = "off"
  /\ g' = Loaded
  /\ rekeyed' = {}
  /\ IF ResetPending
       THEN nvs' = Empty /\ UNCHANGED <<pc, todo>>
       ELSE /\ UNCHANGED nvs
            /\ pc' = "init"
            /\ todo' = <<NoTestAirport>> \o
                         (IF Loaded["DONE_INIT"] = 0 THEN FirstInit ELSE <<>>)
  /\ UNCHANGED <<flt_time, vehicle>>

Stored_RamOnly(w) == nvs   \* mutant
Stored(w) == [nvs EXCEPT ![w.name] = w.value]

\* memset() clears 65 of the 64 characters of a key, and so the beginning of the
\* key after it, in RAM.
Clears(k, n) ==
  \E i \in 1..(Len(KeyNames) - 1) : k = KeyNames[i] /\ n = KeyNames[i + 1]

InRam(w) ==
  [n \in Names |->
     IF n = w.name THEN (IF n \in Texts THEN Field[w.value] ELSE w.value)
     ELSE IF Clears(w.name, n) THEN "empty" ELSE g[n]]

\* One set_* call.  TO_DEFAULTS erases the flash and restarts there and then.
Set ==
  /\ todo # <<>> /\ pc \notin {"off", "loop"}
  /\ LET w == Head(todo)
         reset == w.name = "TO_DEFAULTS" /\ w.value = 1
     IN  /\ g' = InRam(w)
         /\ nvs' = Stored(w)
         /\ pc' = IF reset THEN "erasing" ELSE pc
         /\ todo' = IF reset THEN <<>> ELSE Tail(todo)
         /\ rekeyed' = IF pc # "init" THEN rekeyed \cup ({w.name} \cap Keys) ELSE rekeyed
  /\ UNCHANGED <<flt_time, vehicle>>

Return ==
  /\ todo = <<>> /\ pc \notin {"off", "loop", "erasing"}
  /\ pc' = "loop"
  /\ UNCHANGED <<g, nvs, todo, rekeyed, flt_time, vehicle>>

Erase ==
  /\ pc = "erasing"
  /\ nvs' = Empty
  /\ pc' = "off"
  /\ flt_time' = 0
  /\ UNCHANGED <<g, todo, rekeyed, vehicle>>

\* Power loss or any other restart.
PowerCut ==
  /\ pc # "off"
  /\ pc' = "off"
  /\ todo' = <<>>
  /\ flt_time' = 0
  /\ UNCHANGED <<g, nvs, rekeyed, vehicle>>

\* A call that is going to set these.
Call(who, writes) ==
  /\ pc = "loop"
  /\ pc' = who
  /\ todo' = writes
  /\ UNCHANGED <<g, nvs, rekeyed, flt_time, vehicle>>

-----------------------------------------------------------------------------
(* set_data(). *)

have_basic_id_info == g["UAS_ID"] # NoId /\ g["UAS_ID_TYPE"] > 0 /\ g["UAS_TYPE"] > 0

\* The identity of a usable BASIC_ID message is persisted when there is none.
PersistId_Always(u) ==   \* mutant
  Call("set_data", <<[name |-> "UAS_TYPE", value |-> 1], [name |-> "UAS_ID_TYPE", value |-> 1],
                     [name |-> "UAS_ID", value |-> u]>>)
PersistId(u) ==
  /\ ~have_basic_id_info
  /\ Call("set_data", <<[name |-> "UAS_TYPE", value |-> 1],
                        [name |-> "UAS_ID_TYPE", value |-> 1],
                        [name |-> "UAS_ID", value |-> u]>>)

Distance(a, b) == IF a >= b THEN a - b ELSE b - a

NewTime ==
  IF flt_time > g["FLT_TIME"] THEN flt_time
  ELSE Distance(flt_time, g["FLT_TIME_AUX"]) + g["FLT_TIME"]

\* Mutants: the total follows the counter, also back; the writes swapped.
TimeWrites_Follow ==
  <<[name |-> "FLT_TIME_AUX", value |-> flt_time], [name |-> "FLT_TIME", value |-> flt_time]>>
TimeWrites_Swapped ==
  IF flt_time >= g["FLT_TIME_AUX"]
    THEN <<[name |-> "FLT_TIME", value |-> NewTime],
           [name |-> "FLT_TIME_AUX", value |-> flt_time]>>
    ELSE <<[name |-> "FLT_TIME_AUX", value |-> flt_time]>>
\* A counter that went back (a new flight controller) adds nothing.
TimeWrites ==
  IF flt_time >= g["FLT_TIME_AUX"]
    THEN <<[name |-> "FLT_TIME_AUX", value |-> flt_time],
           [name |-> "FLT_TIME", value |-> NewTime]>>
    ELSE <<[name |-> "FLT_TIME_AUX", value |-> flt_time]>>

CountTime ==
  /\ flt_time > 0
  /\ flt_time # g["FLT_TIME_AUX"]
  /\ Call("set_data", TimeWrites)

-----------------------------------------------------------------------------
(* What a ground station sets. *)

\* param.GetSet: nothing hidden, nothing when locked.
DroneCANSet(w) ==
  /\ w.name \notin Hidden
  /\ g["LOCK_LEVEL"] <= 0
  /\ Call("param_set", <<w>>)

\* PARAM_SET: numbers only; when locked, only a higher lock level.  Levels are
\* compared as bytes, where a negative one is 128 or more: on a locked module 255
\* is higher, and stored as -1.
AsByte(v) == v % 256
MavlinkSet(w) ==
  /\ w.name \notin Keys \cup Texts
  /\ g["LOCK_LEVEL"] > 0 =>
       w.name = "LOCK_LEVEL" /\ AsByte(w.value) > AsByte(g["LOCK_LEVEL"])
  /\ Call("param_set", <<w>>)

\* SET_REMOTEID_CONFIG of a signed command: several settings, in order.
SecureSet(writes) == Call("secure_command", writes)

-----------------------------------------------------------------------------
(* The vehicle, external. *)

Fly ==
  /\ flown < MaxFlown
  /\ counter' = counter + 1
  /\ flown' = flown + 1
  /\ UNCHANGED <<g, nvs, pc, todo, rekeyed, flt_time>>

\* The flight controller's own parameters are reset, or it is a new one.
CounterReset ==
  /\ counter' = 0
  /\ UNCHANGED <<g, nvs, pc, todo, rekeyed, flt_time, flown>>

\* FlightTime message.
Report ==
  /\ pc = "loop"
  /\ flt_time' = counter
  /\ UNCHANGED <<g, nvs, pc, todo, rekeyed, vehicle>>

Next ==
  \/ Boot \/ Set \/ Return \/ Erase \/ PowerCut
  \/ \E u \in UasIds : PersistId(u)
  \/ CountTime
  \/ \E w \in Sets : DroneCANSet(w) \/ MavlinkSet(w)
  \/ \E writes \in Commands : SecureSet(writes)
  \/ Fly \/ CounterReset \/ Report

Spec == Init /\ [][Next]_vars

-----------------------------------------------------------------------------
(* Properties. *)

\* What the module works with is what it will work with after a restart, while no
\* call is writing, but for what is lost at a boot: the distance of the test airport,
\* which each boot puts back to 0; a text longer than its field, of which RAM has
\* the beginning and the next boot nothing; the empty name of a network, which the
\* next boot fills in; and a key whose predecessor was set after init(), of which
\* RAM has lost the beginning.
CutShort(n)  == TooLong(n, nvs[n]) /\ g[n] = Field[nvs[n]]
Unnamed(n)   == n = "WIFI_SSID" /\ nvs[n] = NoId /\ g[n] = NoId
Cleared(n)   == g[n] = "empty" /\ \E k \in rekeyed : Clears(k, n)
Matches(n)   == g[n] = Load(n) \/ CutShort(n) \/ Unnamed(n) \/ Cleared(n)
SurvivesRestart ==
  pc = "loop" => \A n \in Names \ {"MIN_TEST_AIRPORT"} : Matches(n)

\* On a locked module that has an identity in flash, no call but a SecureCommand
\* sets out to write any part of it, through any number of restarts and whatever
\* identities the transports carry.
HasLockedIdentity ==
  /\ nvs["LOCK_LEVEL"] \in {1, 2} /\ nvs["TO_DEFAULTS"] # 1
  /\ nvs["UAS_TYPE"] = 1 /\ nvs["UAS_ID_TYPE"] = 1
  /\ nvs["UAS_ID"] \notin {Absent, NoId}
WritesIdentity(writes) ==
  \E i \in 1..Len(writes) : writes[i].name \in {"UAS_TYPE", "UAS_ID_TYPE", "UAS_ID"}
IdentityKept ==
  [][HasLockedIdentity /\ pc \in {"off", "loop"} /\ WritesIdentity(todo') =>
       pc' = "secure_command"]_vars

\* No flight time is counted twice: whatever restarts of either side come
\* between the two writes, the total is at most what the vehicle has flown.
FlightTimeNotTwice == Load("FLT_TIME") <= flown

\* The total only falls when the flash is erased.
FlightTimeKept ==
  [][nvs["FLT_TIME"] # Absent =>
       nvs'["FLT_TIME"] = Absent \/ nvs'["FLT_TIME"] >= nvs["FLT_TIME"]]_vars

\* A reset to the defaults is completed, also when power was cut between its
\* request and the erasure: the module never works with one pending.
ResetCompletes == pc = "loop" => nvs["TO_DEFAULTS"] # 1

-----------------------------------------------------------------------------
(* Why no flight time is counted twice: the inductive invariant.            *)

Total == Load("FLT_TIME")
Seen  == Load("FLT_TIME_AUX")

\* While the module runs, the counters in RAM are those in flash.
CountersLoaded == pc # "off" => g["FLT_TIME"] = Total /\ g["FLT_TIME_AUX"] = Seen

\* What is not counted yet is flown: the total and what the flight controller's
\* counter has gained since it was last seen, or last reported, do not exceed it.
Ledger ==
  /\ counter <= flown /\ flt_time <= flown /\ Total <= flown
  /\ Total + counter <= flown + Seen
  /\ Total + flt_time <= flown + Seen
  /\ flt_time > 0 => Total + counter <= flown + flt_time

\* A total that is about to be written keeps the ledger.
AuxWrite    == [name |-> "FLT_TIME_AUX", value |-> flt_time]
TotalOk(y)  == Total <= y /\ y <= flown /\ y + counter <= flown + flt_time
TotalWrite(y) == [name |-> "FLT_TIME", value |-> y]

\* The counters are written by set_data only, AUX first.
OtherWrites  == \A i \in 1..Len(todo) : todo[i].name \notin Times
AuxOnly      == todo = <<AuxWrite>>
AuxThenTotal == \E y \in 0..flown : todo = <<AuxWrite, TotalWrite(y)>> /\ TotalOk(y)
TotalLast    == \E y \in 0..flown : todo = <<TotalWrite(y)>> /\ TotalOk(y) /\ Seen = flt_time
WritesKeepLedger ==
  /\ pc \in {"off", "loop", "erasing"} => todo = <<>>
  /\ OtherWrites \/ (flt_time > 0 /\ (AuxOnly \/ AuxThenTotal \/ TotalLast))

IInv == TypeOK /\ CountersLoaded /\ Ledger /\ WritesKeepLedger

\* Why a reset is completed: one is pending only until the module is erased or
\* off.
ResetPendingOnlyOff == nvs["TO_DEFAULTS"] = 1 => pc \in {"off", "erasing"}
=============================================================================
