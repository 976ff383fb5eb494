------------------------ MODULE ParameterStoreProofs ------------------------
(***************************************************************************)
(* Proofs about ParameterStore, for every set of identities, of ground     *)
(* station settings and any amount of flying: the types, that no flight    *)
(* time is counted twice, that a reset which was begun ends, that RAM is   *)
(* what a restart will load, and that a locked identity stays.             *)
(***************************************************************************)
EXTENDS ParameterStore, TLAPS

-----------------------------------------------------------------------------
(* The table. *)

\* A write names a parameter and has a value of its type.
LEMMA WriteFields ==
  ASSUME NEW w \in Write
  PROVE  w.name \in Names /\ w.value \in Value(w.name)
BY DEF Write, Names, Value, Flags, Times, Keys, Texts

\* No number stands for a missing entry.
LEMMA NoNumberAbsent == Absent \notin Nat
<1>1. "FLT_TIME" \in Names /\ Value("FLT_TIME") = Nat
  BY DEF Names, Value, Times, Flags
<1> QED
  BY <1>1, StoreAssumption, Zenon

\* The value compiled in has the type of the parameter.
LEMMA DefaultType ==
  ASSUME NEW n \in Names
  PROVE  Default(n) \in Value(n)
BY StoreAssumption DEF Default, Value, Names, Flags, Times, Keys, Texts

\* What init() loads has the type of the parameter.
LEMMA LoadType ==
  ASSUME TypeOK, NEW n \in Names
  PROVE  Load(n) \in Value(n)
<1>1. Read(n) \in Value(n)
  BY DefaultType DEF Read, TypeOK
<1>2. MacName \in Value("WIFI_SSID")
  BY StoreAssumption DEF Value, Flags, Times, Keys, Texts
<1> QED
  BY <1>1, <1>2 DEF Load

\* The first 20 characters of a text are a text.
LEMMA FieldType ==
  ASSUME NEW n \in Texts, NEW v \in Value(n)
  PROVE  Field[v] \in Value(n)
BY StoreAssumption DEF Value, Flags, Times, Keys, Texts

\* A key that is set may clear the next one, which then is an empty key.
LEMMA ClearsKeys ==
  ASSUME NEW k, NEW n, Clears(k, n)
  PROVE  n \in Keys
BY DEF Clears, KeyNames, Keys

\* A write leaves every parameter in RAM with its type,
LEMMA InRamType ==
  ASSUME TypeOK, NEW w \in Write
  PROVE  /\ DOMAIN InRam(w) = Names
         /\ \A n \in Names : InRam(w)[n] \in Value(n)
<1>1. DOMAIN InRam(w) = Names
  BY DEF InRam
<1>2. SUFFICES ASSUME NEW n \in Names
               PROVE  InRam(w)[n] \in Value(n)
  BY <1>1
<1>3. CASE n = w.name
  <2>1. w.value \in Value(n)
    BY <1>3, WriteFields
  <2>2. n \in Texts => Field[w.value] \in Value(n)
    BY <2>1, FieldType
  <2> QED
    BY <1>3, <2>1, <2>2 DEF InRam
<1>4. CASE n # w.name /\ Clears(w.name, n)
  <2>1. "empty" \in Value(n)
    BY <1>4, ClearsKeys DEF Value, Keys, Flags, Times
  <2> QED
    BY <1>4, <2>1 DEF InRam
<1>5. CASE n # w.name /\ ~Clears(w.name, n)
  BY <1>5 DEF InRam, TypeOK
<1> QED
  BY <1>3, <1>4, <1>5

\* and the counters as they are, unless it names one.
LEMMA InRamTimes ==
  ASSUME NEW w, NEW n \in Times
  PROVE  InRam(w)[n] = IF n = w.name THEN w.value ELSE g[n]
<1>1. n \in Names /\ n \notin Texts /\ n \notin Keys
  BY DEF Names, Times, Keys, Texts
<1>2. ~Clears(w.name, n)
  BY <1>1, ClearsKeys
<1> QED
  BY <1>1, <1>2 DEF InRam

\* The writes the module starts by itself are well typed: those of init(),
LEMMA FirstInitType ==
  FirstInit \in Seq(Write) /\ NoTestAirport \in Write
<1>1. [name |-> "DONE_INIT", value |-> 1] \in Write
  BY DEF Write, Value, Flags
<1>2. \A i \in 1..Len(KeyNames) : [name |-> KeyNames[i], value |-> "release"] \in Write
  BY DEF Write, Value, Flags, Times, Keys, KeyNames
<1>3. [i \in 1..Len(KeyNames) |-> [name |-> KeyNames[i], value |-> "release"]] \in Seq(Write)
  BY <1>2 DEF KeyNames
<1>4. NoTestAirport \in Write
  BY DEF NoTestAirport, Write, Value, Flags
<1> QED
  BY <1>1, <1>3, <1>4 DEF FirstInit

\* which are these,
BootWrites == <<NoTestAirport>> \o FirstInit
LEMMA BootWritesAre ==
  /\ Len(BootWrites) = 6
  /\ BootWrites[1] = NoTestAirport /\ BootWrites[1].name = "MIN_TEST_AIRPORT"
  /\ BootWrites[2].name = "DONE_INIT"
  /\ \A i \in 1..4 : BootWrites[i + 2].name = KeyNames[i]
<1>1. /\ Len(FirstInit) = 5
      /\ FirstInit[1].name = "DONE_INIT"
      /\ \A i \in 1..4 : FirstInit[i + 1].name = KeyNames[i]
  BY DEF FirstInit, KeyNames
<1>2. FirstInit \in Seq(Write) /\ NoTestAirport \in Write
  BY FirstInitType
<1>3. \A w \in Write : \A s \in Seq(Write) :
        /\ Len(<<w>> \o s) = Len(s) + 1 /\ (<<w>> \o s)[1] = w
        /\ \A i \in 2..(Len(s) + 1) : (<<w>> \o s)[i] = s[i - 1]
  OBVIOUS
<1>4. /\ Len(BootWrites) = 6 /\ BootWrites[1] = NoTestAirport
      /\ \A i \in 2..6 : BootWrites[i] = FirstInit[i - 1]
  <2>1. /\ Len(BootWrites) = Len(FirstInit) + 1 /\ BootWrites[1] = NoTestAirport
        /\ \A i \in 2..(Len(FirstInit) + 1) : BootWrites[i] = FirstInit[i - 1]
    BY <1>2, <1>3, Zenon DEF BootWrites
  <2> QED
    BY <1>1, <2>1
<1>5. \A i \in 1..4 : i + 2 \in 2..6 /\ (i + 2) - 1 = i + 1
  OBVIOUS
<1>6. 2 \in 2..6 /\ 2 - 1 = 1
  OBVIOUS
<1> QED
  BY <1>1, <1>4, <1>5, <1>6 DEF NoTestAirport

\* of an identity,
LEMMA IdentityWritesType ==
  ASSUME NEW u \in UasIds
  PROVE  <<[name |-> "UAS_TYPE", value |-> 1], [name |-> "UAS_ID_TYPE", value |-> 1],
           [name |-> "UAS_ID", value |-> u]>> \in Seq(Write)
<1>1. /\ [name |-> "UAS_TYPE", value |-> 1] \in Write
      /\ [name |-> "UAS_ID_TYPE", value |-> 1] \in Write
  BY DEF Write, Value, Flags
<1>2. [name |-> "UAS_ID", value |-> u] \in Write
  BY DEF Write, Value, Flags, Times, Keys, Texts
<1> QED
  BY <1>1, <1>2

\* and of the counters.
LEMMA TimeWritesType ==
  ASSUME TypeOK
  PROVE  TimeWrites \in Seq(Write)
<1>1. g["FLT_TIME"] \in Nat /\ g["FLT_TIME_AUX"] \in Nat
  BY DEF TypeOK, Value, Names, Times, Flags
<1>2. NewTime \in Nat
  BY <1>1 DEF NewTime, Distance, TypeOK
<1>3. \A n \in Times : \A v \in Nat : [name |-> n, value |-> v] \in Write
  BY DEF Write, Value, Times, Flags
<1>4. /\ [name |-> "FLT_TIME_AUX", value |-> flt_time] \in Write
      /\ [name |-> "FLT_TIME", value |-> NewTime] \in Write
  BY <1>2, <1>3 DEF TypeOK, Times
<1> QED
  BY <1>4 DEF TimeWrites

-----------------------------------------------------------------------------
(* Types. *)

\* No step leaves the types.
THEOREM StoreTypeCorrect == Spec => []TypeOK
<1>1. Init => TypeOK
  BY DefaultType DEF Init, TypeOK, Empty
<1>2. ASSUME TypeOK, [Next]_vars
      PROVE  TypeOK'
  <2> USE <1>2
  <2>1. CASE Boot
    <3>1. \A n \in Names : g'[n] \in Value(n)
      BY <2>1, LoadType DEF Boot, Loaded
    <3>2. DOMAIN g' = Names /\ DOMAIN nvs' = Names
      BY <2>1 DEF Boot, Loaded, Empty, TypeOK
    <3>3. \A n \in Names : nvs'[n] \in Value(n) \cup {Absent}
      BY <2>1 DEF Boot, Empty, TypeOK
    <3>4. todo' \in Seq(Write)
      <4>1. \/ todo' = todo
            \/ todo' = <<NoTestAirport>> \o FirstInit
            \/ todo' = <<NoTestAirport>> \o <<>>
        BY <2>1 DEF Boot
      <4>2. <<NoTestAirport>> \in Seq(Write) /\ <<>> \in Seq(Write) /\ todo \in Seq(Write)
        BY FirstInitType DEF TypeOK
      <4>3. \A s, t \in Seq(Write) : s \o t \in Seq(Write)
        OBVIOUS
      <4> QED
        BY <4>1, <4>2, <4>3, FirstInitType, Zenon
    <3>5. pc' \in {"off", "init"} /\ rekeyed' = {}
      BY <2>1 DEF Boot
    <3> QED
      BY <2>1, <3>1, <3>2, <3>3, <3>4, <3>5 DEF Boot, vehicle, TypeOK
  <2>2. CASE Set
    <3> DEFINE w == Head(todo)
    <3>1. w \in Write /\ Tail(todo) \in Seq(Write)
      BY <2>2 DEF Set, TypeOK
    <3>2. w.name \in Names /\ w.value \in Value(w.name)
      BY <3>1, WriteFields
    <3>3. g' = InRam(w) /\ nvs' = [nvs EXCEPT ![w.name] = w.value]
      BY <2>2 DEF Set, Stored
    <3>4. todo' \in Seq(Write)
      BY <2>2, <3>1 DEF Set
    <3>5. /\ pc' \in {pc, "erasing"} /\ UNCHANGED <<flt_time, vehicle>>
          /\ rekeyed' \subseteq Keys
      BY <2>2 DEF Set, TypeOK
    <3> HIDE DEF w
    <3>6. \A n \in Names : g'[n] \in Value(n) /\ nvs'[n] \in Value(n) \cup {Absent}
      <4>1. \A n \in Names : g'[n] \in Value(n)
        BY <3>1, <3>3, InRamType
      <4> QED
        BY <3>2, <3>3, <4>1 DEF TypeOK
    <3>7. DOMAIN g' = Names /\ DOMAIN nvs' = Names
      BY <3>1, <3>3, InRamType DEF TypeOK
    <3> QED
      BY <3>4, <3>5, <3>6, <3>7 DEF TypeOK, vehicle
  <2>3. CASE Return
    BY <2>3 DEF Return, vehicle, TypeOK
  <2>4. CASE Erase
    BY <2>4 DEF Erase, Empty, vehicle, TypeOK
  <2>5. CASE PowerCut
    BY <2>5 DEF PowerCut, vehicle, TypeOK
  <2>6. ASSUME NEW who \in {"set_data", "param_set", "secure_command"},
               NEW writes \in Seq(Write), Call(who, writes)
        PROVE  TypeOK'
    BY <2>6 DEF Call, vehicle, TypeOK
  <2>7. ASSUME NEW u \in UasIds, PersistId(u)
        PROVE  TypeOK'
    BY <2>6, <2>7, IdentityWritesType DEF PersistId
  <2>8. CASE CountTime
    BY <2>6, <2>8, TimeWritesType DEF CountTime
  <2>9. ASSUME NEW w \in Sets, DroneCANSet(w) \/ MavlinkSet(w)
        PROVE  TypeOK'
    <3>1. <<w>> \in Seq(Write)
      BY StoreAssumption
    <3> QED
      BY <2>6, <2>9, <3>1 DEF DroneCANSet, MavlinkSet
  <2>10. ASSUME NEW writes \in Commands, SecureSet(writes)
         PROVE  TypeOK'
    BY <2>6, <2>10, StoreAssumption DEF SecureSet
  <2>11. CASE Fly \/ CounterReset \/ Report
    BY <2>11 DEF Fly, CounterReset, Report, vehicle, TypeOK
  <2>12. CASE UNCHANGED vars
    BY <2>12 DEF vars, vehicle, TypeOK
  <2> QED
    BY <2>1, <2>2, <2>3, <2>4, <2>5, <2>7, <2>8, <2>9, <2>10, <2>11, <2>12 DEF Next
<1> QED
  BY <1>1, <1>2, PTL DEF Spec
-----------------------------------------------------------------------------
(* The counters. *)

\* The parts of IInv that are not types.
CounterInv == CountersLoaded /\ Ledger /\ WritesKeepLedger

\* The counters are natural numbers, those in flash 0 when there are none.
LEMMA CounterTypes ==
  ASSUME TypeOK
  PROVE  /\ Total \in Nat /\ Seen \in Nat
         /\ flt_time \in Nat /\ counter \in Nat /\ flown \in Nat
<1>1. Total \in Nat /\ Seen \in Nat
  BY LoadType DEF Total, Seen, Value, Names, Times, Flags
<1> QED
  BY <1>1 DEF TypeOK

\* Flash that keeps its counters keeps what init() loads of them.
LEMMA SameCounters ==
  ASSUME nvs'["FLT_TIME"] = nvs["FLT_TIME"], nvs'["FLT_TIME_AUX"] = nvs["FLT_TIME_AUX"]
  PROVE  Total' = Total /\ Seen' = Seen
BY DEF Total, Seen, Load, Read, TooLong, Texts, Default

\* Erased flash has counted nothing.
LEMMA ErasedCounters ==
  ASSUME nvs' = Empty
  PROVE  Total' = 0 /\ Seen' = 0
BY DEF Total, Seen, Load, Read, TooLong, Texts, Default, Empty, Names, Times, Flags

\* A step that writes no counter and starts no write of one keeps the ledger,
\* whether or not it forgets the last report.
LEMMA LedgerFrame ==
  ASSUME TypeOK, CounterInv, OtherWrites',
         Total' = Total, Seen' = Seen,
         UNCHANGED vehicle, flt_time' \in {flt_time, 0},
         pc' # "off" => g'["FLT_TIME"] = Total /\ g'["FLT_TIME_AUX"] = Seen,
         pc' \in {"off", "loop", "erasing"} => todo' = <<>>
  PROVE  CounterInv'
<1>1. CountersLoaded'
  BY DEF CountersLoaded
<1>2. Ledger'
  BY CounterTypes DEF CounterInv, Ledger, vehicle
<1> QED
  BY <1>1, <1>2 DEF CounterInv, WritesKeepLedger

\* What set_data sets out to write keeps the ledger.
LEMMA TimeWritesKeepLedger ==
  ASSUME TypeOK, CounterInv, pc = "loop", flt_time > 0
  PROVE  \/ TimeWrites = <<AuxWrite>>
         \/ \E y \in 0..flown : TimeWrites = <<AuxWrite, TotalWrite(y)>> /\ TotalOk(y)
<1> USE CounterTypes DEF CounterInv, CountersLoaded, TypeOK
<1>1. CASE flt_time >= Seen
  <2>1. TimeWrites = <<AuxWrite, TotalWrite(NewTime)>>
    BY <1>1 DEF TimeWrites, AuxWrite, TotalWrite
  <2>2. NewTime = IF flt_time > Total THEN flt_time ELSE (flt_time - Seen) + Total
    BY <1>1 DEF NewTime, Distance
  <2>3. TotalOk(NewTime) /\ NewTime \in 0..flown
    BY <1>1, <2>2, SMTT(30) DEF TotalOk, Ledger
  <2> QED
    BY <2>1, <2>3
<1>2. CASE ~(flt_time >= Seen)
  BY <1>2 DEF TimeWrites, AuxWrite
<1> QED
  BY <1>1, <1>2

\* One set_* call keeps the ledger.
LEMMA SetKeepsLedger ==
  ASSUME TypeOK, TypeOK', CounterInv, Set
  PROVE  CounterInv'
<1> DEFINE w == Head(todo)
<1>1. /\ todo # <<>> /\ pc \notin {"off", "loop", "erasing"}
      /\ g' = InRam(w)
      /\ nvs' = [nvs EXCEPT ![w.name] = w.value]
      /\ todo' = Tail(todo) \/ todo' = <<>>
      /\ pc' = "erasing" => todo' = <<>>
      /\ pc' \notin {"off", "loop"}
      /\ UNCHANGED <<flt_time, vehicle>>
  BY DEF Set, Stored, CounterInv, WritesKeepLedger
<1>2. CASE OtherWrites
  <2>1. todo \in Seq(Write)
    BY DEF TypeOK
  <2>2. w.name \notin Times
    BY <1>1, <1>2, <2>1 DEF OtherWrites
  <2>3. OtherWrites'
    BY <1>1, <1>2, <2>1 DEF OtherWrites
  <2> HIDE DEF w
  <2>4. UNCHANGED <<g["FLT_TIME"], g["FLT_TIME_AUX"], nvs["FLT_TIME"], nvs["FLT_TIME_AUX"]>>
    BY <1>1, <2>2, InRamTimes DEF Times, TypeOK, Names
  <2> QED
    BY <1>1, <2>3, <2>4, LedgerFrame, SameCounters DEF CounterInv, CountersLoaded
<1>3. CASE flt_time > 0 /\ (AuxOnly \/ AuxThenTotal)
  <2>1. w = AuxWrite
    BY <1>3 DEF AuxOnly, AuxThenTotal
  <2>2. /\ g'["FLT_TIME"] = g["FLT_TIME"] /\ g'["FLT_TIME_AUX"] = flt_time
        /\ nvs'["FLT_TIME"] = nvs["FLT_TIME"] /\ nvs'["FLT_TIME_AUX"] = flt_time
    BY <1>1, <2>1, InRamTimes DEF AuxWrite, TypeOK, Names, Times
  <2>3. Total' = Total /\ Seen' = flt_time
    <3>1. flt_time # Absent
      BY NoNumberAbsent DEF TypeOK
    <3> QED
      BY <2>2, <3>1 DEF Total, Seen, Load, Read, TooLong, Texts, Default
  <2>4. CountersLoaded'
    BY <1>1, <2>2, <2>3 DEF CounterInv, CountersLoaded
  <2>5. Ledger'
    BY <1>1, <1>3, <2>3, CounterTypes DEF CounterInv, Ledger, vehicle, TypeOK
  <2>6. OtherWrites' \/ TotalLast'
    <3>1. CASE todo' = <<>>
      BY <3>1 DEF OtherWrites
    <3>2. CASE AuxOnly /\ todo' = Tail(todo)
      BY <3>2 DEF AuxOnly, OtherWrites
    <3>3. CASE AuxThenTotal /\ todo' = Tail(todo)
      <4>1. PICK y \in 0..flown : todo = <<AuxWrite, TotalWrite(y)>> /\ TotalOk(y)
        BY <3>3 DEF AuxThenTotal
      <4>2. todo' = <<TotalWrite(y)>>
        BY <3>3, <4>1
      <4>3. TotalWrite(y)' = TotalWrite(y) /\ TotalOk(y)' /\ y \in 0..flown'
        BY <1>1, <2>3, <4>1 DEF TotalWrite, TotalOk, vehicle
      <4> QED
        BY <1>1, <2>3, <4>2, <4>3 DEF TotalLast
    <3> QED
      BY <1>1, <1>3, <3>1, <3>2, <3>3
  <2> QED
    BY <1>1, <1>3, <2>4, <2>5, <2>6 DEF CounterInv, WritesKeepLedger
<1>4. CASE flt_time > 0 /\ TotalLast
  <2>1. PICK y \in 0..flown : todo = <<TotalWrite(y)>> /\ TotalOk(y) /\ Seen = flt_time
    BY <1>4 DEF TotalLast
  <2>2. w = TotalWrite(y) /\ todo' = <<>>
    BY <1>1, <2>1
  <2>3. /\ g'["FLT_TIME"] = y /\ g'["FLT_TIME_AUX"] = g["FLT_TIME_AUX"]
        /\ nvs'["FLT_TIME"] = y /\ nvs'["FLT_TIME_AUX"] = nvs["FLT_TIME_AUX"]
    BY <1>1, <2>2, InRamTimes DEF TotalWrite, TypeOK, Names, Times
  <2>4. Total' = y /\ Seen' = Seen
    <3>1. y # Absent
      BY NoNumberAbsent DEF TypeOK
    <3> QED
      BY <2>3, <3>1 DEF Total, Seen, Load, Read, TooLong, Texts, Default
  <2>5. CountersLoaded'
    BY <1>1, <2>3, <2>4 DEF CounterInv, CountersLoaded
  <2>6. Ledger'
    BY <1>1, <2>1, <2>4, CounterTypes DEF CounterInv, Ledger, TotalOk, vehicle, TypeOK
  <2>7. OtherWrites'
    BY <2>2 DEF OtherWrites
  <2> QED
    BY <1>1, <2>2, <2>5, <2>6, <2>7 DEF CounterInv, WritesKeepLedger
<1> QED
  BY <1>2, <1>3, <1>4 DEF CounterInv, WritesKeepLedger

\* IInv holds initially and every step keeps it.
THEOREM StoreInvariance == Spec => []IInv
<1>1. Init => CounterInv
  BY DEF Init, CounterInv, CountersLoaded, Ledger, WritesKeepLedger, OtherWrites, Total,
         Seen, Load, Read, TooLong, Texts, Default, Empty, Names, Times, Flags
<1>2. ASSUME TypeOK, TypeOK', CounterInv, [Next]_vars
      PROVE  CounterInv'
  <2> USE <1>2
  <2> DEFINE NoCounter(writes) == \A i \in 1..Len(writes) : writes[i].name \notin Times
  <2>1. CASE Boot
    <3>1. CASE ResetPending
      <4>1. nvs' = Empty /\ UNCHANGED <<pc, todo, flt_time, vehicle>> /\ pc = "off"
        BY <2>1, <3>1 DEF Boot
      <4>2. Total' = 0 /\ Seen' = 0
        BY <4>1, ErasedCounters
      <4>3. todo = <<>>
        BY <4>1 DEF CounterInv, WritesKeepLedger
      <4> QED
        BY <4>1, <4>2, <4>3 DEF CounterInv, CountersLoaded, Ledger, WritesKeepLedger,
           OtherWrites, TypeOK, vehicle
    <3>2. CASE ~ResetPending
      <4>1. /\ UNCHANGED <<nvs, flt_time, vehicle>> /\ pc' = "init"
            /\ g' = Loaded
            /\ \/ todo' = <<NoTestAirport>> \o FirstInit
               \/ todo' = <<NoTestAirport>> \o <<>>
        BY <2>1, <3>2 DEF Boot
      <4>2. g'["FLT_TIME"] = Total /\ g'["FLT_TIME_AUX"] = Seen
        BY <4>1 DEF Loaded, Total, Seen, Names, Times
      <4>3. NoCounter(<<NoTestAirport>> \o FirstInit) /\ NoCounter(<<NoTestAirport>> \o <<>>)
        <5>1. NoTestAirport.name \notin Times
          BY DEF NoTestAirport, Times
        <5>2. \A i \in 1..6 : BootWrites[i].name \notin Times
          <6>1. \A i \in 1..4 : KeyNames[i] \notin Times
            BY DEF KeyNames, Times
          <6>2. \A i \in 3..6 : i - 2 \in 1..4 /\ (i - 2) + 2 = i
            OBVIOUS
          <6>3. \A i \in 3..6 : BootWrites[i].name \notin Times
            BY <6>1, <6>2, BootWritesAre
          <6> QED
            BY <5>1, <6>3, BootWritesAre DEF Times
        <5> QED
          BY <5>1, <5>2, BootWritesAre DEF BootWrites
      <4>4. OtherWrites'
        BY <4>1, <4>3 DEF OtherWrites
      <4> QED
        BY <4>1, <4>2, <4>4, LedgerFrame, SameCounters
    <3> QED
      BY <3>1, <3>2
  <2>2. CASE Set
    BY <2>2, SetKeepsLedger
  <2>3. CASE Return
    <3>1. OtherWrites'
      BY <2>3 DEF Return, OtherWrites
    <3> QED
      BY <2>3, <3>1, LedgerFrame, SameCounters DEF Return, CounterInv, CountersLoaded
  <2>4. CASE Erase
    <3>1. Total' = 0 /\ Seen' = 0
      BY <2>4, ErasedCounters DEF Erase
    <3> QED
      BY <2>4, <3>1 DEF Erase, CounterInv, CountersLoaded, Ledger, WritesKeepLedger,
         OtherWrites, TypeOK, vehicle
  <2>5. CASE PowerCut
    <3>1. OtherWrites'
      BY <2>5 DEF PowerCut, OtherWrites
    <3> QED
      BY <2>5, <3>1, LedgerFrame, SameCounters DEF PowerCut
  <2>6. ASSUME NEW who \in {"set_data", "param_set", "secure_command"},
               NEW writes \in Seq(Write), NoCounter(writes), Call(who, writes)
        PROVE  CounterInv'
    <3>1. OtherWrites'
      BY <2>6 DEF Call, OtherWrites
    <3> QED
      BY <2>6, <3>1, LedgerFrame, SameCounters DEF Call, CounterInv, CountersLoaded
  <2>7. ASSUME NEW u \in UasIds, PersistId(u)
        PROVE  CounterInv'
    <3>1. NoCounter(<<[name |-> "UAS_TYPE", value |-> 1], [name |-> "UAS_ID_TYPE", value |-> 1],
                      [name |-> "UAS_ID", value |-> u]>>)
      BY DEF Times
    <3> QED
      BY <2>6, <2>7, <3>1, IdentityWritesType DEF PersistId
  <2>8. CASE CountTime
    <3>1. /\ pc = "loop" /\ pc' = "set_data" /\ todo' = TimeWrites /\ flt_time > 0
          /\ UNCHANGED <<g, nvs, flt_time, vehicle>>
      BY <2>8 DEF CountTime, Call
    <3>2. Total' = Total /\ Seen' = Seen
      BY <3>1, SameCounters
    <3>3. CountersLoaded' /\ Ledger'
      BY <3>1, <3>2 DEF CounterInv, CountersLoaded, Ledger, vehicle
    <3>4. AuxOnly' \/ AuxThenTotal'
      BY <3>1, <3>2, TimeWritesKeepLedger
         DEF AuxOnly, AuxThenTotal, AuxWrite, TotalWrite, TotalOk, vehicle
    <3> QED
      BY <3>1, <3>3, <3>4 DEF CounterInv, WritesKeepLedger
  <2>9. ASSUME NEW w \in Sets, DroneCANSet(w) \/ MavlinkSet(w)
        PROVE  CounterInv'
    <3>1. <<w>> \in Seq(Write) /\ NoCounter(<<w>>)
      BY StoreAssumption, CountersAssumption
    <3> QED
      BY <2>6, <2>9, <3>1 DEF DroneCANSet, MavlinkSet
  <2>10. ASSUME NEW writes \in Commands, SecureSet(writes)
         PROVE  CounterInv'
    <3>1. writes \in Seq(Write) /\ NoCounter(writes)
      BY StoreAssumption, CountersAssumption
    <3> QED
      BY <2>6, <2>10, <3>1 DEF SecureSet
  <2>11. CASE Fly
    <3>1. /\ counter' = counter + 1 /\ flown' = flown + 1
          /\ UNCHANGED <<g, nvs, pc, todo, flt_time>>
      BY <2>11 DEF Fly
    <3>2. Total' = Total /\ Seen' = Seen
      BY <3>1, SameCounters
    <3>3. CountersLoaded' /\ Ledger'
      BY <3>1, <3>2, CounterTypes, SMTT(30) DEF CounterInv, CountersLoaded, Ledger, TypeOK
    <3>4. /\ OtherWrites => OtherWrites'
          /\ AuxOnly => AuxOnly'
      BY <3>1 DEF OtherWrites, AuxOnly, AuxWrite
    <3>5. \A y \in 0..flown : TotalOk(y) => TotalOk(y)' /\ y \in 0..flown'
      BY <3>1, <3>2, CounterTypes DEF TotalOk
    <3>6. AuxThenTotal => AuxThenTotal'
      BY <3>1, <3>5 DEF AuxThenTotal, AuxWrite, TotalWrite
    <3>7. TotalLast => TotalLast'
      BY <3>1, <3>2, <3>5 DEF TotalLast, TotalWrite
    <3> QED
      BY <3>1, <3>3, <3>4, <3>6, <3>7 DEF CounterInv, WritesKeepLedger
  <2>12. CASE CounterReset
    <3>1. counter' = 0 /\ UNCHANGED <<g, nvs, pc, todo, flt_time, flown>>
      BY <2>12 DEF CounterReset
    <3>2. Total' = Total /\ Seen' = Seen
      BY <3>1, SameCounters
    <3>3. CountersLoaded' /\ Ledger'
      BY <3>1, <3>2, CounterTypes DEF CounterInv, CountersLoaded, Ledger
    <3>4. /\ OtherWrites => OtherWrites'
          /\ AuxOnly => AuxOnly'
      BY <3>1 DEF OtherWrites, AuxOnly, AuxWrite
    <3>5. \A y \in 0..flown : TotalOk(y) => TotalOk(y)'
      BY <3>1, <3>2, CounterTypes DEF TotalOk
    <3>6. AuxThenTotal => AuxThenTotal'
      BY <3>1, <3>5 DEF AuxThenTotal, AuxWrite, TotalWrite
    <3>7. TotalLast => TotalLast'
      BY <3>1, <3>2, <3>5 DEF TotalLast, TotalWrite
    <3> QED
      BY <3>1, <3>3, <3>4, <3>6, <3>7 DEF CounterInv, WritesKeepLedger
  <2>13. CASE Report
    <3>1. /\ pc = "loop" /\ flt_time' = counter
          /\ UNCHANGED <<g, nvs, pc, todo, vehicle>>
      BY <2>13 DEF Report
    <3>2. Total' = Total /\ Seen' = Seen /\ todo' = <<>>
      BY <3>1, SameCounters DEF CounterInv, WritesKeepLedger
    <3>3. CountersLoaded' /\ Ledger'
      BY <3>1, <3>2, CounterTypes DEF CounterInv, CountersLoaded, Ledger, TypeOK, vehicle
    <3> QED
      BY <3>2, <3>3 DEF CounterInv, WritesKeepLedger, OtherWrites
  <2>14. CASE UNCHANGED vars
    <3>1. UNCHANGED <<g, nvs, pc, todo, flt_time, counter, flown>>
      BY <2>14 DEF vars, vehicle
    <3>2. Total' = Total /\ Seen' = Seen
      BY <3>1, SameCounters
    <3> QED
      BY <3>1, <3>2 DEF CounterInv, CountersLoaded, Ledger, WritesKeepLedger, OtherWrites,
         AuxOnly, AuxThenTotal, TotalLast, AuxWrite, TotalWrite, TotalOk
  <2> QED
    BY <2>1, <2>2, <2>3, <2>4, <2>5, <2>7, <2>8, <2>9, <2>10, <2>11, <2>12, <2>13, <2>14
       DEF Next
<1>3. TypeOK /\ CounterInv => IInv
  BY DEF IInv, CounterInv
<1> QED
  BY <1>1, <1>2, <1>3, StoreTypeCorrect, PTL DEF Spec

\* The total in flash is at most what the vehicle has flown, whatever restarts of
\* either side come between its two writes.
THEOREM NotTwice == Spec => []FlightTimeNotTwice
<1>1. IInv => FlightTimeNotTwice
  BY DEF IInv, Ledger, Total, FlightTimeNotTwice
<1> QED
  BY <1>1, StoreInvariance, PTL

\* The total falls only with the whole flash.
THEOREM TotalKept == Spec => FlightTimeKept
<1> DEFINE Kept == nvs["FLT_TIME"] # Absent =>
                     nvs'["FLT_TIME"] = Absent \/ nvs'["FLT_TIME"] >= nvs["FLT_TIME"]
<1>1. IInv /\ [Next]_vars => [Kept]_vars
  <2> SUFFICES ASSUME IInv, Next, nvs["FLT_TIME"] # Absent, nvs'["FLT_TIME"] # Absent
               PROVE  nvs'["FLT_TIME"] >= nvs["FLT_TIME"]
    OBVIOUS
  <2>1. nvs["FLT_TIME"] \in Nat /\ Total = nvs["FLT_TIME"]
    BY DEF IInv, TypeOK, Value, Names, Times, Flags, Total, Load, Read, TooLong, Texts
  <2>2. CASE UNCHANGED nvs
    BY <2>1, <2>2
  <2>3. CASE nvs' = Empty
    BY <2>3 DEF Empty, Names, Times
  <2>4. CASE Set
    <3> DEFINE w == Head(todo)
    <3>1. nvs' = [nvs EXCEPT ![w.name] = w.value] /\ todo # <<>> /\ todo \in Seq(Write)
      BY <2>4 DEF Set, Stored, IInv, TypeOK
    <3>2. CASE OtherWrites \/ AuxOnly \/ AuxThenTotal
      <4>1. w.name # "FLT_TIME"
        BY <3>1, <3>2 DEF OtherWrites, AuxOnly, AuxThenTotal, AuxWrite, Times
      <4> QED
        BY <2>1, <3>1, <4>1 DEF IInv, TypeOK
    <3>3. CASE TotalLast
      <4>1. PICK y \in 0..flown : todo = <<TotalWrite(y)>> /\ Total <= y
        BY <3>3 DEF TotalLast, TotalOk
      <4>2. w.name = "FLT_TIME" /\ w.value = y
        BY <4>1 DEF TotalWrite
      <4> QED
        BY <2>1, <3>1, <4>1, <4>2 DEF IInv, TypeOK, Names, Times
    <3> QED
      BY <3>2, <3>3 DEF IInv, WritesKeepLedger
  <2> QED
    BY <2>2, <2>3, <2>4 DEF Next, Boot, Return, Erase, PowerCut, PersistId, CountTime,
       DroneCANSet, MavlinkSet, SecureSet, Call, Fly, CounterReset, Report
<1> QED
  BY <1>1, StoreInvariance, PTL DEF Spec, FlightTimeKept

-----------------------------------------------------------------------------
(* Resets. *)

\* A call that begins leaves the flash alone.
LEMMA CallKeepsFlash ==
  ASSUME NEW who, NEW writes, Call(who, writes), ResetPendingOnlyOff
  PROVE  ResetPendingOnlyOff'
BY DEF Call, ResetPendingOnlyOff

\* The module never works with a reset to the defaults pending, wherever power is
\* cut between its request and the end of the erasure.
THEOREM ResetsEnd == Spec => []ResetCompletes
<1>1. Init => ResetPendingOnlyOff
  BY StoreAssumption DEF Init, ResetPendingOnlyOff
<1>2. ASSUME IInv, ResetPendingOnlyOff, [Next]_vars
      PROVE  ResetPendingOnlyOff'
  <2> USE <1>2
  <2>1. CASE Boot
    <3>1. nvs["TO_DEFAULTS"] = 1 => ResetPending
      BY StoreAssumption DEF ResetPending, Loaded, Load, Read, TooLong, Texts, Names, Value, Flags
    <3>2. CASE ResetPending
      BY <2>1, <3>2 DEF Boot, ResetPendingOnlyOff
    <3>3. CASE ~ResetPending
      BY <2>1, <3>1, <3>3 DEF Boot, ResetPendingOnlyOff
    <3> QED
      BY <3>2, <3>3
  <2>2. CASE Set
    <3> DEFINE w == Head(todo)
    <3>1. todo # <<>> /\ pc \notin {"off", "loop", "erasing"}
      BY <2>2 DEF Set, IInv, WritesKeepLedger
    <3>2. nvs["TO_DEFAULTS"] # 1
      BY <3>1 DEF ResetPendingOnlyOff
    <3>3. nvs' = [nvs EXCEPT ![w.name] = w.value]
      BY <2>2 DEF Set, Stored
    <3>4. w.name = "TO_DEFAULTS" /\ w.value = 1 => pc' = "erasing"
      BY <2>2 DEF Set
    <3> HIDE DEF w
    <3>5. nvs'["TO_DEFAULTS"] = 1 => w.name = "TO_DEFAULTS" /\ w.value = 1
      BY <3>2, <3>3
    <3> QED
      BY <3>4, <3>5 DEF ResetPendingOnlyOff
  <2>3. CASE Return
    BY <2>3 DEF Return, ResetPendingOnlyOff
  <2>4. CASE Erase \/ PowerCut
    BY <2>4 DEF Erase, PowerCut, ResetPendingOnlyOff
  <2>5. ASSUME NEW u \in UasIds, PersistId(u)
        PROVE  ResetPendingOnlyOff'
    BY <2>5, CallKeepsFlash DEF PersistId
  <2>6. CASE CountTime
    BY <2>6, CallKeepsFlash DEF CountTime
  <2>7. ASSUME NEW w \in Sets, DroneCANSet(w) \/ MavlinkSet(w)
        PROVE  ResetPendingOnlyOff'
    BY <2>7, CallKeepsFlash DEF DroneCANSet, MavlinkSet
  <2>8. ASSUME NEW writes \in Commands, SecureSet(writes)
        PROVE  ResetPendingOnlyOff'
    BY <2>8, CallKeepsFlash DEF SecureSet
  <2>9. CASE Fly \/ CounterReset \/ Report \/ UNCHANGED vars
    BY <2>9 DEF Fly, CounterReset, Report, vars, ResetPendingOnlyOff
  <2> QED
    BY <2>1, <2>2, <2>3, <2>4, <2>5, <2>6, <2>7, <2>8, <2>9 DEF Next
<1>3. ResetPendingOnlyOff => ResetCompletes
  BY DEF ResetPendingOnlyOff, ResetCompletes
<1> QED
  BY <1>1, <1>2, <1>3, StoreInvariance, PTL DEF Spec

-----------------------------------------------------------------------------
(* What survives a restart. *)

\* What a call that begins is about to write; the ways one begins.
LEMMA CallBegins ==
  ASSUME Next, pc = "loop", todo' # todo
  PROVE  /\ UNCHANGED <<g, nvs>>
         /\ \/ /\ ~have_basic_id_info
               /\ \E u \in UasIds :
                    todo' = <<[name |-> "UAS_TYPE", value |-> 1],
                              [name |-> "UAS_ID_TYPE", value |-> 1],
                              [name |-> "UAS_ID", value |-> u]>>
            \/ todo' = TimeWrites
            \/ /\ g["LOCK_LEVEL"] <= 0
               /\ \E w \in Sets : todo' = <<w>>
            \/ \E w \in Sets : /\ todo' = <<w>>
                               /\ w.name \notin Keys \cup Texts
                               /\ g["LOCK_LEVEL"] > 0 => w.name = "LOCK_LEVEL"
            \/ todo' \in Commands /\ pc' = "secure_command"
            \/ todo' = <<>>
<1>1. CASE \E u \in UasIds : PersistId(u)
  BY <1>1 DEF PersistId, Call
<1>2. CASE CountTime
  BY <1>2 DEF CountTime, Call
<1>3. CASE \E w \in Sets : DroneCANSet(w)
  BY <1>3 DEF DroneCANSet, Call
<1>4. CASE \E w \in Sets : MavlinkSet(w)
  BY <1>4 DEF MavlinkSet, Call
<1>5. CASE \E writes \in Commands : SecureSet(writes)
  BY <1>5 DEF SecureSet, Call
<1>6. CASE PowerCut
  BY <1>6 DEF PowerCut
<1> QED
  BY <1>1, <1>2, <1>3, <1>4, <1>5, <1>6
     DEF Next, Boot, Set, Return, Erase, Fly, CounterReset, Report

\* A step that neither boots nor is one of a call leaves RAM and flash alone, or
\* the module off.
LEMMA QuietStore ==
  ASSUME [Next]_vars, ~Boot, ~Set
  PROVE  pc' = "off" \/ (UNCHANGED <<g, nvs, rekeyed>> /\ (pc' = "off" <=> pc = "off"))
<1>1. CASE UNCHANGED vars
  BY <1>1 DEF vars
<1>2. CASE Return \/ Erase \/ PowerCut \/ Fly \/ CounterReset \/ Report
  BY <1>2 DEF Return, Erase, PowerCut, Fly, CounterReset, Report
<1>3. ASSUME NEW who \in {"set_data", "param_set", "secure_command"}, NEW writes,
             Call(who, writes)
      PROVE  UNCHANGED <<g, nvs, rekeyed>> /\ pc' # "off" /\ pc # "off"
  BY <1>3 DEF Call
<1>4. CASE \/ \E u \in UasIds : PersistId(u)
           \/ CountTime
           \/ \E w \in Sets : DroneCANSet(w) \/ MavlinkSet(w)
           \/ \E writes \in Commands : SecureSet(writes)
  BY <1>3, <1>4 DEF PersistId, CountTime, DroneCANSet, MavlinkSet, SecureSet
<1> QED
  BY <1>1, <1>2, <1>4 DEF Next

\* The writes of a boot that are still to come are the last ones of it: those of
\* the first boot, or the test airport's alone.
FirstWrites ==
  /\ Len(todo) <= 6
  /\ \A i \in 1..Len(todo) : todo[i] = BootWrites[i + 6 - Len(todo)]
BootTodo == pc = "init" => todo = <<NoTestAirport>> \/ FirstWrites

\* What SurvivesRestart claims, also in the middle of a call; during the first
\* boot a key may be cleared that is the next to be written.
IsNext(k)  == pc = "init" /\ todo # <<>> /\ k = Head(todo).name
RamMatches == pc # "off" => \A n \in Names : Matches(n) \/ IsNext(n)

\* A write reaches RAM and flash alike, a text in RAM as far as its field; the
\* other parameters keep what they have, but for a key it clears.
LEMMA WrittenMatches ==
  ASSUME TypeOK, NEW w \in Write, g' = InRam(w), nvs' = Stored(w),
         rekeyed \subseteq rekeyed'
  PROVE  /\ Matches(w.name)'
         /\ \A n \in Names \ {w.name} :
              /\ ~Clears(w.name, n) /\ Matches(n) => Matches(n)'
              /\ Clears(w.name, n) => g'[n] = "empty"
<1>1. w.name \in Names /\ w.value \in Value(w.name) /\ w.value # Absent
  BY WriteFields, StoreAssumption
<1>2. nvs'[w.name] = w.value /\ \A n \in Names \ {w.name} : nvs'[n] = nvs[n]
  BY <1>1 DEF Stored, TypeOK
<1>3. Matches(w.name)'
  <2>1. g'[w.name] = IF w.name \in Texts THEN Field[w.value] ELSE w.value
    BY <1>1 DEF InRam
  <2>2. CASE TooLong(w.name, w.value)
    <3>1. CutShort(w.name)'
      BY <1>2, <2>1, <2>2 DEF CutShort, TooLong
    <3> QED
      BY <3>1 DEF Matches
  <2>3. CASE ~TooLong(w.name, w.value)
    <3>1. g'[w.name] = w.value /\ Read(w.name)' = w.value
      BY <1>1, <1>2, <2>1, <2>3 DEF Read, TooLong
    <3> QED
      BY <1>2, <3>1 DEF Matches, Load, Unnamed
  <2> QED
    BY <2>2, <2>3
<1>4. ASSUME NEW n \in Names \ {w.name}, ~Clears(w.name, n), Matches(n)
      PROVE  Matches(n)'
  <2>1. g'[n] = g[n] /\ nvs'[n] = nvs[n]
    BY <1>2, <1>4 DEF InRam
  <2>2. \A k : Clears(k, n)' <=> Clears(k, n)
    BY DEF Clears
  <2>3. Cleared(n) => Cleared(n)'
    BY <2>1, <2>2 DEF Cleared
  <2> QED
    BY <1>4, <2>1, <2>3 DEF Matches, Load, Read, TooLong, CutShort, Unnamed
<1>5. \A n \in Names \ {w.name} : Clears(w.name, n) => g'[n] = "empty"
  BY DEF InRam
<1> QED
  BY <1>3, <1>4, <1>5

\* The key that a write of the first boot clears is the next to be written.
LEMMA FirstInitClears ==
  ASSUME NEW m \in 1..6, NEW k, Clears(BootWrites[m].name, k)
  PROVE  m < 6 /\ k = BootWrites[m + 1].name
<1>1. PICK i \in 1..3 : BootWrites[m].name = KeyNames[i] /\ k = KeyNames[i + 1]
  BY DEF Clears, KeyNames
<1>2. /\ KeyNames[i] \notin {"DONE_INIT", "MIN_TEST_AIRPORT"}
      /\ \A j \in 1..4 : KeyNames[j] = KeyNames[i] => j = i
  BY DEF KeyNames
<1>3. m # 1 /\ m # 2
  BY <1>1, <1>2, BootWritesAre
<1>4. m - 2 \in 1..4 /\ (m - 2) + 2 = m
  BY <1>3
<1>5. m - 2 = i
  BY <1>1, <1>2, <1>4, BootWritesAre
<1>6. m < 6 /\ i + 1 \in 1..4 /\ (i + 1) + 2 = m + 1
  BY <1>5
<1> QED
  BY <1>1, <1>6, BootWritesAre

\* No write of a boot asks for a reset; only those after the second set a key.
LEMMA BootWritesReset ==
  ASSUME NEW m \in 1..6
  PROVE  BootWrites[m].name # "TO_DEFAULTS"
<1>1. \A i \in 1..4 : KeyNames[i] # "TO_DEFAULTS"
  BY DEF KeyNames
<1>2. m \in 3..6 => m - 2 \in 1..4 /\ (m - 2) + 2 = m
  OBVIOUS
<1>3. m \in {1, 2} \/ m \in 3..6
  OBVIOUS
<1> QED
  BY <1>1, <1>2, <1>3, BootWritesAre

LEMMA HeadAndTail ==
  ASSUME NEW s \in Seq(Write), s # <<>>
  PROVE  /\ Len(s) \in Nat \ {0} /\ Head(s) = s[1] /\ Head(s) \in Write
         /\ Len(Tail(s)) = Len(s) - 1
         /\ \A i \in 1..Len(Tail(s)) : Tail(s)[i] = s[i + 1]
<1>1. Len(s) \in Nat \ {0} /\ Head(s) \in Write
  OBVIOUS
<1>2. Head(s) = s[1]
  OBVIOUS
<1>3. Len(Tail(s)) = Len(s) - 1
  OBVIOUS
<1>4. \A i \in 1..Len(Tail(s)) : Tail(s)[i] = s[i + 1]
  OBVIOUS
<1> QED
  BY <1>1, <1>2, <1>3, <1>4

\* A write of the first boot.
LEMMA FirstWriteStep ==
  ASSUME TypeOK, RamMatches, pc = "init", FirstWrites, Set
  PROVE  BootTodo' /\ RamMatches'
<1> DEFINE w == Head(todo)
           m == 7 - Len(todo)
<1>1. /\ todo \in Seq(Write) /\ Len(todo) \in 1..6 /\ w = todo[1] /\ w \in Write
      /\ Len(Tail(todo)) = Len(todo) - 1
      /\ \A i \in 1..Len(Tail(todo)) : Tail(todo)[i] = todo[i + 1]
  <2>1. todo \in Seq(Write) /\ Len(todo) <= 6 /\ todo # <<>>
    BY DEF TypeOK, FirstWrites, Set
  <2>2. Len(todo) \in Nat \ {0} /\ w = todo[1] /\ w \in Write
    BY <2>1, HeadAndTail
  <2>3. /\ Len(Tail(todo)) = Len(todo) - 1
        /\ \A i \in 1..Len(Tail(todo)) : Tail(todo)[i] = todo[i + 1]
    BY <2>1, HeadAndTail
  <2>4. Len(todo) \in 1..6
    <3>1. \A n \in Nat \ {0} : n <= 6 => n \in 1..6
      OBVIOUS
    <3> QED
      BY <2>1, <2>2, <3>1, Zenon
  <2> QED
    BY <2>1, <2>2, <2>3, <2>4, Zenon
<1>2. m \in 1..6 /\ w = BootWrites[m]
  <2>1. 1 \in 1..Len(todo) /\ 1 + 6 - Len(todo) = m
    BY <1>1
  <2> QED
    BY <1>1, <2>1 DEF FirstWrites
<1>3. /\ g' = InRam(w) /\ nvs' = Stored(w) /\ rekeyed' = rekeyed
      /\ pc' = "init" /\ todo' = Tail(todo)
  BY <1>2, BootWritesReset DEF Set
<1>4. /\ Len(todo') = Len(todo) - 1
       /\ \A i \in 1..Len(todo') : todo'[i] = todo[i + 1]
  BY <1>1, <1>3, Zenon
<1> HIDE DEF w, m
<1>5. FirstWrites'
  <2>1. ASSUME NEW i \in 1..Len(todo')
        PROVE  todo'[i] = BootWrites[i + 6 - Len(todo')]
    <3>1. i + 1 \in 1..Len(todo) /\ (i + 1) + 6 - Len(todo) = i + 6 - Len(todo')
      BY <1>1, <1>4
    <3>2. todo'[i] = todo[i + 1]
      BY <1>4
    <3> QED
      BY <3>1, <3>2, Zenon DEF FirstWrites
  <2>2. Len(todo') <= 6
    <3>1. \A k \in 1..6 : k - 1 <= 6
      OBVIOUS
    <3> QED
      BY <1>1, <1>4, <3>1, Zenon
  <2> QED
    BY <2>1, <2>2, Zenon DEF FirstWrites
<1>6. ASSUME NEW n \in Names
      PROVE  Matches(n)' \/ IsNext(n)'
  <2>1. CASE n = w.name
    BY <1>1, <1>3, <2>1, WrittenMatches
  <2>2. CASE n # w.name /\ ~Clears(w.name, n)
    <3>1. Matches(n)
      BY <2>2 DEF RamMatches, IsNext, w
    <3> QED
      BY <1>1, <1>3, <2>2, <3>1, WrittenMatches
  <2>3. CASE Clears(w.name, n)
    <3>1. m < 6 /\ n = BootWrites[m + 1].name
      BY <1>2, <2>3, FirstInitClears
    <3>2. 1 \in 1..Len(todo') /\ 1 + 6 - Len(todo') = m + 1
      BY <1>1, <1>4, <3>1 DEF m
    <3>3. todo'[1] = BootWrites[m + 1]
      BY <1>5, <3>2 DEF FirstWrites
    <3>4. todo' # <<>> /\ Head(todo') = todo'[1]
      <4>1. todo' \in Seq(Write)
        BY <1>1, <1>3
      <4>2. todo' # <<>>
        BY <3>2
      <4> QED
        BY <4>1, <4>2, HeadAndTail, Zenon
    <3> QED
      BY <1>3, <3>1, <3>3, <3>4 DEF IsNext
  <2> QED
    BY <2>1, <2>2, <2>3
<1> QED
  BY <1>5, <1>6 DEF RamMatches, BootTodo

\* A write that is not one of the first boot's: the key it clears, if any, is one
\* whose predecessor was set after init().
LEMMA LaterWriteStep ==
  ASSUME TypeOK, RamMatches, BootTodo, ~(pc = "init" /\ FirstWrites), Set
  PROVE  BootTodo' /\ RamMatches'
<1> DEFINE w == Head(todo)
<1>1. /\ todo # <<>> /\ w \in Write /\ pc # "off"
      /\ g' = InRam(w) /\ nvs' = Stored(w)
      /\ rekeyed' = IF pc # "init" THEN rekeyed \cup ({w.name} \cap Keys) ELSE rekeyed
      /\ pc' = "erasing" \/ (pc' = pc /\ todo' = Tail(todo))
  BY DEF Set, TypeOK
<1>2. pc = "init" => w = NoTestAirport /\ Tail(todo) = <<>>
  <2>1. pc = "init" => todo = <<NoTestAirport>>
    BY DEF BootTodo
  <2>2. Head(<<NoTestAirport>>) = NoTestAirport /\ Tail(<<NoTestAirport>>) = <<>>
    OBVIOUS
  <2> QED
    BY <2>1, <2>2, Zenon
<1> HIDE DEF w
<1>3. BootTodo'
  <2>1. CASE pc' # "init"
    BY <2>1 DEF BootTodo
  <2>2. CASE pc' = "init"
    <3>1. todo' = <<>>
      BY <1>1, <1>2, <2>2
    <3> QED
      BY <3>1 DEF BootTodo, FirstWrites
  <2> QED
    BY <2>1, <2>2
<1>4. ASSUME NEW n \in Names
      PROVE  Matches(n)'
  <2>1. CASE n = w.name
    BY <1>1, <2>1, WrittenMatches
  <2>2. CASE n # w.name /\ ~Clears(w.name, n)
    <3>1. ~IsNext(n)
      BY <2>2 DEF IsNext, w
    <3>2. Matches(n)
      BY <1>1, <3>1 DEF RamMatches
    <3> QED
      BY <1>1, <2>2, <3>2, WrittenMatches
  <2>3. CASE n # w.name /\ Clears(w.name, n)
    <3>1. w.name \in Keys
      BY <2>3 DEF Clears, KeyNames, Keys
    <3>2. pc # "init"
      BY <1>2, <3>1 DEF NoTestAirport, Keys
    <3>3. w.name \in rekeyed' /\ g'[n] = "empty"
      BY <1>1, <2>3, <3>1, <3>2, WrittenMatches
    <3>4. Cleared(n)'
      BY <2>3, <3>3 DEF Cleared, Clears
    <3> QED
      BY <3>4 DEF Matches
  <2> QED
    BY <2>1, <2>2, <2>3
<1> QED
  BY <1>3, <1>4 DEF RamMatches

LEMMA RamMatchesStep ==
  ASSUME TypeOK, RamMatches, BootTodo, pc \in {"off", "loop", "erasing"} => todo = <<>>,
         [Next]_vars
  PROVE  RamMatches' /\ BootTodo'
<1>1. CASE Boot
  <2>1. RamMatches'
    <3>1. \A n \in Names : g'[n] = Load(n)' \/ pc' = "off"
      BY <1>1 DEF Boot, Loaded, Load, Read, TooLong
    <3> QED
      BY <3>1 DEF RamMatches, Matches
  <2>2. CASE pc' # "init"
    BY <2>1, <2>2 DEF BootTodo
  <2>3. CASE pc' = "init"
    <3>1. todo' = BootWrites \/ todo' = <<NoTestAirport>> \o <<>>
      BY <1>1, <2>3 DEF Boot, BootWrites
    <3>2. <<NoTestAirport>> \o <<>> = <<NoTestAirport>>
      OBVIOUS
    <3>3. CASE todo' = BootWrites
      <4>1. Len(todo') = 6 /\ \A i \in 1..6 : i + 6 - 6 = i
        BY <3>3, BootWritesAre
      <4>2. FirstWrites'
        BY <3>3, <4>1 DEF FirstWrites
      <4> QED
        BY <2>1, <4>2 DEF BootTodo
    <3>4. NoTestAirport' = NoTestAirport
      BY DEF NoTestAirport
    <3> QED
      BY <2>1, <3>1, <3>2, <3>3, <3>4 DEF BootTodo
  <2> QED
    BY <2>2, <2>3
<1>2. CASE Set
  BY <1>2, FirstWriteStep, LaterWriteStep
<1>3. CASE ~Boot /\ ~Set /\ pc' = "off"
  BY <1>3 DEF RamMatches, BootTodo
<1>4. CASE ~Boot /\ ~Set /\ pc' # "off"
  <2>1. UNCHANGED <<g, nvs, rekeyed>> /\ pc # "off"
    BY <1>4, QuietStore
  <2>2. \A n \in Names : Matches(n)' <=> Matches(n)
    BY <2>1 DEF Matches, Load, Read, TooLong, CutShort, Unnamed, Cleared, Clears
  <2>3. /\ pc' = "init" => pc = "init" /\ todo' = todo
        /\ pc = "init" /\ todo # <<>> => pc' = pc /\ todo' = todo
    BY <1>4 DEF Next, Return, Erase, PowerCut, PersistId, CountTime, DroneCANSet,
       MavlinkSet, SecureSet, Call, Fly, CounterReset, Report, vars
  <2>4. RamMatches'
    BY <2>1, <2>2, <2>3 DEF RamMatches, IsNext
  <2>5. BootTodo'
    BY <2>3 DEF BootTodo, FirstWrites, NoTestAirport, BootWrites, FirstInit
  <2> QED
    BY <2>4, <2>5
<1> QED
  BY <1>1, <1>2, <1>3, <1>4

\* Whatever is set, and wherever power is cut, a parameter differs between RAM and
\* what a boot would load only in the ways SurvivesRestart names: the keys that the
\* writes of the first boot clear in RAM are set by it afterwards, and a restart
\* between them finds what is in flash (parameters.cpp:94-102, 326-391).
THEOREM RestartSurvived == Spec => []SurvivesRestart
<1>1. Init => RamMatches /\ BootTodo
  BY DEF Init, RamMatches, BootTodo
<1>2. IInv /\ RamMatches /\ BootTodo /\ [Next]_vars => RamMatches' /\ BootTodo'
  BY RamMatchesStep DEF IInv, WritesKeepLedger
<1>3. RamMatches => SurvivesRestart
  BY DEF RamMatches, IsNext, SurvivesRestart
<1> QED
  BY <1>1, <1>2, <1>3, StoreInvariance, PTL DEF Spec

-----------------------------------------------------------------------------
(* The identity of a locked module. *)

\* An identity in flash is one in RAM, if only the part of it that fits.
IdentityInRam ==
  pc # "off" /\ nvs["UAS_ID"] \notin {Absent, NoId} => g["UAS_ID"] # NoId

LEMMA IdentityInRamStep ==
  ASSUME TypeOK, IdentityInRam, [Next]_vars
  PROVE  IdentityInRam'
<1>1. CASE Boot
  <2>1. Default("UAS_ID") # NoId
    BY StoreAssumption DEF Default, Flags, Times, Keys, Texts
  <2> QED
    BY <1>1, <2>1 DEF Boot, Loaded, Load, Read, IdentityInRam, Names, Texts
<1>2. CASE Set
  <2> DEFINE w == Head(todo)
  <2>1. w \in Write /\ g' = InRam(w) /\ nvs' = Stored(w) /\ pc # "off"
    BY <1>2 DEF Set, TypeOK
  <2> HIDE DEF w
  <2>2. CASE w.name = "UAS_ID"
    <3>1. w.value \in UasIds \cup {NoId}
      BY <2>1, <2>2, WriteFields DEF Value, Flags, Times, Keys, Texts
    <3>2. g'["UAS_ID"] = Field[w.value] /\ nvs'["UAS_ID"] = w.value
      BY <2>1, <2>2 DEF InRam, Stored, TypeOK, Names, Texts
    <3> QED
      BY <3>1, <3>2, StoreAssumption DEF IdentityInRam
  <2>3. CASE w.name # "UAS_ID"
    <3>1. ~Clears(w.name, "UAS_ID")
      BY ClearsKeys DEF Keys
    <3>2. g'["UAS_ID"] = g["UAS_ID"] /\ nvs'["UAS_ID"] = nvs["UAS_ID"]
      BY <2>1, <2>3, <3>1 DEF InRam, Stored, TypeOK, Names, Texts
    <3> QED
      BY <2>1, <3>2 DEF IdentityInRam
  <2> QED
    BY <2>2, <2>3
<1>3. CASE ~Boot /\ ~Set
  BY <1>3, QuietStore DEF IdentityInRam
<1> QED
  BY <1>1, <1>2, <1>3

\* What a locked module that has an identity in flash works with.
LEMMA LockedIdentity ==
  ASSUME TypeOK, SurvivesRestart, IdentityInRam, HasLockedIdentity, pc = "loop"
  PROVE  have_basic_id_info /\ g["LOCK_LEVEL"] > 0
<1>1. \A n \in {"LOCK_LEVEL", "UAS_TYPE", "UAS_ID_TYPE"} :
        /\ n \in Names \ {"MIN_TEST_AIRPORT"} /\ ~TooLong(n, nvs[n])
        /\ ~Unnamed(n) /\ ~Cleared(n) /\ Load(n) = nvs[n]
  <2>1. \A n \in {"LOCK_LEVEL", "UAS_TYPE", "UAS_ID_TYPE"} :
          n \in Names \ {"MIN_TEST_AIRPORT"} /\ n \notin Keys /\ nvs[n] # Absent
    BY StoreAssumption DEF HasLockedIdentity, Names, Keys, Flags, Value, Times, Texts
  <2> QED
    BY <2>1, ClearsKeys DEF TooLong, Texts, Unnamed, Cleared, Load, Read
<1>2. \A n \in {"LOCK_LEVEL", "UAS_TYPE", "UAS_ID_TYPE"} : g[n] = nvs[n]
  BY <1>1 DEF SurvivesRestart, Matches, CutShort
<1>3. g["UAS_ID"] # NoId
  BY DEF IdentityInRam, HasLockedIdentity
<1> QED
  BY <1>2, <1>3 DEF have_basic_id_info, HasLockedIdentity

\* On a locked module that has an identity, nothing but a signed command sets out
\* to write a part of it, whatever the transports carry and through any number of
\* restarts (RemoteIDModule.ino:305-325, DroneCAN.cpp:693-697, mavlink.cpp:256-281).
THEOREM IdentityStays == Spec => IdentityKept
<1> DEFINE Kept == HasLockedIdentity /\ pc \in {"off", "loop"} /\ WritesIdentity(todo') =>
                     pc' = "secure_command"
<1>1. IInv /\ SurvivesRestart /\ IdentityInRam /\ [Next]_vars => [Kept]_vars
  <2> SUFFICES ASSUME IInv, SurvivesRestart, IdentityInRam, Next, HasLockedIdentity,
                      pc \in {"off", "loop"}, WritesIdentity(todo')
               PROVE  pc' = "secure_command"
    OBVIOUS
  <2>0. TypeOK /\ todo = <<>>
    BY DEF IInv, WritesKeepLedger
  <2>1. todo' # <<>>
    BY DEF WritesIdentity
  <2>2. CASE pc = "off"
    <3>1. todo' = BootWrites \/ todo' = <<NoTestAirport>> \o <<>>
      BY <2>0, <2>1, <2>2 DEF Next, Boot, Set, Return, Erase, PowerCut, PersistId,
         CountTime, DroneCANSet, MavlinkSet, SecureSet, Call, Fly, CounterReset, Report,
         BootWrites
    <3>2. \A i \in 1..6 : BootWrites[i].name \notin {"UAS_TYPE", "UAS_ID_TYPE", "UAS_ID"}
      <4>1. \A i \in 1..4 : KeyNames[i] \notin {"UAS_TYPE", "UAS_ID_TYPE", "UAS_ID"}
        BY DEF KeyNames
      <4>2. \A i \in 3..6 : i - 2 \in 1..4 /\ (i - 2) + 2 = i
        OBVIOUS
      <4>3. \A i \in 3..6 : BootWrites[i].name = KeyNames[i - 2]
        BY <4>2, BootWritesAre
      <4>4. \A i \in 1..6 : i \in {1, 2} \/ i \in 3..6
        OBVIOUS
      <4> QED
        BY <4>1, <4>2, <4>3, <4>4, BootWritesAre
    <3>3. ~WritesIdentity(<<NoTestAirport>> \o <<>>)
      BY DEF WritesIdentity, NoTestAirport
    <3> QED
      BY <3>1, <3>2, <3>3, BootWritesAre DEF WritesIdentity
  <2>3. CASE pc = "loop"
    <3>1. have_basic_id_info /\ g["LOCK_LEVEL"] > 0 /\ g["LOCK_LEVEL"] \in Int
      BY <2>0, <2>3, LockedIdentity DEF TypeOK, Value, Names, Flags, Times, Keys, Texts
    <3>2. ~(g["LOCK_LEVEL"] <= 0)
      BY <3>1
    <3>3. ~WritesIdentity(TimeWrites)
      BY DEF WritesIdentity, TimeWrites
    <3>4. \A w : w.name = "LOCK_LEVEL" => ~WritesIdentity(<<w>>)
      BY DEF WritesIdentity
    <3> QED
      BY <2>0, <2>1, <2>3, <3>1, <3>2, <3>3, <3>4, CallBegins
  <2> QED
    BY <2>2, <2>3
<1>2. Init => IdentityInRam
  BY DEF Init, IdentityInRam
<1>3. TypeOK /\ IdentityInRam /\ [Next]_vars => IdentityInRam'
  BY IdentityInRamStep
<1> QED
  BY <1>1, <1>2, <1>3, StoreTypeCorrect, StoreInvariance, RestartSurvived, PTL
     DEF Spec, IdentityKept
=============================================================================
