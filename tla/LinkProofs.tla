------------------------------ MODULE LinkProofs ------------------------------
(***************************************************************************)
(* Proofs about the links of the module to its peers.                      *)
(*                                                                         *)
(* ParamAccess, for every table whose hidden entries come last, any numbers*)
(* and strings, and any messages lost: the types, that a locked module is  *)
(* left alone, that a DroneCAN tool is given everything, and that a MAVLink*)
(* list is complete.  The argument for the last one is that the indices    *)
(* sent so far are those of the visible numbers that lie before the entry  *)
(* whose turn it is.                                                       *)
(*                                                                         *)
(* CanNode, for any number of parts, any queue sizes, failure limits and   *)
(* traffic of other nodes: the node takes no ID but its own, and queues and*)
(* counters keep their bounds.                                             *)
(***************************************************************************)
EXTENDS ParamAccess, CanNode, FiniteSetTheorems, SequenceTheorems, TLAPS

-----------------------------------------------------------------------------
(* Types. *)

LEMMA TableLength == Len(Table) \in Nat /\ Len(Table) > 1
BY TableAssumption

LEMMA FirstIsParam == LockLevel \in Params /\ IsNumber(LockLevel)
BY TableAssumption DEF LockLevel, Params, VisibleNumbers

\* What a number is made to fit in a byte, or in a signed one.
LEMMA ByteType ==
  ASSUME NEW v \in Int
  PROVE  /\ Integer(v) \in Int /\ Byte(v) \in 0..255
         /\ Signed(Byte(v)) \in -128..127
         /\ Signed(Byte(v)) >= 0 => Signed(Byte(v)) = Byte(v)
<1>1. Integer(v) \in Int
  BY DEF Integer
<1>2. \A n \in Int : n % 256 \in 0..255
  OBVIOUS
<1>3. Byte(v) \in 0..255
  BY <1>1, <1>2 DEF Byte
<1> QED
  BY <1>1, <1>3 DEF Signed

LEMMA HalfOf ==
  ASSUME NEW n \in Int
  PROVE  Half(n) \in Int /\ Half(n) % 2 = 0 /\ Integer(Half(n)) = n
BY DEF Half, Integer

\* An integer drops the fraction and what does not fit, whatever number it is set to.
LEMMA StoredKind ==
  ASSUME NEW p \in Params, NEW v, IsNumber(p) => v \in Nat,
         ~IsNumber(p) => v \in Strings
  PROVE  Stored(p, v) \in Kind(p)
<1>1. CASE ~IsNumber(p)
  BY <1>1 DEF Stored, Kind, IsNumber, NumberTypes
<1>2. CASE Table[p].type = "float"
  BY <1>2 DEF Stored, Kind, IsNumber, NumberTypes
<1>3. CASE Table[p].type = "uint32"
  <2>1. v \in Nat
    BY <1>3 DEF IsNumber, NumberTypes
  <2>2. Half(Integer(v)) \in Nat /\ Half(Integer(v)) % 2 = 0
    BY <2>1 DEF Half, Integer
  <2> QED BY <1>3, <2>2 DEF Stored, Kind
<1>4. CASE Table[p].type = "uint8"
  <2>1. v \in Int
    BY <1>4 DEF IsNumber, NumberTypes
  <2>2. Byte(v) \in 0..255
    BY <2>1, ByteType
  <2>3. Half(Byte(v)) \in 0..510 /\ Half(Byte(v)) % 2 = 0
    BY <2>2, HalfOf DEF Half
  <2> QED BY <1>4, <2>3 DEF Stored, Kind
<1>5. CASE Table[p].type = "int8"
  <2>1. v \in Int
    BY <1>5 DEF IsNumber, NumberTypes
  <2>2. Signed(Byte(v)) \in -128..127
    BY <2>1, ByteType
  <2>3. Half(Signed(Byte(v))) \in -256..254 /\ Half(Signed(Byte(v))) % 2 = 0
    BY <2>2, HalfOf DEF Half
  <2> QED BY <1>5, <2>3 DEF Stored, Kind
<1> QED BY <1>1, <1>2, <1>3, <1>4, <1>5 DEF IsNumber, NumberTypes

\* A setting leaves every parameter a value of its type.
LEMMA AfterKind ==
  ASSUME TypeOK, NEW p \in Params, NEW v, IsNumber(p) => v \in Nat,
         ~IsNumber(p) => v \in Strings
  PROVE  DOMAIN After(p, v) = Params /\ \A q \in Params : After(p, v)[q] \in Kind(q)
<1>1. ASSUME NEW q \in Params, Clears(p, q)
      PROVE  Empty \in Kind(q)
  BY <1>1 DEF Clears, Kind, IsNumber, NumberTypes
<1>2. Stored(p, v) \in Kind(p)
  BY StoredKind
<1> QED BY <1>1, <1>2 DEF After, TypeOK

LEMMA SendType ==
  ASSUME TypeOK, NEW p \in Params, Send(p)
  PROVE  known' \subseteq Params /\ lost' \in 0..MaxLost
BY TableAssumption DEF Send, TypeOK

LEMMA FollowingType ==
  ASSUME NEW p \in Params
  PROVE  /\ Following(p) = p + 1 /\ p + 1 \in 2..Len(Table)
         /\ Table[p + 1].type = "none" <=> p + 1 = Len(Table)
<1>1. Following(p) = p + 1 /\ p + 1 \in 2..Len(Table)
  BY TableLength DEF Following, Params
<1>2. CASE p + 1 = Len(Table)
  BY <1>1, <1>2, TableAssumption
<1>3. CASE p + 1 # Len(Table)
  <2>1. p + 1 \in Params
    BY <1>1, <1>3, TableLength DEF Params
  <2>2. Table[p + 1].type # "none"
    BY <2>1, TableAssumption DEF NumberTypes
  <2> QED BY <1>1, <1>3, <2>2
<1> QED BY <1>2, <1>3

\* The list is under way from a request to its last entry.
UnderWay == param_next = 0 <=> elapsed = "zero"

LEMMA StreamType ==
  ASSUME TypeOK, UnderWay, Stream
  PROVE  TypeOK' /\ UnderWay' /\ param_next \in Params
<1>1. param_next \in Params /\ param_next # 0
  BY DEF TypeOK, UnderWay, Stream, Params
<1>2. param_next' \in {0} \cup Params /\ UnderWay' /\ elapsed' \in {"zero", "fresh"}
  <2>1. CASE Table[Following(param_next)].type = "none"
    BY <2>1 DEF Stream, UnderWay
  <2>2. CASE Table[Following(param_next)].type # "none"
    <3>1. param_next' = param_next + 1 /\ elapsed' = "fresh"
      BY <1>1, <2>2, FollowingType DEF Stream
    <3>2. param_next + 1 \in Params /\ param_next + 1 # 0
      BY <1>1, <2>2, FollowingType, TableLength DEF Params
    <3> QED BY <3>1, <3>2 DEF UnderWay
  <2> QED BY <2>1, <2>2
<1>3. param_index_float(param_next) \in Int
  <2>1. VisibleNumbers \subseteq Params /\ IsFiniteSet(Params)
    BY TableLength, FS_Interval DEF VisibleNumbers, Params
  <2>2. IsFiniteSet({q \in VisibleNumbers : q < param_next})
    BY <2>1, FS_Subset
  <2>3. Preceding(param_next) \in Nat
    BY <2>2, FS_CardinalityType DEF Preceding
  <2> QED BY <2>3 DEF param_index_float
<1>4. listed' \in Seq(Int) /\ known' \subseteq Params /\ lost' \in 0..MaxLost
  <2>1. CASE IsNumber(param_next)
    <3>1. /\ Send(param_next)
          /\ listed' = Append(listed, param_index_float(param_next))
      BY <2>1 DEF Stream
    <3> QED BY <1>1, <1>3, <3>1, SendType DEF TypeOK
  <2>2. CASE ~IsNumber(param_next)
    BY <2>2 DEF Stream, TypeOK
  <2> QED BY <2>1, <2>2
<1>5. UNCHANGED <<value, tool, lists>>
  BY DEF Stream
<1> QED BY <1>1, <1>2, <1>4, <1>5 DEF TypeOK, tool

LEMMA ResetType ==
  ASSUME TypeOK, Reset
  PROVE  TypeOK' /\ UnderWay'
<1>1. value' = Default /\ param_next' = 0 /\ elapsed' = "zero" /\ listed' = <<>>
  BY DEF Reset
<1>2. DOMAIN Default = Params /\ \A p \in Params : Default[p] \in Kind(p)
  BY TableAssumption
<1> QED BY <1>1, <1>2 DEF TypeOK, UnderWay, Reset, tool

LEMMA NextType == TypeOK /\ UnderWay /\ [Next]_vars => TypeOK' /\ UnderWay'
<1> SUFFICES ASSUME TypeOK, UnderWay, [Next]_vars
             PROVE  TypeOK' /\ UnderWay'
  OBVIOUS
<1>1. CASE RequestList
  <2>1. param_next' \in Params /\ param_next' # 0
    BY <1>1 DEF RequestList, find_by_index_float, VisibleNumbers, Params
  <2>2. lists' \in 0..MaxLists
    BY <1>1, TableAssumption DEF RequestList, TypeOK
  <2>3. elapsed' \in {"fresh", "later"} /\ listed' = <<>>
        /\ UNCHANGED <<value, known, tool, lost>>
    BY <1>1 DEF RequestList
  <2> QED BY <2>1, <2>2, <2>3 DEF TypeOK, UnderWay, tool
<1>2. CASE Stream
  BY <1>2, StreamType
<1>3. CASE Wait
  BY <1>3 DEF Wait, TypeOK, UnderWay, tool
<1>4. ASSUME NEW i, ReadByIndex(i)
      PROVE  TypeOK' /\ UnderWay'
  <2>1. PICK p \in Params : Send(p) /\ UNCHANGED <<value, list, tool, lists>>
    BY <1>4 DEF ReadByIndex, Read, VisibleNumbers
  <2> QED BY <2>1, SendType DEF TypeOK, UnderWay, list, tool
<1>5. CASE GetByIndex
  <2>1. index' \in 0..Len(Table) /\ ended' \in BOOLEAN
    <3>1. CASE \E p \in find_by_index(index) : ~Table[p].hidden
      <4>1. index + 1 \in Params
        BY <3>1 DEF find_by_index
      <4>2. index' = index + 1 /\ ended' = ended /\ ended \in BOOLEAN
        BY <1>5, <3>1, Zenon DEF GetByIndex, TypeOK
      <4>3. index + 1 \in 0..Len(Table)
        BY <4>1, TableLength DEF Params
      <4> QED BY <4>2, <4>3, Zenon
    <3>2. CASE ~\E p \in find_by_index(index) : ~Table[p].hidden
      BY <1>5, <3>2 DEF GetByIndex, TypeOK
    <3> QED BY <3>1, <3>2
  <2> QED BY <1>5, <2>1 DEF GetByIndex, TypeOK, UnderWay, list
<1>6. ASSUME NEW p \in Params, NEW v \in Numbers, MavlinkSet(p, v)
      PROVE  TypeOK' /\ UnderWay'
  <2>1. CASE Reset
    BY <2>1, ResetType
  <2>2. CASE ~Reset
    <3>1. /\ value' = After(p, v) \/ value' = value
          /\ Send(p) /\ UNCHANGED <<list, tool, lists>> /\ IsNumber(p)
      BY <1>6, <2>2 DEF MavlinkSet
    <3>2. DOMAIN value' = Params /\ \A q \in Params : value'[q] \in Kind(q)
      BY <3>1, AfterKind, TableAssumption DEF TypeOK
    <3> QED BY <3>1, <3>2, SendType DEF TypeOK, UnderWay, list, tool
  <2> QED BY <2>1, <2>2
<1>7. ASSUME NEW p \in Params, NEW v, GetSet(p, v)
      PROVE  TypeOK' /\ UnderWay'
  <2>1. CASE Reset
    BY <2>1, ResetType
  <2>2. CASE ~Reset
    <3>1. /\ value' = After(p, v) /\ UNCHANGED <<list, known, tool, lists, lost>>
          /\ Fits(p, v)
      BY <1>7, <2>2 DEF GetSet
    <3>2. (IsNumber(p) => v \in Nat) /\ (~IsNumber(p) => v \in Strings)
      BY <3>1, TableAssumption DEF Fits, IsNumber, NumberTypes
    <3>3. DOMAIN value' = Params /\ \A q \in Params : value'[q] \in Kind(q)
      BY <3>1, <3>2, AfterKind
    <3> QED BY <3>1, <3>3 DEF TypeOK, UnderWay, list, tool
  <2> QED BY <2>1, <2>2
<1>8. CASE UNCHANGED vars
  BY <1>8 DEF vars, list, tool, TypeOK, UnderWay
<1> QED BY <1>1, <1>2, <1>3, <1>4, <1>5, <1>6, <1>7, <1>8 DEF Next

LEMMA InitType == Init => TypeOK /\ UnderWay
<1> SUFFICES ASSUME Init PROVE TypeOK /\ UnderWay
  OBVIOUS
<1>1. DOMAIN Default = Params /\ \A p \in Params : Default[p] \in Kind(p)
  BY TableAssumption
<1>2. 0 \in 0..Len(Table) /\ 0 \in 0..MaxLists /\ 0 \in 0..MaxLost
  BY TableAssumption
<1>3. /\ value = Default /\ param_next = 0 /\ elapsed = "zero" /\ listed = <<>>
      /\ known = {} /\ index = 0 /\ ended = FALSE /\ lists = 0 /\ lost = 0
  BY DEF Init
<1>4. ended \in BOOLEAN
  BY <1>3, Zenon
<1>5. listed \in Seq(Int)
  BY <1>3
<1> QED BY <1>1, <1>2, <1>3, <1>4, <1>5 DEF TypeOK, UnderWay

\* Whatever is set over either link, every parameter holds a value of its type
\* (parameters.cpp:284-300, DroneCAN.cpp:699-748).
THEOREM AccessTypeCorrect == Spec => []TypeOK
BY InitType, NextType, PTL DEF Spec

-----------------------------------------------------------------------------
(* The lock. *)

\* A level that is higher as a byte is higher, or below zero.
LEMMA RaisedLevel ==
  ASSUME TypeOK, Locked, NEW v \in Nat, Raises(LockLevel, v)
  PROVE  Stored(LockLevel, v) > value[LockLevel] \/ Stored(LockLevel, v) < 0
<1> DEFINE level == value[LockLevel]
           new   == Byte(v)
<1>1. LockLevel \in Params /\ Table[LockLevel].type = "int8"
  BY FirstIsParam, TableAssumption DEF LockLevel
<1>2. level \in 1..254 /\ level % 2 = 0
  <2>1. level \in {n \in -256..254 : n % 2 = 0}
    BY <1>1 DEF TypeOK, Kind
  <2>2. level > 0
    BY DEF Locked
  <2> QED BY <2>1, <2>2
<1>3. Integer(level) \in 0..127 /\ Half(Integer(level)) = level
  BY <1>2 DEF Integer, Half
<1>4. Byte(level) = Integer(level)
  BY <1>3 DEF Byte
<1>5. new \in 0..255 /\ Signed(new) \in -128..127 /\ (Signed(new) >= 0 => Signed(new) = new)
  BY ByteType
<1>6. new > Integer(level)
  BY <1>4 DEF Raises
<1>7. Stored(LockLevel, v) = Half(Signed(new))
  BY <1>1 DEF Stored
<1> HIDE DEF level, new
<1>8. CASE Signed(new) < 0
  <2>1. Half(Signed(new)) < 0
    BY <1>5, <1>8 DEF Half
  <2> QED BY <1>7, <2>1
<1>9. CASE Signed(new) >= 0
  <2>1. Half(Signed(new)) > Half(Integer(level))
    BY <1>3, <1>5, <1>6, <1>9 DEF Half
  <2> QED BY <1>3, <1>7, <2>1 DEF level
<1> QED BY <1>5, <1>8, <1>9

\* While the module is locked, a setting on either link changes the lock level
\* only, and raises it, or ends the lock with a level below zero
\* (mavlink.cpp:256-281, DroneCAN.cpp:693-697, parameters.cpp:290-292).
THEOREM LockedHolds == Spec => LockHolds
<1> DEFINE Held == Locked => \A p \in Params : value'[p] # value[p] =>
                     p = LockLevel /\ (value'[p] > value[p] \/ value'[p] < 0)
<1>1. TypeOK /\ Next => Held
  <2> SUFFICES ASSUME TypeOK, Next, Locked, NEW q \in Params, value'[q] # value[q]
               PROVE  q = LockLevel /\ (value'[q] > value[q] \/ value'[q] < 0)
    OBVIOUS
  <2>1. ASSUME NEW p \in Params, NEW v \in Numbers, MavlinkSet(p, v)
        PROVE  q = LockLevel /\ (value'[q] > value[q] \/ value'[q] < 0)
    <3>1. CASE Raises(p, v)
      <4>1. p = LockLevel /\ v \in Nat
        BY <3>1, TableAssumption DEF Raises
      <4>2. Table[p].name # "TO_DEFAULTS"
        BY <4>1, TableAssumption DEF LockLevel
      <4>3. value' = After(p, v)
        BY <2>1, <3>1, <4>2 DEF MavlinkSet, Resets
      <4>4. \A r : ~Clears(p, r)
        BY <4>1, FirstIsParam DEF IsNumber, NumberTypes, Clears
      <4>5. value'[q] = IF q = p THEN Stored(p, v) ELSE value[q]
        BY <4>3, <4>4 DEF After
      <4>6. Stored(p, v) > value[p] \/ Stored(p, v) < 0
        BY <3>1, <4>1, RaisedLevel
      <4> QED BY <4>1, <4>5, <4>6
    <3>2. CASE ~Raises(p, v)
      BY <2>1, <3>2 DEF MavlinkSet
    <3> QED BY <3>1, <3>2
  <2>2. ASSUME NEW p \in Params, NEW v, GetSet(p, v)
        PROVE  FALSE
    BY <2>2 DEF GetSet
  <2>3. CASE RequestList \/ Stream \/ Wait \/ GetByIndex
    BY <2>3 DEF RequestList, Stream, Wait, GetByIndex
  <2>4. CASE \E i \in 0..Len(Table) : ReadByIndex(i)
    BY <2>4 DEF ReadByIndex, Read
  <2> QED BY <2>1, <2>2, <2>3, <2>4 DEF Next
<1>2. TypeOK /\ [Next]_vars => [Held]_vars
  BY <1>1
<1> QED BY <1>2, AccessTypeCorrect, PTL DEF Spec, LockHolds

-----------------------------------------------------------------------------
(* The enumeration. *)

\* A DroneCAN tool that stops at the first empty answer has been given every
\* entry that is not hidden, although neither the terminator nor the entry before
\* it has an index (parameters.cpp:129-135, DroneCAN.cpp:671-829).
THEOREM Enumerated == Spec => []EnumerationComplete
<1>1. Init => EnumerationComplete
  BY DEF Init, EnumerationComplete
<1>2. TypeOK /\ EnumerationComplete /\ [Next]_vars => EnumerationComplete'
  <2> SUFFICES ASSUME TypeOK, EnumerationComplete, [Next]_vars
               PROVE  EnumerationComplete'
    OBVIOUS
  <2>1. CASE GetByIndex
    <3>1. CASE \E p \in find_by_index(index) : ~Table[p].hidden
      BY <2>1, <3>1 DEF GetByIndex, EnumerationComplete
    <3>2. CASE ~\E p \in find_by_index(index) : ~Table[p].hidden
      <4>1. index' = index /\ index \in Nat
        BY <2>1, <3>2, TableLength DEF GetByIndex, TypeOK
      <4>2. SUFFICES ASSUME NEW q \in Params, ~Table[q].hidden, ~(q <= index)
                     PROVE  FALSE
        BY <4>1 DEF EnumerationComplete
      <4>3. q # Len(Table) - 1 /\ q \in Nat /\ q <= Len(Table) - 1
        BY <4>2, HiddenAssumption, TableLength DEF Params
      <4>4. index < Len(Table) - 2 /\ index + 1 \in Params
        BY <4>1, <4>2, <4>3, TableLength DEF Params
      <4>5. Table[index + 1].hidden
        BY <3>2, <4>4 DEF find_by_index
      <4>6. index + 1 < q \/ index + 1 = q
        BY <4>1, <4>2, <4>3
      <4> QED BY <4>2, <4>4, <4>5, <4>6, HiddenAssumption
    <3> QED BY <3>1, <3>2
  <2>2. CASE UNCHANGED tool
    BY <2>2 DEF tool, EnumerationComplete
  <2>3. ASSUME NEW p, NEW v, MavlinkSet(p, v) \/ GetSet(p, v)
        PROVE  UNCHANGED tool
    BY <2>3 DEF MavlinkSet, GetSet, Reset
  <2>4. CASE RequestList \/ Stream \/ Wait \/ UNCHANGED vars
    BY <2>2, <2>4 DEF RequestList, Stream, Wait, vars
  <2>5. CASE \E i \in 0..Len(Table) : ReadByIndex(i)
    BY <2>2, <2>5 DEF ReadByIndex, Read
  <2> QED BY <2>1, <2>2, <2>3, <2>4, <2>5 DEF Next
<1> QED BY <1>1, <1>2, AccessTypeCorrect, PTL DEF Spec

-----------------------------------------------------------------------------
(* The list. *)

\* One more index, the next one, is told;
LEMMA TellNext ==
  ASSUME NEW s \in Seq(Int), NEW n \in Nat, Told(s, n)
  PROVE  Told(Append(s, n), n + 1)
<1> DEFINE t == Append(s, n)
<1>1. /\ Len(s) \in Nat /\ Len(t) = Len(s) + 1 /\ t[Len(s) + 1] = n
      /\ \A i \in 1..Len(s) : t[i] = s[i] /\ s[i] \in Int
  <2>1. Len(s) \in Nat /\ \A i \in 1..Len(s) : s[i] \in Int
    OBVIOUS
  <2>2. n \in Int
    OBVIOUS
  <2>3. /\ Len(t) = Len(s) + 1 /\ t[Len(s) + 1] = n
        /\ \A i \in 1..Len(s) : t[i] = s[i]
    BY <2>2, AppendProperties
  <2> QED BY <2>1, <2>3
<1> HIDE DEF t
<1>2. ASSUME NEW i \in 1..Len(t), NEW j \in 1..Len(t), i < j, t[j] >= 0
      PROVE  t[i] < t[j]
  <2>1. i \in 1..Len(s) /\ t[i] = s[i] /\ s[i] < n
    BY <1>1, <1>2 DEF Told
  <2>2. CASE j = Len(s) + 1
    BY <1>1, <2>1, <2>2
  <2>3. CASE j \in 1..Len(s)
    BY <1>1, <1>2, <2>1, <2>3 DEF Told
  <2> QED BY <1>1, <2>2, <2>3
<1>3. ASSUME NEW k \in 0..(n + 1) - 1
      PROVE  \E j \in 1..Len(t) : t[j] = k
  <2>1. CASE k = n
    BY <1>1, <2>1
  <2>2. CASE k # n
    <3>1. k \in 0..n - 1
      BY <2>2
    <3>2. PICK j \in 1..Len(s) : s[j] = k
      BY <3>1 DEF Told
    <3> QED BY <1>1, <3>2
  <2> QED BY <2>1, <2>2
<1>4. ASSUME NEW j \in 1..Len(t)
      PROVE  t[j] < n + 1
  <2>1. CASE j = Len(s) + 1
    BY <1>1, <2>1
  <2>2. CASE j \in 1..Len(s)
    <3>1. s[j] < n
      BY <2>2 DEF Told
    <3> QED BY <1>1, <2>2, <3>1
  <2> QED BY <1>1, <2>1, <2>2
<1>5. Told(t, n + 1)
  BY <1>2, <1>3, <1>4 DEF Told
<1> QED BY <1>5 DEF t

\* or a hidden number is sent, without an index.
LEMMA TellHidden ==
  ASSUME NEW s \in Seq(Int), NEW n \in Nat, Told(s, n)
  PROVE  Told(Append(s, -1), n)
<1> DEFINE t == Append(s, -1)
<1>1. /\ Len(s) \in Nat /\ Len(t) = Len(s) + 1 /\ t[Len(s) + 1] = -1
      /\ \A i \in 1..Len(s) : t[i] = s[i] /\ s[i] \in Int
  <2>1. Len(s) \in Nat /\ \A i \in 1..Len(s) : s[i] \in Int
    OBVIOUS
  <2>2. -1 \in Int
    OBVIOUS
  <2>3. /\ Len(t) = Len(s) + 1 /\ t[Len(s) + 1] = -1
        /\ \A i \in 1..Len(s) : t[i] = s[i]
    BY <2>2, AppendProperties
  <2> QED BY <2>1, <2>3
<1> HIDE DEF t
<1>2. ASSUME NEW i \in 1..Len(t), NEW j \in 1..Len(t), i < j, t[j] >= 0
      PROVE  t[i] < t[j]
  <2>1. i \in 1..Len(s)
    BY <1>1, <1>2
  <2>2. CASE j = Len(s) + 1
    <3>1. t[j] = -1
      BY <1>1, <2>2, Zenon
    <3>2. FALSE
      BY <1>2, <3>1
    <3> QED BY <3>2
  <2>3. CASE j \in 1..Len(s)
    BY <1>1, <1>2, <2>1, <2>3 DEF Told
  <2> QED BY <1>1, <2>2, <2>3
<1>3. ASSUME NEW k \in 0..n - 1
      PROVE  \E j \in 1..Len(t) : t[j] = k
  <2>1. PICK j \in 1..Len(s) : s[j] = k
    BY DEF Told
  <2> QED BY <1>1, <2>1
<1>4. ASSUME NEW j \in 1..Len(t)
      PROVE  t[j] < n
  <2>1. CASE j = Len(s) + 1
    BY <1>1, <2>1
  <2>2. CASE j \in 1..Len(s)
    <3>1. s[j] < n
      BY <2>2 DEF Told
    <3> QED BY <1>1, <2>2, <3>1
  <2> QED BY <1>1, <2>1, <2>2
<1>5. Told(t, n)
  BY <1>2, <1>3, <1>4 DEF Told
<1> QED BY <1>5 DEF t

LEMMA TellNone == Told(<<>>, 0)
BY DEF Told

\* How many visible numbers lie before an entry.
LEMMA PrecedingNat ==
  ASSUME NEW p
  PROVE  /\ Preceding(p) \in Nat
         /\ IsFiniteSet({q \in VisibleNumbers : q < p})
<1>1. VisibleNumbers \subseteq Params /\ IsFiniteSet(Params)
  BY TableLength, FS_Interval DEF VisibleNumbers, Params
<1>2. IsFiniteSet({q \in VisibleNumbers : q < p})
  BY <1>1, FS_Subset
<1> QED BY <1>2, FS_CardinalityType DEF Preceding

LEMMA PrecedingNext ==
  ASSUME NEW p \in Params
  PROVE  Preceding(p + 1) = IF p \in VisibleNumbers THEN Preceding(p) + 1 ELSE Preceding(p)
<1> DEFINE before == {q \in VisibleNumbers : q < p}
           upto == {q \in VisibleNumbers : q < p + 1}
<1>1. VisibleNumbers \subseteq Nat /\ p \in Nat
  BY TableLength DEF VisibleNumbers, Params
<1>2. IsFiniteSet(before) /\ p \notin before
  BY <1>1, PrecedingNat
<1>3. CASE p \in VisibleNumbers
  <2>1. upto = before \cup {p}
    <3>1. \A q \in VisibleNumbers : q < p + 1 <=> q < p \/ q = p
      BY <1>1
    <3> QED BY <1>3, <3>1
  <2>2. Cardinality(before \cup {p}) = Cardinality(before) + 1
    BY <1>2, FS_AddElement
  <2> QED BY <1>3, <2>1, <2>2 DEF Preceding
<1>4. CASE p \notin VisibleNumbers
  <2>1. upto = before
    <3>1. \A q \in VisibleNumbers : q < p + 1 <=> q < p
      BY <1>1, <1>4
    <3> QED BY <3>1
  <2> QED BY <1>4, <2>1 DEF Preceding
<1> QED BY <1>3, <1>4

LEMMA PrecedingEnd == Preceding(Len(Table)) = Cardinality(VisibleNumbers)
<1>1. {q \in VisibleNumbers : q < Len(Table)} = VisibleNumbers
  BY TableLength DEF VisibleNumbers, Params
<1> QED BY <1>1 DEF Preceding

\* The indices sent so far.
ToldSoFar == param_next # 0 => Told(listed, Preceding(param_next))

\* One step through the table tells its entry, if that has something to tell.
LEMMA StreamTells ==
  ASSUME TypeOK, UnderWay, ToldSoFar, Stream
  PROVE  ToldSoFar' /\ ListComplete'
<1> DEFINE p == param_next
<1>1. p \in Params /\ p # 0 /\ listed \in Seq(Int) /\ Preceding(p) \in Nat
  <2>1. p \in Params /\ listed \in Seq(Int)
    BY StreamType DEF TypeOK
  <2>2. p # 0
    BY <2>1, TableLength DEF Params
  <2> QED BY <2>1, <2>2, PrecedingNat
<1>2. Told(listed, Preceding(p))
  BY <1>1 DEF ToldSoFar
<1>3. Told(listed', Preceding(p + 1))
  <2>1. CASE p \in VisibleNumbers
    <3>1. listed' = Append(listed, Preceding(p))
      BY <2>1 DEF Stream, VisibleNumbers, param_index_float
    <3> QED BY <1>1, <1>2, <2>1, <3>1, TellNext, PrecedingNext
  <2>2. CASE IsNumber(p) /\ p \notin VisibleNumbers
    <3>1. listed' = Append(listed, -1)
      BY <2>2 DEF Stream, param_index_float
    <3> QED BY <1>1, <1>2, <2>2, <3>1, TellHidden, PrecedingNext
  <2>3. CASE ~IsNumber(p)
    <3>1. listed' = listed /\ p \notin VisibleNumbers
      BY <2>3 DEF Stream, VisibleNumbers
    <3> QED BY <1>1, <1>2, <3>1, PrecedingNext
  <2> QED BY <2>1, <2>2, <2>3 DEF VisibleNumbers
<1>4. CASE p + 1 = Len(Table)
  <2>1. param_next' = 0
    BY <1>1, <1>4, FollowingType DEF Stream
  <2> QED BY <1>3, <1>4, <2>1, PrecedingEnd DEF ToldSoFar, ListComplete
<1>5. CASE p + 1 # Len(Table)
  <2>1. param_next' = p + 1 /\ p + 1 # 0
    BY <1>1, <1>5, FollowingType DEF Stream
  <2> QED BY <1>3, <2>1 DEF ToldSoFar, ListComplete
<1> QED BY <1>4, <1>5

\* A MAVLink list that is over has told every visible number once, with its own
\* index and in order, for every table and however often it was begun anew
\* (mavlink.cpp:62-77, parameters.cpp:91-111).
THEOREM Listed == Spec => []ListComplete
<1>1. Init => ToldSoFar /\ ListComplete
  BY DEF Init, ToldSoFar, ListComplete
<1>2. TypeOK /\ UnderWay /\ ToldSoFar /\ ListComplete /\ [Next]_vars
        => ToldSoFar' /\ ListComplete'
  <2> SUFFICES ASSUME TypeOK, UnderWay, ToldSoFar, ListComplete, [Next]_vars
               PROVE  ToldSoFar' /\ ListComplete'
    OBVIOUS
  <2>1. CASE RequestList
    <3>1. /\ listed' = <<>> /\ param_next' \in Params /\ param_next' # 0
          /\ Preceding(param_next') = 0
      BY <2>1 DEF RequestList, find_by_index_float, VisibleNumbers, Params
    <3> QED BY <3>1, TellNone DEF ToldSoFar, ListComplete
  <2>2. CASE Stream
    BY <2>2, StreamTells
  <2>3. CASE Reset
    BY <2>3 DEF Reset, ToldSoFar, ListComplete
  <2>4. CASE UNCHANGED <<param_next, listed>>
    BY <2>4 DEF ToldSoFar, ListComplete
  <2>5. ASSUME NEW p, NEW v, MavlinkSet(p, v) \/ GetSet(p, v)
        PROVE  Reset \/ UNCHANGED <<param_next, listed>>
    BY <2>5 DEF MavlinkSet, GetSet, list
  <2>6. CASE Wait \/ GetByIndex \/ UNCHANGED vars
    BY <2>4, <2>6 DEF Wait, GetByIndex, list, vars
  <2>7. CASE \E i \in 0..Len(Table) : ReadByIndex(i)
    BY <2>4, <2>7 DEF ReadByIndex, Read, list
  <2> QED BY <2>1, <2>2, <2>3, <2>4, <2>5, <2>6, <2>7 DEF Next
<1> QED BY <1>1, <1>2, InitType, NextType, PTL DEF Spec

-----------------------------------------------------------------------------
(* CanNode: the node ID. *)

\* What is received are requests and confirmations, and the confirmation of this
\* node's unique ID brings its node ID.
NodeInv == NodeTypeOK /\ OwnIdOnly /\ inbox \in Seq(Strays)

\* Every message of the bus has the type of one.
LEMMA StraysAreMessages == Strays \subseteq Message
BY CanAssumption DEF Strays, Message, Confirmation

\* The allocator answers with a confirmation of this node's unique ID.
LEMMA AllocatorKeeps ==
  ASSUME NodeInv, NEW part \in Requests, Allocator(part)
  PROVE  inbox' \in Seq(Strays) /\ collected' \in 0..Parts
<1>1. CASE part = 0 \/ part = collected
  <2>1. part + 1 \in 1..Parts
    BY CanAssumption DEF Requests
  <2>2. Confirmation("own", part + 1) \in Strays
    BY <2>1 DEF Strays
  <2>3. Deliver(Confirmation("own", part + 1)) /\ collected' \in 0..Parts
    BY <1>1, <2>1, CanAssumption DEF Allocator
  <2> QED
    BY <2>2, <2>3 DEF Deliver, NodeInv
<1>2. CASE ~(part = 0 \/ part = collected)
  BY <1>2 DEF Allocator, bus, NodeInv, NodeTypeOK
<1> QED
  BY <1>1, <1>2

\* A message leaves the node ID alone or makes it its own.
LEMMA ResponseKeeps ==
  ASSUME NodeInv, NEW m \in Strays, handle_allocation_response(m)
  PROVE  node_id' \in {0, OwnId} /\ offset' \in Requests
<1> USE DEF NodeInv, NodeTypeOK, OwnIdOnly, Requests
<1>1. CASE m.source = "anonymous"
  BY <1>1, CanAssumption DEF handle_allocation_response
<1>2. CASE m.source # "anonymous"
  <2>1. PICK uid \in {"own", "other"}, parts \in 1..Parts : m = Confirmation(uid, parts)
    BY <1>2 DEF Strays
  <2>2. /\ m.uid = "own" => m.node_id = OwnId
        /\ m.parts \in 1..Parts
    BY <2>1 DEF Confirmation
  <2>3. CASE Matches(m) /\ m.parts < Parts
    BY <1>2, <2>2, <2>3, CanAssumption DEF handle_allocation_response
  <2>4. CASE Matches(m) /\ ~(m.parts < Parts)
    BY <1>2, <2>2, <2>4 DEF handle_allocation_response, Matches
  <2>5. CASE ~Matches(m)
    BY <1>2, <2>5, CanAssumption DEF handle_allocation_response
  <2> QED
    BY <2>3, <2>4, <2>5
<1> QED
  BY <1>1, <1>2

\* A frame queued is a frame, and the queue keeps to its capacity.
LEMMA EnqueueKeeps ==
  ASSUME NodeTypeOK, NEW f \in Frame, Enqueue(f)
  PROVE  txq' \in Seq(Frame) /\ Len(txq') <= QueueCap
BY CanAssumption DEF Enqueue, NodeTypeOK

\* So does the queue whose head has been sent or dropped.
LEMMA TailKeeps ==
  ASSUME NodeTypeOK, txq # <<>>
  PROVE  Tail(txq) \in Seq(Frame) /\ Len(Tail(txq)) <= QueueCap /\ Head(txq) \in Frame
BY CanAssumption DEF NodeTypeOK

\* NodeInv holds initially and every step keeps it.
THEOREM NodeInvariance == NodeSpec => []NodeInv
<1>1. NodeInit => NodeInv
  <2> SUFFICES ASSUME NodeInit PROVE NodeInv
    OBVIOUS
  <2>1. txq \in Seq(Frame) /\ inbox \in Seq(Message) /\ inbox \in Seq(Strays) /\ Len(txq) <= QueueCap
    <3>1. txq = <<>> /\ inbox = <<>>
      BY DEF NodeInit
    <3> QED
      BY <3>1, CanAssumption
  <2>2. node_id \in {0, OwnId} /\ can_node \in Configured
    BY CanAssumption DEF NodeInit
  <2>3. /\ offset \in Requests /\ tx_fail_count \in 0..FailLimit /\ collected \in 0..Parts
        /\ taken \in 0..RxLimit
    BY CanAssumption DEF NodeInit, Requests
  <2> QED
    BY <2>1, <2>2, <2>3 DEF NodeInit, NodeInv, NodeTypeOK, OwnIdOnly
<1>2. ASSUME NodeInv, [NodeNext]_nodeVars
      PROVE  NodeInv'
  <2> USE <1>2
  <2> SUFFICES NodeTypeOK' /\ node_id' \in {0, OwnId} /\ inbox' \in Seq(Strays)
    BY DEF NodeInv, OwnIdOnly
  <2> USE DEF NodeInv, OwnIdOnly
  <2>0. inbox' \in Seq(Strays) => inbox' \in Seq(Message)
    BY StraysAreMessages
  <2>1. ASSUME NEW due \in BOOLEAN, SendStatus(due)
        PROVE  NodeTypeOK' /\ node_id' \in {0, OwnId} /\ inbox' \in Seq(Strays)
    <3>1. txq' \in Seq(Frame) /\ Len(txq') <= QueueCap
      BY <2>1, EnqueueKeeps DEF SendStatus, Frame, NodeTypeOK
    <3> QED
      BY <2>1, <3>1 DEF SendStatus, NodeTypeOK, node, bus
  <2>2. ASSUME NEW due \in BOOLEAN, do_DNA(due)
        PROVE  NodeTypeOK' /\ node_id' \in {0, OwnId} /\ inbox' \in Seq(Strays)
    <3>1. [type |-> "REQUEST", part |-> offset] \in Frame
      BY DEF Frame, NodeTypeOK
    <3>2. txq' \in Seq(Frame) /\ Len(txq') <= QueueCap
      BY <2>2, <3>1, EnqueueKeeps DEF do_DNA, NodeTypeOK
    <3>3. offset' \in Requests
      BY <2>2, CanAssumption DEF do_DNA, OffsetAfterRequest, Requests, NodeTypeOK
    <3> QED
      BY <2>2, <3>2, <3>3 DEF do_DNA, NodeTypeOK, bus
  <2>3. CASE SendOk
    <3>1. txq' \in Seq(Frame) /\ Len(txq') <= QueueCap /\ Head(txq) \in Frame
      BY <2>3, TailKeeps DEF SendOk
    <3>2. inbox' \in Seq(Strays) /\ collected' \in 0..Parts
      <4>1. CASE UNCHANGED bus
        BY <4>1 DEF bus, NodeTypeOK
      <4>2. CASE Head(txq).type = "REQUEST" /\ Allocator(Head(txq).part)
        <5>1. Head(txq).part \in Requests
          BY <3>1, <4>2 DEF Frame
        <5> QED
          BY <4>2, <5>1, AllocatorKeeps
      <4> QED
        BY <2>3, <4>1, <4>2 DEF SendOk
    <3> QED
      BY <2>0, <2>3, <3>1, <3>2, CanAssumption DEF SendOk, NodeTypeOK, node
  <2>4. ASSUME NEW due \in BOOLEAN, SendFails(due)
        PROVE  NodeTypeOK' /\ node_id' \in {0, OwnId} /\ inbox' \in Seq(Strays)
    <3>1. /\ txq' \in Seq(Frame) /\ Len(txq') <= QueueCap
          /\ tx_fail_count' \in 0..FailLimit
      <4>1. CASE tx_fail_count < FailLimit
        BY <2>4, <4>1, CanAssumption DEF SendFails, TxAfterFailure, NodeTypeOK
      <4>2. CASE ~(tx_fail_count < FailLimit)
        BY <2>4, <4>2, TailKeeps DEF SendFails, TxAfterFailure, NodeTypeOK
      <4> QED
        BY <4>1, <4>2
    <3>2. twai' \in {"RUNNING", "STOPPED", "BUS_OFF", "RECOVERING"}
      BY <2>4 DEF SendFails, Recover, NodeTypeOK
    <3> QED
      BY <2>4, <3>1, <3>2 DEF SendFails, NodeTypeOK, node, bus
  <2>5. CASE TxDone
    BY <2>5 DEF TxDone, NodeTypeOK, node, bus
  <2>6. CASE Receive
    <3>1. Head(inbox) \in Strays /\ inbox' \in Seq(Strays)
      BY <2>6 DEF Receive
    <3>2. node_id' \in {0, OwnId} /\ offset' \in Requests
      BY <2>6, <3>1, ResponseKeeps DEF Receive, NodeTypeOK, node
    <3> QED
      BY <2>0, <2>6, <3>1, <3>2, CanAssumption DEF Receive, NodeTypeOK
  <2>7. CASE RxDone
    BY <2>7, CanAssumption DEF RxDone, NodeTypeOK, node, bus
  <2>8. ASSUME NEW m \in Strays, Stray(m)
        PROVE  NodeTypeOK' /\ node_id' \in {0, OwnId} /\ inbox' \in Seq(Strays)
    <3>1. inbox' \in Seq(Strays)
      BY <2>8 DEF Stray
    <3>2. collected' \in 0..Parts
      BY <2>8, CanAssumption DEF Stray, NodeTypeOK
    <3> QED
      BY <2>0, <2>8, <3>1, <3>2 DEF Stray, NodeTypeOK, node
  <2>9. CASE BusOff \/ Recovered \/ CalmDown
    BY <2>9 DEF BusOff, Recovered, CalmDown, NodeTypeOK, node, bus
  <2>10. CASE Restart
    BY <2>10, CanAssumption DEF Restart, NodeTypeOK, Requests
  <2>11. CASE UNCHANGED nodeVars
    BY <2>11 DEF nodeVars, NodeTypeOK, node, bus
  <2> QED
    BY <2>1, <2>2, <2>3, <2>4, <2>5, <2>6, <2>7, <2>8, <2>9, <2>10, <2>11 DEF NodeNext, Update
<1> QED
  BY <1>1, <1>2, PTL DEF NodeSpec

\* The node takes no ID but the one allocated for its own unique ID.
THEOREM TakesOwnId == NodeSpec => []OwnIdOnly
BY NodeInvariance, PTL DEF NodeInv
=============================================================================
