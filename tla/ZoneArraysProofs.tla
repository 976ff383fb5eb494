--------------------------- MODULE ZoneArraysProofs ---------------------------
(***************************************************************************)
(* Proofs about ZoneArrays, for files of any length and content, any       *)
(* initial size that leaves room to close a polygon, and any maximum.      *)
(***************************************************************************)
EXTENDS ZoneArrays, TLAPS

\* What the proofs need of the arrays and of what a polygon's end stores.
ArraysInv ==
  /\ size \in [Files -> Nat] /\ counter \in [Files -> Nat]
  /\ \A file \in Files : size[file] >= InitialSize
  /\ InBounds

\* The length of what the end of a polygon stores.
LEMMA ClosingLength ==
  /\ ~isFirstFoundCoord => Len(Closing) = 0
  /\ isFirstFoundCoord => Len(Closing) \in {1, EXTRA_COORDINATES_CLOSE_POLYGON + 1}
<1>1. Len([i \in 1..4 |-> Mine] \o <<0>>) = 5
  <2>1. [i \in 1..4 |-> Mine] \in Seq({Mine}) /\ <<0>> \in Seq({0})
    OBVIOUS
  <2> QED
    BY <2>1
<1> QED
  BY <1>1 DEF Closing, EXTRA_COORDINATES_CLOSE_POLYGON

\* Doubling keeps every array at its counter or above.
LEMMA DoublingKeeps ==
  ASSUME ArraysInv, NEW file \in Files, size' = Doubled(file), UNCHANGED counter
  PROVE  ArraysInv'
BY ZoneAssumption DEF ArraysInv, InBounds, Doubled

\* So does storing n entries where room was made for them.
LEMMA StoringKeeps ==
  ASSUME ArraysInv, NEW file \in Files, NEW n \in 0..(EXTRA_COORDINATES_CLOSE_POLYGON + 1),
         size' = IF n > 0 /\ counter[file] + n - 1 >= size[file] THEN Doubled(file) ELSE size,
         counter' = [counter EXCEPT ![file] = @ + n]
  PROVE  ArraysInv'
<1> USE ZoneAssumption DEF ArraysInv, InBounds, Doubled, EXTRA_COORDINATES_CLOSE_POLYGON
<1>1. CASE n > 0 /\ counter[file] + n - 1 >= size[file]
  BY <1>1
<1>2. CASE ~(n > 0 /\ counter[file] + n - 1 >= size[file])
  BY <1>2
<1> QED
  BY <1>1, <1>2

\* Nothing is stored past the end of an array.
THEOREM NeverPastTheEnd == Spec => []InBounds
<1>1. Init => ArraysInv
  BY ZoneAssumption DEF Init, ArraysInv, InBounds
<1>2. ASSUME ArraysInv, [Next]_vars
      PROVE  ArraysInv'
  <2> USE <1>2
  <2>1. ASSUME NEW file \in Files, Lose(file)
        PROVE  ArraysInv'
    BY <2>1, DoublingKeeps DEF Lose
  <2>2. ASSUME UNCHANGED <<size, counter>>
        PROVE  ArraysInv'
    BY <2>2 DEF ArraysInv, InBounds
  <2>3. ASSUME NEW file \in Files, NearZone(file)
        PROVE  ArraysInv'
    <3>1. CASE Accepts(file)
      <4>1. /\ size' = IF counter[file] >= size[file] THEN Doubled(file) ELSE size
            /\ counter' = [counter EXCEPT ![file] = @ + 1]
        BY <2>3, <3>1 DEF NearZone, MakeRoom
      <4> QED
        BY <4>1, ZoneAssumption DEF ArraysInv, InBounds, Doubled, EXTRA_COORDINATES_CLOSE_POLYGON
    <3>2. CASE ~Accepts(file)
      BY <2>2, <2>3, <3>2 DEF NearZone
    <3> QED
      BY <3>1, <3>2
  <2>4. ASSUME NEW c \in Coordinates, NearEdge(c)
        PROVE  ArraysInv'
    <3>1. PICK n \in {1, 2} : counter' = [counter EXCEPT !["COUNTRY"] = @ + n]
      BY <2>4 DEF NearEdge, Store
    <3>2. size' = IF counter["COUNTRY"] + 1 >= size["COUNTRY"] THEN Doubled("COUNTRY") ELSE size
      BY <2>4 DEF NearEdge, MakeRoom, EdgeNeedsRoom
    <3> QED
      BY <3>1, <3>2, ZoneAssumption
         DEF ArraysInv, InBounds, Doubled, Files, EXTRA_COORDINATES_CLOSE_POLYGON
  <2>5. CASE Header
    <3> DEFINE n == Len(Closing)
    <3>1. counter' = [counter EXCEPT !["COUNTRY"] = @ + n]
      BY <2>5 DEF Header, Store
    <3>2. n \in 0..(EXTRA_COORDINATES_CLOSE_POLYGON + 1) /\ (isFirstFoundCoord <=> n > 0)
      BY ClosingLength DEF EXTRA_COORDINATES_CLOSE_POLYGON
    <3>3. size' = IF n > 0 /\ counter["COUNTRY"] + n - 1 >= size["COUNTRY"]
                    THEN Doubled("COUNTRY") ELSE size
      BY <2>5, <3>2 DEF Header, MakeRoom, ClosingNeedsRoom
    <3> QED
      BY <3>1, <3>2, <3>3, StoringKeeps DEF Files
  <2> QED
    BY <2>1, <2>2, <2>3, <2>4, <2>5, ZoneAssumption
       DEF Next, NearZoneLost, FirstCoord, SkipEdge, EdgeLost, HeaderLost, EndOfFile, Finish,
           arrays, vars, Files
<1>3. ArraysInv => InBounds
  BY DEF ArraysInv
<1> QED
  BY <1>1, <1>2, <1>3, PTL DEF Spec

\* Reading that lost an array never counts as done.
THEOREM LossReported == Spec => []LossIsReported
<1> DEFINE LossInv == (lost # {} => ~passed) /\ (pc = "files_read" => passed)
<1>1. Init => LossInv
  BY DEF Init
<1>2. ASSUME LossInv, [Next]_vars
      PROVE  LossInv'
  <2> USE <1>2
  <2>1. ASSUME NEW file \in Files, Lose(file)
        PROVE  LossInv'
    BY <2>1 DEF Lose, Following
  <2>2. ASSUME UNCHANGED <<pc, passed, lost>>
        PROVE  LossInv'
    BY <2>2
  <2>3. ASSUME NEW opened \in BOOLEAN, EndOfFile(opened)
        PROVE  LossInv'
    BY <2>3 DEF EndOfFile, AllPassed, Following
  <2>4. CASE Finish
    BY <2>4 DEF Finish
  <2> QED
    BY <2>1, <2>2, <2>3, <2>4, ZoneAssumption
       DEF Next, NearZone, NearZoneLost, Line, FirstCoord, SkipEdge, NearEdge, EdgeLost,
           Header, HeaderLost, vars, Files
<1>3. LossInv => LossIsReported
  BY DEF LossIsReported
<1> QED
  BY <1>1, <1>2, <1>3, PTL DEF Spec

\* While a polygon is read, the array ends in it or in a separator; between
\* polygons, in a separator.
Ends == IF isFirstFoundCoord THEN {0, Mine} ELSE {0}
SeparatedInv ==
  /\ polygon_count \in Nat
  /\ country_coords \in Seq(Nat)
  /\ Separated
  /\ Len(country_coords) > 0 => country_coords[Len(country_coords)] \in Ends

\* Entries of one polygon, the last of them perhaps a separator, keep the array
\* separated when it ends in that polygon or in a separator.
LEMMA AppendKeepsSeparated ==
  ASSUME NEW s \in Seq(Nat), NEW t \in Seq(Nat), NEW n \in Nat,
         \A i \in 1..(Len(s) - 1) : s[i] = s[i + 1] \/ 0 \in {s[i], s[i + 1]},
         Len(s) > 0 => s[Len(s)] \in {0, n},
         \A i \in 1..(Len(t) - 1) : t[i] = n,
         Len(t) > 0 => t[Len(t)] \in {0, n}
  PROVE  \A i \in 1..(Len(s \o t) - 1) :
           (s \o t)[i] = (s \o t)[i + 1] \/ 0 \in {(s \o t)[i], (s \o t)[i + 1]}
<1> DEFINE u == s \o t
<1>1. /\ Len(s) \in Nat /\ Len(t) \in Nat /\ Len(u) = Len(s) + Len(t)
      /\ \A i \in 1..Len(s) : u[i] = s[i]
      /\ \A i \in 1..Len(t) : u[Len(s) + i] = t[i]
  OBVIOUS
<1> HIDE DEF u
<1>2. ASSUME NEW i \in 1..(Len(u) - 1)
      PROVE  u[i] = u[i + 1] \/ 0 \in {u[i], u[i + 1]}
  <2>1. CASE i < Len(s)
    <3>1. i \in 1..(Len(s) - 1) /\ i \in 1..Len(s) /\ i + 1 \in 1..Len(s)
      BY <1>1, <1>2, <2>1
    <3>2. u[i] = s[i] /\ u[i + 1] = s[i + 1]
      BY <1>1, <3>1
    <3> QED
      BY <3>1, <3>2
  <2>2. CASE i >= Len(s)
    <3>1. u[i + 1] \in {0, n}
      <4> DEFINE k == i + 1 - Len(s)
      <4>1. k \in 1..Len(t) /\ i + 1 = Len(s) + k
        BY <1>1, <1>2, <2>2
      <4> HIDE DEF k
      <4>2. u[i + 1] = t[k]
        BY <1>1, <4>1
      <4>3. CASE k = Len(t)
        BY <4>1, <4>2, <4>3
      <4>4. CASE k # Len(t)
        <5>1. k \in 1..(Len(t) - 1)
          BY <1>1, <4>1, <4>4
        <5> QED BY <4>2, <5>1
      <4> QED BY <4>3, <4>4
    <3>2. u[i] \in {0, n}
      <4>1. CASE i = Len(s)
        <5>1. Len(s) > 0 /\ Len(s) \in 1..Len(s)
          BY <1>1, <1>2, <4>1
        <5> QED BY <1>1, <4>1, <5>1
      <4>2. CASE i > Len(s)
        <5> DEFINE j == i - Len(s)
        <5>1. i \in Nat /\ i <= Len(s) + Len(t) - 1
          BY <1>1, <1>2
        <5>2. j \in 1..(Len(t) - 1) /\ j \in 1..Len(t)
          BY <1>1, <4>2, <5>1
        <5>3. i = Len(s) + j
          BY <1>1, <5>1
        <5> HIDE DEF j
        <5>4. u[i] = t[j]
          BY <1>1, <5>2, <5>3
        <5> QED
          BY <5>2, <5>4
      <4> QED
        BY <2>2, <4>1, <4>2
    <3> QED
      BY <3>1, <3>2
  <2> QED
    BY <1>1, <1>2, <2>1, <2>2
<1>3. \A i \in 1..(Len(u) - 1) : u[i] = u[i + 1] \/ 0 \in {u[i], u[i + 1]}
  BY <1>2
<1> QED
  BY <1>3 DEF u

\* Coordinates of different polygons are never next to each other.
THEOREM PolygonsSeparated == Spec => []Separated
<1>1. Init => SeparatedInv
  BY DEF Init, SeparatedInv, Separated
<1>2. ASSUME SeparatedInv, [Next]_vars
      PROVE  SeparatedInv'
  <2> USE <1>2
  <2>1. ASSUME UNCHANGED <<country_coords, polygon_count, isFirstFoundCoord>>
        PROVE  SeparatedInv'
    BY <2>1 DEF SeparatedInv, Separated, Ends, Mine
  <2>2. ASSUME NEW c \in Coordinates, NearEdge(c)
        PROVE  SeparatedInv'
    <3>1. PICK t \in {<<Mine>>, <<Mine, Mine>>} : country_coords' = country_coords \o t
      BY <2>2 DEF NearEdge, Store
    <3>2. isFirstFoundCoord' /\ Mine' = Mine /\ polygon_count' = polygon_count
      BY <2>2 DEF NearEdge, Mine
    <3>3. /\ Mine \in Nat /\ t \in Seq(Nat) /\ Len(t) > 0
          /\ \A i \in 1..Len(t) : t[i] = Mine
      <4>1. Mine \in Nat
        BY DEF SeparatedInv, Mine
      <4>2. CASE t = <<Mine>>
        BY <4>1, <4>2
      <4>3. CASE t = <<Mine, Mine>>
        BY <4>1, <4>3
      <4> QED
        BY <3>1, <4>1, <4>2, <4>3
    <3>4. Len(country_coords) > 0 => country_coords[Len(country_coords)] \in {0, Mine}
      BY DEF SeparatedInv, Ends
    <3>5. Separated'
      <4>1. Separated /\ country_coords \in Seq(Nat)
        BY DEF SeparatedInv
      <4>2. \A i \in 1..(Len(t) - 1) : t[i] = Mine
        BY <3>3
      <4>3. Len(t) > 0 => t[Len(t)] \in {0, Mine}
        BY <3>3
      <4> QED
        BY <3>1, <3>3, <3>4, <4>1, <4>2, <4>3, AppendKeepsSeparated DEF Separated
    <3>6. country_coords' \in Seq(Nat) /\ country_coords'[Len(country_coords')] = Mine
      BY <3>1, <3>3 DEF SeparatedInv
    <3> QED
      BY <3>2, <3>5, <3>6 DEF SeparatedInv, Ends
  <2>3. CASE Header
    <3>1. /\ country_coords' = country_coords \o Closing
          /\ polygon_count' = polygon_count + 1 /\ ~isFirstFoundCoord'
      BY <2>3 DEF Header, Store
    <3>2. CASE ~isFirstFoundCoord
      <4>1. country_coords' = country_coords
        BY <3>1, <3>2 DEF Closing, SeparatedInv
      <4> QED
        BY <3>1, <3>2, <4>1 DEF SeparatedInv, Separated, Ends
    <3>3. CASE isFirstFoundCoord
      <4>1. Mine \in Nat
        BY DEF SeparatedInv, Mine
      <4>2. /\ Closing \in Seq(Nat) /\ Len(Closing) > 0
            /\ Closing[Len(Closing)] = 0
            /\ \A i \in 1..(Len(Closing) - 1) : Closing[i] = Mine
        <5> DEFINE four == [i \in 1..4 |-> Mine]
        <5>1. four \in Seq(Nat) /\ Len(four) = 4 /\ <<0>> \in Seq(Nat)
          BY <4>1
        <5>2. Closing = four \o <<0>> \/ Closing = <<0>>
          BY <3>3 DEF Closing, EXTRA_COORDINATES_CLOSE_POLYGON
        <5>3. CASE Closing = four \o <<0>>
          BY <5>1, <5>3
        <5>4. CASE Closing = <<0>>
          BY <5>1, <5>4
        <5> QED
          BY <5>2, <5>3, <5>4
      <4>3. Len(country_coords) > 0 => country_coords[Len(country_coords)] \in {0, Mine}
        BY DEF SeparatedInv, Ends
      <4>4. Separated'
        <5>1. Separated /\ country_coords \in Seq(Nat)
          BY DEF SeparatedInv
        <5>2. Len(Closing) > 0 => Closing[Len(Closing)] \in {0, Mine}
          BY <4>2
        <5>3. PICK t \in Seq(Nat) : t = Closing
          BY <4>2
        <5>4. /\ country_coords' = country_coords \o t
              /\ \A i \in 1..(Len(t) - 1) : t[i] = Mine
              /\ Len(t) > 0 => t[Len(t)] \in {0, Mine}
          BY <3>1, <4>2, <5>2, <5>3
        <5> QED
          BY <4>1, <4>3, <5>1, <5>4, AppendKeepsSeparated DEF Separated
      <4>5. country_coords' \in Seq(Nat) /\ country_coords'[Len(country_coords')] = 0
        BY <3>1, <4>2 DEF SeparatedInv
      <4> QED
        BY <3>1, <4>4, <4>5 DEF SeparatedInv, Ends
    <3> QED
      BY <3>2, <3>3
  <2> QED
    BY <2>1, <2>2, <2>3
       DEF Next, NearZone, NearZoneLost, Lose, FirstCoord, SkipEdge, EdgeLost, HeaderLost,
           EndOfFile, Finish, arrays, reader, vars
<1>3. SeparatedInv => Separated
  BY DEF SeparatedInv
<1> QED
  BY <1>1, <1>2, <1>3, PTL DEF Spec
=============================================================================
