---------------------------- MODULE BordersProofs ----------------------------
(***************************************************************************)
(* Proofs about the scan of Borders, for every file that has the form of   *)
(* its assumptions.                                                        *)
(*                                                                         *)
(* The argument is one of parity.  Each line read decides one edge at most,*)
(* and the reader's state says whether an odd number of the edges decided  *)
(* so far crosses the ray from the vehicle.                                *)
(***************************************************************************)
EXTENDS Borders, FiniteSetTheorems, SequenceTheorems, TLAPS

-----------------------------------------------------------------------------
(* The ray. *)

\* The quick rejects of checkEdge and its case for an edge along a line of
\* latitude change nothing: it tells the edges that the ray goes through.
LEMMA RayIsExact ==
  ASSUME NEW p \in Point, NEW a \in Point, NEW b \in Point
  PROVE  CheckEdge(p, a, b) <=> Crosses(p, a, b)
<1> DEFINE x == p.lat - a.lat
           w == b.lat - a.lat
           h == p.lon - a.lon
           y == b.lon - a.lon
<1>1. /\ p.lat \in Int /\ a.lat \in Int /\ b.lat \in Int
      /\ p.lon \in Int /\ a.lon \in Int /\ b.lon \in Int
  BY DEF Point
<1>2. x \in Int /\ w \in Int /\ h \in Int /\ y \in Int
  BY <1>1
<1>3. Lead(p, a, b) = x * y - h * w
  BY DEF Lead
<1>4. CASE a.lon < p.lon /\ p.lon <= b.lon
  <2>1. h > 0 /\ h <= y
    BY <1>1, <1>4
  <2>2. x * y - h * w <= 0 => x <= 0 \/ x <= w
    <3>1. SUFFICES ASSUME x > 0, x > w  PROVE x * y - h * w > 0
      BY <1>2
    <3>2. x * y >= x * h
      BY <1>2, <2>1, <3>1
    <3>3. h * x > h * w
      BY <1>2, <2>1, <3>1
    <3> QED
      BY <1>2, <3>2, <3>3
  <2>3. w = 0 => (x <= 0 <=> x * y - h * w <= 0)
    BY <1>2, <2>1
  <2> QED
    BY <1>1, <1>2, <1>3, <1>4, <2>2, <2>3 DEF CheckEdge, Crosses, Reaches, Low, High
<1>5. CASE b.lon < p.lon /\ p.lon <= a.lon
  <2>1. y < h /\ h <= 0
    BY <1>1, <1>5
  <2>2. x * y - h * w >= 0 => x <= 0 \/ x <= w
    <3>1. SUFFICES ASSUME x > 0, x > w  PROVE x * y - h * w < 0
      BY <1>2
    <3>2. x * y < x * h
      BY <1>2, <2>1, <3>1
    <3>3. h * x <= h * w
      BY <1>2, <2>1, <3>1
    <3> QED
      BY <1>2, <3>2, <3>3
  <2>3. w = 0 => (x <= 0 <=> x * y - h * w >= 0)
    BY <1>2, <2>1
  <2> QED
    BY <1>1, <1>2, <1>3, <1>5, <2>2, <2>3 DEF CheckEdge, Crosses, Reaches, Low, High
<1>6. CASE ~(a.lon < p.lon /\ p.lon <= b.lon) /\ ~(b.lon < p.lon /\ p.lon <= a.lon)
  BY <1>1, <1>6 DEF CheckEdge, Crosses, Low, High
<1> QED
  BY <1>4, <1>5, <1>6
-----------------------------------------------------------------------------
(* Odd and even. *)

\* One element more changes the parity.
LEMMA OneMore ==
  ASSUME NEW S, NEW x, IsFiniteSet(S), x \notin S
  PROVE  Odd(S \cup {x}) <=> ~Odd(S)
<1>1. Cardinality(S) \in Nat /\ Cardinality(S \cup {x}) = Cardinality(S) + 1
  BY FS_AddElement, FS_CardinalityType
<1> QED
  BY <1>1 DEF Odd

LEMMA EmptyIsEven == ~Odd({})
BY FS_EmptySet DEF Odd

\* Any selection of the first numbers is finite.
LEMMA UpToFinite ==
  ASSUME NEW m \in Int, NEW S, S \subseteq 1..m
  PROVE  IsFiniteSet(S)
<1>1. IsFiniteSet(1..m)
  BY FS_Interval
<1> QED
  BY <1>1, FS_Subset

\* A set of numbers below m, with or without m.
LEMMA Turn ==
  ASSUME NEW m \in Nat, NEW S, NEW T, NEW c \in BOOLEAN,
         S \subseteq 1..(m - 1), T \subseteq 1..m,
         \A i \in 1..(m - 1) : i \in T <=> i \in S,
         m \in T <=> c
  PROVE  Odd(T) <=> ~(Odd(S) <=> c)
<1>1. IsFiniteSet(S) /\ m \notin S
  <2>1. m - 1 \in Int /\ m \notin 1..(m - 1)
    OBVIOUS
  <2> QED
    BY <2>1, UpToFinite
<1> DEFINE below == 1..(m - 1)
<1>4. \A i \in 1..m : i \in below \/ i = m
  OBVIOUS
<1> HIDE DEF below
<1>5. \A i \in below : i \in T <=> i \in S
  BY DEF below
<1>6. S \subseteq below
  BY DEF below
<1>2. CASE c
  <2>1. T = S \cup {m}
    BY <1>2, <1>4, <1>5, <1>6
  <2> QED
    BY <1>1, <1>2, <2>1, OneMore
<1>3. CASE ~c
  <2>1. T = S
    BY <1>3, <1>4, <1>5, <1>6
  <2> QED
    BY <1>3, <2>1
<1> QED
  BY <1>2, <1>3

-----------------------------------------------------------------------------
(* The lines of a file, numbered by country. *)

LEMMA CountryZero == ASSUME NEW L  PROVE Country(L, 0) = 0
<1>1. {j \in 1..0 : L[j].header} = {}
  OBVIOUS
<1> QED
  BY <1>1, FS_EmptySet DEF Country

LEMMA CountryNat ==
  ASSUME NEW L, NEW i \in Int
  PROVE  Country(L, i) \in Nat
BY UpToFinite, FS_CardinalityType DEF Country

\* The number goes up at each header.
LEMMA CountryStep ==
  ASSUME NEW L, NEW i \in Nat
  PROVE  Country(L, i + 1) = IF L[i + 1].header THEN Country(L, i) + 1 ELSE Country(L, i)
<1> DEFINE S == {j \in 1..i : L[j].header}
           T == {j \in 1..(i + 1) : L[j].header}
<1>1. IsFiniteSet(S) /\ i + 1 \notin S
  BY UpToFinite
<1>2. CASE L[i + 1].header
  <2>1. T = S \cup {i + 1}
    BY <1>2
  <2> QED
    BY <1>1, <1>2, <2>1, FS_AddElement DEF Country
<1>3. CASE ~L[i + 1].header
  <2>1. T = S
    BY <1>3
  <2> QED
    BY <1>3, <2>1 DEF Country
<1> QED
  BY <1>2, <1>3

\* It never goes down, and up past a header.
LEMMA CountryGrows ==
  ASSUME NEW L, NEW i \in Nat, NEW j \in Nat, i <= j
  PROVE  /\ Country(L, i) <= Country(L, j)
         /\ i < j /\ L[j].header => Country(L, i) < Country(L, j)
<1>1. ASSUME NEW k \in Nat, i <= k
      PROVE  Country(L, i) <= Country(L, k)
  <2> DEFINE S == {m \in 1..i : L[m].header}
             T == {m \in 1..k : L[m].header}
  <2>1. IsFiniteSet(T) /\ S \in SUBSET T
    BY <1>1, UpToFinite
  <2> QED
    BY <2>1, FS_Subset DEF Country
<1>2. ASSUME i < j, L[j].header
      PROVE  Country(L, i) < Country(L, j)
  <2>1. j - 1 \in Nat /\ i <= j - 1 /\ j = (j - 1) + 1
    BY <1>2
  <2>2. Country(L, j) = Country(L, j - 1) + 1
    BY <1>2, <2>1, CountryStep
  <2>3. Country(L, i) <= Country(L, j - 1)
    BY <1>1, <2>1
  <2> QED
    BY <2>1, <2>2, <2>3, CountryNat
<1> QED
  BY <1>1, <1>2
-----------------------------------------------------------------------------
(* The edges of a polygon. *)

\* Of the edges of the polygon that line i is of, those up to i that the ray from
\* p goes through.
Passed(L, i, p) ==
  {j \in 1..(i - 1) : /\ ~L[j].header /\ ~L[j + 1].header
                      /\ Country(L, j) = Country(L, i)
                      /\ Crosses(p, L[j].at, L[j + 1].at)}

\* A vertex after a vertex adds the edge between them.
LEMMA PassedNext ==
  ASSUME NEW L, NEW p, NEW i \in Nat \ {0}, ~L[i].header, ~L[i + 1].header
  PROVE  Odd(Passed(L, i + 1, p)) <=>
           ~(Odd(Passed(L, i, p)) <=> Crosses(p, L[i].at, L[i + 1].at))
<1> DEFINE S == Passed(L, i, p)
           T == Passed(L, i + 1, p)
           c == Crosses(p, L[i].at, L[i + 1].at)
<1>1. Country(L, i + 1) = Country(L, i)
  BY CountryStep
<1>2. c \in BOOLEAN
  BY DEF Crosses
<1>3. S \subseteq 1..(i - 1) /\ T \subseteq 1..i
  BY DEF Passed
<1>4. \A j \in 1..(i - 1) : j \in T <=> j \in S
  BY <1>1 DEF Passed
<1>5. i \in T <=> c
  BY <1>1 DEF Passed
<1> HIDE DEF S, T, c
<1>6. Odd(T) <=> ~(Odd(S) <=> c)
  BY <1>2, <1>3, <1>4, <1>5, Turn
<1> QED
  BY <1>6 DEF S, T, c

\* The first vertex adds none.
LEMMA PassedFirst ==
  ASSUME NEW L, NEW p, NEW i \in Nat \ {0}, L[i].header, ~L[i + 1].header
  PROVE  Passed(L, i + 1, p) = {}
<1>1. Country(L, i + 1) = Country(L, i)
  BY CountryStep
<1>2. ASSUME NEW j \in 1..i, ~L[j].header
      PROVE  Country(L, j) # Country(L, i + 1)
  <2>1. j < i /\ j \in Nat
    BY <1>2
  <2> QED
    BY <1>1, <2>1, CountryGrows, CountryNat
<1> QED
  BY <1>2 DEF Passed

\* Where a polygon begins is one line.
LEMMA RingStartIs ==
  ASSUME NEW L, NEW i \in Nat, NEW s \in 2..i, Run(L, s, i)
  PROVE  RingStart(L, i) = s
<1>1. ASSUME NEW a \in 2..i, NEW b \in 2..i, Run(L, a, i), Run(L, b, i)
      PROVE  ~(a < b)
  <2>1. SUFFICES ASSUME a < b  PROVE FALSE
    OBVIOUS
  <2>2. b - 1 \in a..i
    BY <2>1
  <2> QED
    BY <1>1, <2>2 DEF Run
<1>2. \A t \in 2..i : Run(L, t, i) => t = s
  BY <1>1
<1> QED
  BY <1>2 DEF RingStart

\* At the header after a polygon, the edge that closes it decides.
LEMMA RingJudged ==
  ASSUME NEW L \in Seq(Line), NEW p, NEW i \in 1..(Len(L) - 1), NEW s \in 2..i,
         Run(L, s, i), L[i + 1].header
  PROVE  Odd(Crossings(L, p, Country(L, i))) <=>
           ~(Odd(Passed(L, i, p)) <=> Crosses(p, L[i].at, L[s].at))
<1> DEFINE S == Passed(L, i, p)
           T == Crossings(L, p, Country(L, i))
           c == Crosses(p, L[i].at, L[s].at)
<1>1. i \in Nat /\ i + 1 \in Nat /\ Len(L) \in Nat /\ ~L[i].header
  BY DEF Run
<1>2. c \in BOOLEAN
  BY DEF Crosses
<1>3. S \subseteq 1..(i - 1)
  BY DEF Passed
<1>4. T \subseteq 1..i
  <2>1. SUFFICES ASSUME NEW j \in 1..Len(L), j > i, Country(L, j) = Country(L, i)
                 PROVE  FALSE
    BY <1>1 DEF Crossings
  <2>2. Country(L, i) < Country(L, i + 1)
    BY <1>1, CountryGrows
  <2>3. Country(L, i + 1) <= Country(L, j)
    BY <1>1, <2>1, CountryGrows
  <2> QED
    BY <1>1, <2>1, <2>2, <2>3, CountryNat
<1>5. ASSUME NEW j \in 1..(i - 1)
      PROVE  j \in T <=> j \in S
  <2>1. /\ j \in Nat /\ j + 1 \in Nat /\ j < i /\ j + 1 <= i /\ j < j + 1
        /\ j \in 1..Len(L) /\ j # Len(L)
    BY <1>1
  <2>2. Country(L, j) = Country(L, i) => ~L[j + 1].header
    <3>1. SUFFICES ASSUME Country(L, j) = Country(L, i), L[j + 1].header
                   PROVE  FALSE
      OBVIOUS
    <3>2. Country(L, j) < Country(L, j + 1)
      BY <2>1, <3>1, CountryGrows
    <3>3. Country(L, j + 1) <= Country(L, i)
      BY <1>1, <2>1, CountryGrows
    <3> QED
      BY <1>1, <2>1, <3>1, <3>2, <3>3, CountryNat
  <2>3. ~L[j + 1].header => EdgeTo(L, j) = L[j + 1].at
    BY <2>1 DEF EdgeTo, RingEnds
  <2>4. j \in T <=> /\ ~L[j].header /\ Country(L, j) = Country(L, i)
                    /\ Crosses(p, L[j].at, EdgeTo(L, j))
    BY <2>1 DEF Crossings
  <2>5. j \in S <=> /\ ~L[j].header /\ ~L[j + 1].header /\ Country(L, j) = Country(L, i)
                    /\ Crosses(p, L[j].at, L[j + 1].at)
    BY DEF Passed
  <2> QED
    BY <2>2, <2>3, <2>4, <2>5
<1>6. i \in T <=> c
  <2>1. EdgeTo(L, i) = L[s].at
    BY <1>1, RingStartIs DEF EdgeTo, RingEnds
  <2> QED
    BY <1>1, <2>1 DEF Crossings
<1> HIDE DEF S, T, c
<1>7. Odd(T) <=> ~(Odd(S) <=> c)
  BY <1>1, <1>2, <1>3, <1>4, <1>5, <1>6, Turn
<1> QED
  BY <1>7 DEF S, T, c

\* Between two headers there is none.
LEMMA NoRing ==
  ASSUME NEW L \in Seq(Line), NEW p, NEW i \in 1..(Len(L) - 1),
         L[i].header, L[i + 1].header
  PROVE  ~Odd(Crossings(L, p, Country(L, i)))
<1>1. i \in Nat /\ i + 1 \in Nat /\ Len(L) \in Nat
  OBVIOUS
<1>2. ASSUME NEW j \in 1..Len(L), ~L[j].header, Country(L, j) = Country(L, i)
      PROVE  FALSE
  <2>1. CASE j < i
    BY <1>1, <1>2, <2>1, CountryGrows, CountryNat
  <2>2. CASE j > i
    <3>1. Country(L, i) < Country(L, i + 1)
      BY <1>1, CountryGrows
    <3>2. Country(L, i + 1) <= Country(L, j)
      BY <1>1, <2>2, CountryGrows
    <3> QED
      BY <1>1, <1>2, <3>1, <3>2, CountryNat
  <2> QED
    BY <1>1, <1>2, <2>1, <2>2
<1>3. Crossings(L, p, Country(L, i)) = {}
  BY <1>2 DEF Crossings
<1> QED
  BY <1>3, EmptyIsEven
-----------------------------------------------------------------------------
(* The two readings. *)

Lines == file.lines
done  == Len(Lines) - Len(rest)

\* What both readings know of the lines done.
ReadInv ==
  /\ file \in Files /\ origin \in Positions
  /\ rest \in Seq(Line) /\ Len(rest) <= Len(Lines)
  /\ \A i \in 1..Len(rest) : rest[i] = Lines[done + i]
  /\ polygon_count = Country(Lines, done)
  /\ isFirstCoord \in BOOLEAN
  /\ isFirstCoord <=> done = 0 \/ Lines[done].header
  /\ pc = "flight" => rest = <<>>

LEMMA FileHas ==
  ASSUME NEW f \in Files
  PROVE  /\ f.lines \in Seq(Line) /\ Len(f.lines) \in Nat \ {0} /\ f.lines[1].header
         /\ \A i \in 1..Len(f.lines) :
              /\ f.lines[i].header \in BOOLEAN /\ f.lines[i].at \in Point
              /\ f.lines[i].header \/ f.lines[i].at # Separator
<1>1. /\ f.lines \in Seq(Line) /\ f.lines # <<>> /\ f.lines[1].header
      /\ \A i \in 1..Len(f.lines) : f.lines[i].header \/ f.lines[i].at # Separator
  BY BordersAssumption
<1>2. Len(f.lines) \in Nat \ {0}
  BY <1>1
<1>3. ASSUME NEW i \in 1..Len(f.lines)
      PROVE  f.lines[i].header \in BOOLEAN /\ f.lines[i].at \in Point
  <2>1. f.lines[i] \in Line
    BY <1>1
  <2> QED
    BY <2>1 DEF Line
<1> QED
  BY <1>1, <1>2, <1>3

\* The line that is read next; a vertex is not the first line.
LEMMA NextLineIs ==
  ASSUME ReadInv, rest # <<>>
  PROVE  /\ done \in Nat /\ done + 1 \in 1..Len(Lines)
         /\ Head(rest) = Lines[done + 1]
         /\ ~Head(rest).header => done \in 1..(Len(Lines) - 1)
         /\ rest' = Tail(rest) /\ file' = file => done' = done + 1 /\ Lines' = Lines
<1>1. Lines \in Seq(Line) /\ Len(Lines) \in Nat \ {0} /\ Lines[1].header
  BY FileHas DEF ReadInv, Lines
<1>2. rest \in Seq(Line) /\ Len(rest) \in Nat \ {0} /\ Len(rest) <= Len(Lines)
  BY DEF ReadInv
<1>3. done \in Nat /\ done + 1 \in 1..Len(Lines) /\ 1 \in 1..Len(rest)
  BY <1>1, <1>2 DEF done
<1>4. Head(rest) = rest[1]
  BY <1>2
<1>5. rest[1] = Lines[done + 1]
  BY <1>3 DEF ReadInv
<1>6. Len(Tail(rest)) = Len(rest) - 1
  BY <1>2
<1>7. ~Head(rest).header => done # 0
  BY <1>1, <1>4, <1>5
<1>8. rest' = Tail(rest) /\ file' = file => done' = done + 1 /\ Lines' = Lines
  BY <1>1, <1>2, <1>6 DEF done, Lines
<1> QED
  BY <1>1, <1>3, <1>4, <1>5, <1>7, <1>8

LEMMA ReadOn ==
  ASSUME ReadInv, rest # <<>>, rest' = Tail(rest), UNCHANGED <<file, origin>>,
         polygon_count' = IF Head(rest).header THEN polygon_count + 1 ELSE polygon_count,
         isFirstCoord' \in BOOLEAN, isFirstCoord' <=> Head(rest).header, pc' # "flight"
  PROVE  ReadInv'
<1>1. /\ done \in Nat /\ done + 1 \in 1..Len(Lines) /\ Head(rest) = Lines[done + 1]
      /\ done' = done + 1 /\ Lines' = Lines
  BY NextLineIs
<1>2. rest \in Seq(Line) /\ Len(rest) \in Nat \ {0} /\ Len(Lines) \in Nat /\ Len(rest) <= Len(Lines)
  BY FileHas DEF ReadInv, Lines
<1>3. Tail(rest) \in Seq(Line) /\ Len(Tail(rest)) = Len(rest) - 1
  BY <1>2
<1>4. \A i \in 1..Len(Tail(rest)) : Tail(rest)[i] = rest[i + 1]
  BY <1>2
<1>5. ASSUME NEW i \in 1..Len(Tail(rest))
      PROVE  rest'[i] = Lines'[done' + i]
  <2>1. i + 1 \in 1..Len(rest) /\ (done + 1) + i = done + (i + 1)
    BY <1>1, <1>2, <1>3
  <2> QED
    BY <1>1, <1>4, <2>1 DEF ReadInv
<1>6. polygon_count' = Country(Lines', done')
  BY <1>1, CountryStep DEF ReadInv
<1>7. isFirstCoord' \in BOOLEAN /\ (isFirstCoord' <=> done' = 0 \/ Lines'[done'].header)
  BY <1>1
<1> QED
  BY <1>1, <1>2, <1>3, <1>5, <1>6, <1>7 DEF ReadInv

LEMMA ReadFromTheBeginning ==
  ASSUME file' \in Files, origin' \in Positions, rest' = file'.lines,
         polygon_count' = 0, isFirstCoord' = TRUE, pc' # "flight"
  PROVE  ReadInv' /\ done' = 0
<1>1. file'.lines \in Seq(Line) /\ Len(file'.lines) \in Nat
  BY FileHas
<1>2. done' = 0 /\ Lines' = rest'
  BY <1>1 DEF done, Lines
<1> QED
  BY <1>1, <1>2, CountryZero DEF ReadInv

LEMMA Reading == Spec => []ReadInv
<1>1. ASSUME Init
      PROVE  ReadInv
  <2>1. file.lines \in Seq(Line) /\ Len(file.lines) \in Nat
    BY <1>1, FileHas DEF Init
  <2>2. done = 0 /\ Lines = rest
    BY <1>1, <2>1 DEF done, Lines, Init
  <2>3. origin \in Positions
    BY <1>1, BordersAssumption DEF Init
  <2> QED
    BY <1>1, <2>1, <2>2, <2>3, CountryZero DEF ReadInv, Init
<1>2. ASSUME ReadInv, [Next]_vars
      PROVE  ReadInv'
  <2> USE <1>2
  <2>1. CASE FileHeader
    <3>1. ASSUME NEW c \in {0, polygon_count}, Scanned(c)
          PROVE  ReadInv'
      BY <2>1, <3>1, ReadFromTheBeginning DEF FileHeader, NextLine, Scanned, Begin, ReadInv
    <3>2. CASE ~Scanned(polygon_count)
      BY <2>1, <3>2, ReadOn DEF FileHeader, NextLine
    <3> QED
      BY <3>1, <3>2
  <2>2. CASE FileVertex
    BY <2>2, ReadOn DEF FileVertex, NextLine
  <2>3. CASE FileEnd
    BY <2>3, ReadFromTheBeginning DEF FileEnd, Scanned, Begin, ReadInv
  <2>4. CASE ArrayHeader
    BY <2>4, ReadOn DEF ArrayHeader, StoreLine
  <2>5. CASE ArrayFirst
    BY <2>5, ReadOn DEF ArrayFirst, StoreLine
  <2>6. CASE ArrayEdge \/ ArrayFarEdge
    <3>1. isFirstCoord' = isFirstCoord /\ isFirstCoord \in BOOLEAN
      BY <2>6 DEF ArrayEdge, ArrayFarEdge, ReadInv
    <3> QED
      BY <2>6, <3>1, ReadOn DEF ArrayEdge, ArrayFarEdge, StoreLine
  <2>7. CASE ArrayEnd
    BY <2>7 DEF ArrayEnd, reader, ReadInv, Lines, done
  <2>8. CASE Fly
    BY <2>8 DEF Fly, reader, ReadInv, Lines, done
  <2>9. CASE UNCHANGED vars
    BY <2>9 DEF vars, reader, ReadInv, Lines, done
  <2> QED
    BY <2>1, <2>2, <2>3, <2>4, <2>5, <2>6, <2>7, <2>8, <2>9 DEF Next
<1> QED
  BY <1>1, <1>2, PTL DEF Spec
-----------------------------------------------------------------------------
(* The scan at power-up. *)

\* No polygon so far is around the vehicle; of the one being read, `inside` tells the
\* parity of the edges so far.
ScanInv ==
  pc = "file" =>
  /\ country_coords = <<>>
  /\ inside \in BOOLEAN
  /\ isFirstCoord => ~inside
  /\ ~isFirstCoord =>
       /\ prevCoord = Lines[done].at
       /\ \E s \in 2..done : Run(Lines, s, done) /\ firstCoord = Lines[s].at
       /\ inside <=> Odd(Passed(Lines, done, origin))
  /\ \A k \in 1..(polygon_count - 1) : ~Odd(Crossings(Lines, origin, k))

\* What the scan says, by the edges.
Verdict(p) ==
  \/ /\ is_inside_banned_country \in Judged(file)
     /\ Odd(Crossings(Lines, p, is_inside_banned_country))
  \/ /\ is_inside_banned_country = 0
     /\ \A k \in Judged(file) : ~Odd(Crossings(Lines, p, k))

VerdictInv ==
  /\ pc = "array" => Verdict(origin)
  /\ pc = "flight" => \E p \in Positions : Verdict(p)

\* What a header finds: the edge that closes the polygon makes the parity that of the
\* whole polygon.
LEMMA HeaderFinds ==
  ASSUME ReadInv, ScanInv, pc = "file", rest # <<>>, Head(rest).header, done # 0
  PROVE  (~isFirstCoord /\ Flip(prevCoord, firstCoord))
           <=> Odd(Crossings(Lines, origin, polygon_count))
<1>1. /\ Lines \in Seq(Line) /\ Len(Lines) \in Nat /\ done \in Nat /\ done + 1 \in 1..Len(Lines)
      /\ Lines[done + 1].header /\ done \in 1..(Len(Lines) - 1)
      /\ polygon_count = Country(Lines, done)
      /\ isFirstCoord \in BOOLEAN /\ (isFirstCoord <=> Lines[done].header)
  BY NextLineIs, FileHas DEF ReadInv, Lines
<1>2. CASE isFirstCoord
  BY <1>1, <1>2, NoRing
<1>3. CASE ~isFirstCoord
  <2>1. PICK s \in 2..done : Run(Lines, s, done) /\ firstCoord = Lines[s].at
    BY <1>3 DEF ScanInv
  <2>2. prevCoord = Lines[done].at /\ (inside <=> Odd(Passed(Lines, done, origin)))
        /\ inside \in BOOLEAN
    BY <1>3 DEF ScanInv
  <2>3. origin \in Point /\ Lines[s].at \in Point /\ Lines[done].at \in Point
    <3>1. s \in 1..Len(Lines) /\ done \in 1..Len(Lines)
      BY <1>1, <2>1
    <3> QED
      BY <3>1, FileHas, BordersAssumption DEF ReadInv, Lines
  <2>4. Flip(prevCoord, firstCoord) <=> ~(inside <=> Crosses(origin, prevCoord, firstCoord))
    <3>1. CheckEdge(origin, prevCoord, firstCoord) <=> Crosses(origin, prevCoord, firstCoord)
      BY <2>1, <2>2, <2>3, RayIsExact
    <3>2. CheckEdge(origin, prevCoord, firstCoord) \in BOOLEAN
      BY DEF CheckEdge
    <3> QED
      BY <2>2, <3>1, <3>2 DEF Flip
  <2>5. Odd(Crossings(Lines, origin, Country(Lines, done)))
          <=> ~(Odd(Passed(Lines, done, origin)) <=> Crosses(origin, Lines[done].at, Lines[s].at))
    BY <1>1, <2>1, RingJudged
  <2> QED
    BY <1>1, <1>3, <2>1, <2>2, <2>4, <2>5
<1> QED
  BY <1>1, <1>2, <1>3
\* The countries counted at a header are all followed by one.
LEMMA HeaderCounts ==
  ASSUME ReadInv, rest # <<>>, Head(rest).header
  PROVE  /\ polygon_count \in Nat /\ (done = 0 => polygon_count = 0)
         /\ 1..polygon_count \subseteq Judged(file)
         /\ done # 0 => polygon_count \in Judged(file)
<1>1. /\ Len(Lines) \in Nat /\ done \in Nat /\ done + 1 \in 1..Len(Lines) /\ Lines[1].header
      /\ polygon_count = Country(Lines, done) /\ Lines[done + 1].header
  BY NextLineIs, FileHas DEF ReadInv, Lines
<1>2. /\ Country(Lines, 0) = 0 /\ Country(Lines, 1) \in Nat /\ Country(Lines, done) \in Nat
      /\ Country(Lines, done + 1) \in Nat /\ Country(Lines, Len(Lines)) \in Nat
  BY <1>1, CountryNat, CountryZero
<1>3. /\ Country(Lines, done) < Country(Lines, done + 1)
      /\ Country(Lines, done + 1) <= Country(Lines, Len(Lines))
  BY <1>1, CountryGrows
<1>4. done # 0 => Country(Lines, 0) < Country(Lines, 1) /\ Country(Lines, 1) <= Country(Lines, done)
  BY <1>1, CountryGrows
<1>5. Judged(file) = 1..(Country(Lines, Len(Lines)) - 1)
  BY DEF Judged, Lines
<1> QED
  BY <1>1, <1>2, <1>3, <1>4, <1>5

LEMMA HeaderScanned ==
  ASSUME ReadInv, ScanInv, FileHeader
  PROVE  ScanInv' /\ VerdictInv'
<1> DEFINE in == ~isFirstCoord /\ Flip(prevCoord, firstCoord)
<1>1. /\ pc = "file" /\ rest # <<>> /\ Head(rest).header
      /\ file' = file /\ origin' = origin /\ country_coords' = country_coords
      /\ Lines' = Lines
  BY DEF FileHeader, NextLine, Lines
<1>2. /\ Len(Lines) \in Nat /\ done \in Nat /\ done + 1 \in 1..Len(Lines) /\ Lines[1].header
      /\ polygon_count = Country(Lines, done) /\ Lines[done + 1].header
      /\ done = 0 => isFirstCoord
  BY <1>1, NextLineIs, FileHas DEF ReadInv, Lines
<1>3. in => done # 0 /\ Odd(Crossings(Lines, origin, polygon_count))
  BY <1>1, <1>2, HeaderFinds
<1>4. ~in /\ done # 0 => ~Odd(Crossings(Lines, origin, polygon_count))
  BY <1>1, HeaderFinds
<1>5. CASE in
  <2>1. Scanned(polygon_count)
    BY <1>5 DEF FileHeader
  <2>2. is_inside_banned_country' = polygon_count /\ pc' = "array"
    BY <2>1 DEF Scanned
  <2>3. polygon_count \in Judged(file)
    BY <1>1, <1>3, <1>5, HeaderCounts
  <2>4. Odd(Crossings(Lines, origin, polygon_count))
    BY <1>3, <1>5
  <2>5. Verdict(origin)'
    BY <1>1, <2>2, <2>3, <2>4 DEF Verdict
  <2> QED
    BY <2>2, <2>5 DEF ScanInv, VerdictInv
<1>6. CASE ~in
  <2>1. /\ inside' = FALSE /\ isFirstCoord' = TRUE /\ pc' = "file"
        /\ polygon_count' = polygon_count + 1
    BY <1>1, <1>6 DEF FileHeader
  <2>2. ASSUME NEW k \in 1..(polygon_count' - 1)
        PROVE  ~Odd(Crossings(Lines, origin, k))
    <3>1. polygon_count \in Nat /\ (done = 0 => polygon_count = 0)
      BY <1>2, CountryNat, CountryZero
    <3>2. k \in 1..(polygon_count - 1) \/ (k = polygon_count /\ done # 0)
      BY <2>1, <2>2, <3>1
    <3> QED
      BY <1>1, <1>4, <1>6, <3>2 DEF ScanInv
  <2>3. country_coords' = <<>>
    BY <1>1 DEF ScanInv
  <2> QED
    BY <1>1, <2>1, <2>2, <2>3 DEF ScanInv, VerdictInv
<1> QED
  BY <1>5, <1>6

LEMMA VertexScanned ==
  ASSUME ReadInv, ScanInv, FileVertex
  PROVE  ScanInv' /\ VerdictInv'
<1>1. /\ pc = "file" /\ pc' = "file" /\ rest # <<>> /\ ~Head(rest).header /\ rest' = Tail(rest)
      /\ file' = file /\ origin' = origin /\ country_coords' = country_coords
      /\ polygon_count' = polygon_count /\ isFirstCoord' = FALSE
      /\ prevCoord' = Head(rest).at
  BY DEF FileVertex, NextLine
<1>2. /\ Lines \in Seq(Line) /\ Len(Lines) \in Nat /\ done \in Nat /\ done \in 1..(Len(Lines) - 1)
      /\ Head(rest) = Lines[done + 1] /\ done' = done + 1 /\ Lines' = Lines
      /\ isFirstCoord \in BOOLEAN /\ (isFirstCoord <=> Lines[done].header)
  BY <1>1, NextLineIs, FileHas DEF ReadInv, Lines
<1>3. CASE isFirstCoord
  <2>1. firstCoord' = Lines[done + 1].at /\ inside' = inside
    BY <1>2, <1>3 DEF FileVertex
  <2>2. inside = FALSE
    BY <1>1, <1>3 DEF ScanInv
  <2>3. Run(Lines, done + 1, done + 1) /\ done + 1 \in 2..(done + 1)
    BY <1>1, <1>2, <1>3 DEF Run
  <2>4. Passed(Lines, done + 1, origin) = {}
    BY <1>1, <1>2, <1>3, PassedFirst
  <2> QED
    BY <1>1, <1>2, <2>1, <2>2, <2>3, <2>4, EmptyIsEven DEF ScanInv, VerdictInv
<1>4. CASE ~isFirstCoord
  <2>1. firstCoord' = firstCoord /\ inside' = Flip(prevCoord, Head(rest).at)
    BY <1>4 DEF FileVertex
  <2>2. PICK s \in 2..done : Run(Lines, s, done) /\ firstCoord = Lines[s].at
    BY <1>1, <1>4 DEF ScanInv
  <2>3. /\ prevCoord = Lines[done].at /\ (inside <=> Odd(Passed(Lines, done, origin)))
        /\ inside \in BOOLEAN
    BY <1>1, <1>4 DEF ScanInv
  <2>4. Run(Lines, s, done + 1) /\ s \in 2..(done + 1)
    BY <1>1, <1>2, <2>2 DEF Run
  <2>5. inside' \in BOOLEAN /\ (inside' <=> Odd(Passed(Lines, done + 1, origin)))
    <3> DEFINE a == Lines[done].at
               b == Lines[done + 1].at
    <3>1. origin \in Point /\ a \in Point /\ b \in Point
      <4>1. done \in 1..Len(Lines) /\ done + 1 \in 1..Len(Lines)
        BY <1>2
      <4> QED
        BY <4>1, FileHas, BordersAssumption DEF ReadInv, Lines
    <3>2. CheckEdge(origin, a, b) <=> Crosses(origin, a, b)
      BY <3>1, RayIsExact
    <3>3. inside' = (inside # CheckEdge(origin, a, b)) /\ CheckEdge(origin, a, b) \in BOOLEAN
      BY <1>2, <2>1, <2>3 DEF Flip, CheckEdge
    <3>4. Odd(Passed(Lines, done + 1, origin))
            <=> ~(Odd(Passed(Lines, done, origin)) <=> Crosses(origin, a, b))
      BY <1>1, <1>2, <1>4, PassedNext
    <3> QED
      BY <2>3, <3>2, <3>3, <3>4
  <2> QED
    BY <1>1, <1>2, <2>1, <2>2, <2>4, <2>5 DEF ScanInv, VerdictInv
<1> QED
  BY <1>2, <1>3, <1>4

LEMMA Scanning == Spec => [](ScanInv /\ VerdictInv)
<1>1. ASSUME Init
      PROVE  ScanInv /\ VerdictInv
  <2>1. /\ isFirstCoord = TRUE /\ inside = FALSE /\ polygon_count = 0
        /\ pc = "file" /\ country_coords = <<>>
    BY <1>1 DEF Init
  <2>2. 1..(0 - 1) = {}
    OBVIOUS
  <2> QED
    BY <2>1, <2>2 DEF ScanInv, VerdictInv
<1>2. ASSUME ReadInv, ScanInv, VerdictInv, [Next]_vars
      PROVE  ScanInv' /\ VerdictInv'
  <2> USE <1>2
  <2>1. CASE FileHeader
    BY <2>1, HeaderScanned
  <2>2. CASE FileVertex
    BY <2>2, VertexScanned
  <2>3. CASE FileEnd
    <3>1. /\ pc = "file" /\ pc' = "array" /\ rest = <<>> /\ is_inside_banned_country' = 0
          /\ Lines' = Lines /\ file' = file /\ origin' = origin
      BY <2>3 DEF FileEnd, Scanned, Lines
    <3>2. Judged(file) = 1..(polygon_count - 1)
      <4>1. Len(Lines) \in Nat /\ Len(rest) = 0
        BY <3>1, FileHas DEF ReadInv, Lines
      <4> QED
        BY <4>1 DEF ReadInv, Judged, done, Lines
    <3>3. Verdict(origin)'
      BY <3>1, <3>2 DEF ScanInv, Verdict
    <3> QED
      BY <3>1, <3>3 DEF ScanInv, VerdictInv
  <2>4. ASSUME pc = "array", pc' = "array",
               UNCHANGED <<file, origin, is_inside_banned_country>>
        PROVE  ScanInv' /\ VerdictInv'
    BY <2>4 DEF ScanInv, VerdictInv, Verdict, Lines
  <2>5. CASE ArrayHeader \/ ArrayFirst \/ ArrayEdge \/ ArrayFarEdge
    BY <2>4, <2>5 DEF ArrayHeader, ArrayFirst, ArrayEdge, ArrayFarEdge, StoreLine
  <2>6. CASE ArrayEnd
    <3>1. /\ pc = "array" /\ pc' = "flight" /\ origin \in Positions
          /\ UNCHANGED <<file, origin, is_inside_banned_country>>
      BY <2>6 DEF ArrayEnd, ReadInv
    <3>2. Verdict(origin)
      BY <3>1 DEF VerdictInv
    <3> QED
      BY <3>1, <3>2 DEF ScanInv, VerdictInv, Verdict, Lines
  <2>7. CASE Fly
    <3>1. pc = "flight" /\ pc' = "flight" /\ UNCHANGED <<file, is_inside_banned_country>>
      BY <2>7 DEF Fly
    <3> QED
      BY <3>1 DEF ScanInv, VerdictInv, Verdict, Lines
  <2>8. CASE UNCHANGED vars
    BY <2>8 DEF vars, reader, ScanInv, VerdictInv, Verdict, Lines, done
  <2> QED
    BY <2>1, <2>2, <2>3, <2>5, <2>6, <2>7, <2>8 DEF Next
<1> QED
  BY <1>1, <1>2, Reading, PTL DEF Spec

\* At power-up the vehicle is found in the country it is in and in no other, whatever
\* the borders' shape, number and order in the file: is_inside_polygon_file carries one
\* flag from line to line and decides a polygon at the header after it.
THEOREM ScanCorrect == Spec => []ScanIsRight
<1>1. ASSUME ReadInv, VerdictInv
      PROVE  ScanIsRight
  <2>1. SUFFICES ASSUME pc = "array", ~OnBorder(file, origin)
                 PROVE  \/ /\ is_inside_banned_country \in Judged(file)
                           /\ Covers(file, origin, is_inside_banned_country)
                        \/ /\ is_inside_banned_country = 0
                           /\ \A k \in Judged(file) : ~Covers(file, origin, k)
    BY DEF ScanIsRight
  <2>2. \A k \in Judged(file) : Covers(file, origin, k) <=> Odd(Crossings(Lines, origin, k))
    BY <1>1, <2>1, EvenOddAssumption DEF ReadInv, Lines
  <2>3. Verdict(origin)
    BY <1>1, <2>1 DEF VerdictInv
  <2> QED
    BY <2>2, <2>3 DEF Verdict
<1> QED
  BY <1>1, Reading, Scanning, PTL
=============================================================================
