------------------------------- MODULE Borders -------------------------------
(***************************************************************************)
(* Whether the vehicle is within a banned country (flight_checker.cpp): by *)
(* ray casting over the file at power-up, and over the array that a second *)
(* reading of the file fills from then on.                                 *)
(*                                                                         *)
(* Coordinates are points of a plane, with the arithmetic of the code      *)
(* multiplied out; the sphere bends lines and changes nothing else here.   *)
(* A point that destination_point() puts far out on a ray is put some      *)
(* multiple of the way out: how far makes no difference beyond the reach   *)
(* of the vehicle.                                                         *)
(*                                                                         *)
(* ZoneArrays says what is stored of lists with more than                  *)
(* MAX_CLOSE_BORDERS_SIZE entries near; here there is room for all.        *)
(***************************************************************************)
EXTENDS Integers, Sequences, FiniteSets

CONSTANTS
  Positions,   \* records [lat, lon]: where the vehicle may be
  Homes,       \* where it may be when the file is read
  Files,       \* records [lines, areas]: the file, and what its polygons cover
  Reach,       \* the square of MAX_DRONE_DISTANCE
  Stretch,     \* how far out LINE_LENGHT takes a point
  OffsetSize   \* values of an offset: 256

Coordinate(lat, lon) == [lat |-> lat, lon |-> lon]
Separator   == Coordinate(0, 0)
Vertex(c)   == [header |-> FALSE, at |-> c]
HeaderLine  == [header |-> TRUE, at |-> Separator]

Point == [lat : Int, lon : Int]
Line  == [header : BOOLEAN, at : Point]

\* A file begins with a header; the areas are triangles, a set for each polygon.
ASSUME BordersAssumption ==
  /\ Positions \subseteq Point \ {Separator}
  /\ Homes \subseteq Positions /\ Homes # {}
  /\ Reach \in Nat /\ OffsetSize \in Nat \ {0}
  /\ Stretch \subseteq Nat /\ Stretch # {}
  /\ \A f \in Files :
       /\ f.lines \in Seq(Line) /\ f.lines # <<>> /\ f.lines[1].header
       /\ \A i \in 1..Len(f.lines) : f.lines[i].header \/ f.lines[i].at # Separator

VARIABLES
  pc,       \* "file", "array": the readings; "flight"
  file,     \* in use
  rest,     \* lines still to be read
  origin,   \* the vehicle
  home,     \* where it was when the file was read
  inside, polygon_count, isFirstCoord, firstCoord, prevCoord,
  coord1, isFirstFoundCoord, current_polygon_offset,
  is_inside_banned_country,
  country_coords

reader == <<inside, polygon_count, isFirstCoord, firstCoord, prevCoord, coord1,
            isFirstFoundCoord, current_polygon_offset>>
vars == <<pc, file, rest, origin, home, reader, is_inside_banned_country, country_coords>>

Init ==
  /\ pc = "file"
  /\ file \in Files
  /\ rest = file.lines
  /\ home \in Homes /\ origin = home
  /\ inside = FALSE
  /\ polygon_count = 0
  /\ isFirstCoord = TRUE
  /\ firstCoord = Separator /\ prevCoord = Separator /\ coord1 = Separator
  /\ isFirstFoundCoord = FALSE /\ current_polygon_offset = 0
  /\ is_inside_banned_country = 0
  /\ country_coords = <<>>

-----------------------------------------------------------------------------
(* The ray. *)

Low(a, b)  == IF a <= b THEN a ELSE b
High(a, b) == IF a <= b THEN b ELSE a

\* How far x is from the edge at the height of y, times the height of the edge,
\* which is positive upwards.
Lead(p, a, b) == (p.lat - a.lat) * (b.lon - a.lon) - (p.lon - a.lon) * (b.lat - a.lat)
Reaches(p, a, b) == IF b.lon > a.lon THEN Lead(p, a, b) <= 0 ELSE Lead(p, a, b) >= 0

CheckEdge_BothEnds(p, a, b) ==   \* mutant: >= for >
  /\ p.lon >= Low(a.lon, b.lon) /\ p.lon <= High(a.lon, b.lon)
  /\ p.lat <= High(a.lat, b.lat) /\ a.lon # b.lon
  /\ a.lat = b.lat \/ Reaches(p, a, b)
\* The ray from p hits the edge from a to b; an edge includes its upper end only.
CheckEdge(p, a, b) ==
  /\ p.lon > Low(a.lon, b.lon) /\ p.lon <= High(a.lon, b.lon)
  /\ p.lat <= High(a.lat, b.lat) /\ a.lon # b.lon
  /\ a.lat = b.lat \/ Reaches(p, a, b)

-----------------------------------------------------------------------------
(* is_inside_polygon_file *)

Flip(a, b) == inside # CheckEdge(origin, a, b)

\* The readers' own variables as they are when reading begins.  Those that are not
\* initialised hold anything.
Begin ==
  /\ rest' = file.lines
  /\ polygon_count' = 0 /\ isFirstCoord' = TRUE /\ isFirstFoundCoord' = FALSE
  /\ firstCoord' = Separator
  /\ prevCoord' \in Positions

\* The scan is over, with the number of the country the vehicle is in.
Scanned(country) ==
  /\ is_inside_banned_country' = country
  /\ pc' = "array"
  /\ Begin
  /\ UNCHANGED <<inside, coord1, current_polygon_offset>>

NextLine ==
  /\ pc = "file" /\ rest # <<>>
  /\ UNCHANGED <<file, origin, home, country_coords>>

\* A polygon is judged at the header after it.
FileHeader ==
  /\ NextLine /\ Head(rest).header
  /\ LET in == ~isFirstCoord /\ Flip(prevCoord, firstCoord)
     IN  IF in THEN Scanned(polygon_count)
         ELSE /\ inside' = in
              /\ polygon_count' = polygon_count + 1
              /\ isFirstCoord' = TRUE
              /\ rest' = Tail(rest)
              /\ UNCHANGED <<pc, firstCoord, prevCoord, coord1, isFirstFoundCoord,
                             current_polygon_offset, is_inside_banned_country>>

FileVertex ==
  /\ NextLine /\ ~Head(rest).header
  /\ prevCoord' = Head(rest).at
  /\ firstCoord' = IF isFirstCoord THEN Head(rest).at ELSE firstCoord
  /\ inside' = IF isFirstCoord THEN inside ELSE Flip(prevCoord, Head(rest).at)
  /\ isFirstCoord' = FALSE
  /\ rest' = Tail(rest)
  /\ UNCHANGED <<pc, polygon_count, coord1, isFirstFoundCoord, current_polygon_offset,
                 is_inside_banned_country>>

FileEnd ==
  /\ pc = "file" /\ rest = <<>>
  /\ Scanned(0)
  /\ UNCHANGED <<file, origin, home, country_coords>>

-----------------------------------------------------------------------------
(* is_inside_polygon *)

IsSeparator(c) == c = Separator

\* The entry of A behind offset that a polygon begins with, the one i is in.
Start(A, offset, i) ==
  LET before == {j \in (offset + 1)..i : IsSeparator(A[j])}
  IN  IF before = {} THEN offset + 1
      ELSE 1 + (CHOOSE j \in before : \A k \in before : k <= j)

\* The first vertex; one that has no second is not noted.
FirstCoordinate(A, offset, i) ==
  IF IsSeparator(A[Start(A, offset, i) + 1]) THEN Separator ELSE A[Start(A, offset, i)]

\* The edge that begins at entry i; the last one of a polygon closes it.
Hit(A, offset, i) ==
  /\ ~IsSeparator(A[i])
  /\ CheckEdge(origin, A[i],
               IF IsSeparator(A[i + 1]) THEN FirstCoordinate(A, offset, i) ELSE A[i + 1])

is_inside_polygon(A, offset) ==
  /\ Len(A) >= 3
  /\ Cardinality({i \in (offset + 1)..(Len(A) - 1) : Hit(A, offset, i)}) % 2 = 1

-----------------------------------------------------------------------------
(* check_for_near_countries *)

Apart(a, b) == a.lat # b.lat /\ a.lon # b.lon

\* distance_from_point_to_line_segment: the foot of p on the line through a and
\* b, or the end of the segment it lies behind.
Square(a, b) == (b.lat - a.lat) * (b.lat - a.lat) + (b.lon - a.lon) * (b.lon - a.lon)
Near(p, a, b) ==
  LET foot == (p.lat - a.lat) * (b.lat - a.lat) + (p.lon - a.lon) * (b.lon - a.lon)
  IN  IF foot <= 0 THEN Square(p, a) < Reach
      ELSE IF foot >= Square(a, b) THEN Square(p, b) < Reach
      ELSE Lead(p, a, b) * Lead(p, a, b) < Reach * Square(a, b)

\* k times as far from p as c; k times the way to between c and d, doubled.
Beyond(p, c, k) == Coordinate(p.lat + k * (c.lat - p.lat), p.lon + k * (c.lon - p.lon))
Towards(p, c, d, k) == Coordinate(p.lat + k * (c.lat + d.lat - 2 * p.lat),
                                  p.lon + k * (c.lon + d.lon - 2 * p.lon))

\* The corners that close_polygon adds, and the one that may replace the second:
\* from p, the one looks towards the gap and the other away from it.
Closings(p, first, last) ==
  {[new_last |-> l, a |-> Towards(p, f, l, k), new_first |-> f, b |-> Towards(p, f, l, -k)] :
     l \in {Beyond(p, last, k) : k \in Stretch},
     f \in {Beyond(p, first, k) : k \in Stretch}, k \in Stretch}

close_polygon(closing) ==
  country_coords \o <<closing.new_last, closing.a, closing.new_first, firstCoord, Separator>>

check_final_polygon_All(closed, closing) ==   \* mutant: the offset not passed on
  IF is_inside_polygon(closed, 0) # (is_inside_banned_country = polygon_count)
    THEN [closed EXCEPT ![Len(closed) - 3] = closing.b] ELSE closed
\* The corner is replaced where the polygon would say of the vehicle what the
\* scan does not.
check_final_polygon(closed, closing) ==
  IF is_inside_polygon(closed, current_polygon_offset) # (is_inside_banned_country = polygon_count)
    THEN [closed EXCEPT ![Len(closed) - 3] = closing.b] ELSE closed

StoreLine ==
  /\ pc = "array" /\ rest # <<>>
  /\ rest' = Tail(rest)
  /\ UNCHANGED <<pc, file, origin, home, inside, is_inside_banned_country>>

\* What is stored of a polygon ends in the separator, between corners out of
\* reach where it is taken to be open.
ArrayHeader ==
  /\ StoreLine /\ Head(rest).header
  /\ \/ ~isFirstFoundCoord /\ UNCHANGED country_coords
     \/ /\ isFirstFoundCoord /\ ~Apart(prevCoord, firstCoord)
        /\ country_coords' = Append(country_coords, Separator)
     \/ /\ isFirstFoundCoord /\ Apart(prevCoord, firstCoord)
        /\ \E closing \in Closings(origin, firstCoord, prevCoord) :
             country_coords' = check_final_polygon(close_polygon(closing), closing)
  /\ current_polygon_offset' = Len(country_coords') % OffsetSize
  /\ polygon_count' = polygon_count + 1
  /\ isFirstCoord' = TRUE
  /\ isFirstFoundCoord' = FALSE
  /\ UNCHANGED <<firstCoord, prevCoord, coord1>>

ArrayFirst ==
  /\ StoreLine /\ ~Head(rest).header /\ isFirstCoord
  /\ coord1' = Head(rest).at
  /\ isFirstCoord' = FALSE
  /\ UNCHANGED <<polygon_count, firstCoord, prevCoord, isFirstFoundCoord,
                 current_polygon_offset, country_coords>>

\* Of an edge within reach the first vertex is stored unless it is taken to be
\* the one stored last.
ArrayEdge ==
  /\ StoreLine /\ ~Head(rest).header /\ ~isFirstCoord
  /\ Near(origin, coord1, Head(rest).at)
  /\ LET coord2 == Head(rest).at
         new == IF Apart(coord1, prevCoord) THEN <<coord1, coord2>> ELSE <<coord2>>
     IN  /\ country_coords' = country_coords \o new
         /\ prevCoord' = coord2 /\ coord1' = coord2
  /\ firstCoord' = IF isFirstFoundCoord THEN firstCoord ELSE coord1
  /\ isFirstFoundCoord' = TRUE
  /\ UNCHANGED <<polygon_count, isFirstCoord, current_polygon_offset>>

ArrayFarEdge ==
  /\ StoreLine /\ ~Head(rest).header /\ ~isFirstCoord
  /\ ~Near(origin, coord1, Head(rest).at)
  /\ coord1' = Head(rest).at
  /\ UNCHANGED <<polygon_count, isFirstCoord, firstCoord, prevCoord, isFirstFoundCoord,
                 current_polygon_offset, country_coords>>

ArrayEnd ==
  /\ pc = "array" /\ rest = <<>>
  /\ pc' = "flight"
  /\ UNCHANGED <<file, rest, origin, home, reader, is_inside_banned_country, country_coords>>

\* is_flying_allowed: the array, or what the scan said if nothing is stored.
Banned ==
  IF country_coords # <<>> THEN is_inside_polygon(country_coords, 0)
                           ELSE is_inside_banned_country > 0

\* The bound on the flight: MAX_DRONE_DISTANCE is what the battery allows.
Fly ==
  /\ pc = "flight"
  /\ origin' \in {p \in Positions : Square(home, p) < Reach}
  /\ UNCHANGED <<pc, file, rest, home, reader, is_inside_banned_country, country_coords>>

Next ==
  \/ FileHeader \/ FileVertex \/ FileEnd
  \/ ArrayHeader \/ ArrayFirst \/ ArrayEdge \/ ArrayFarEdge \/ ArrayEnd
  \/ Fly

Spec == Init /\ [][Next]_vars

-----------------------------------------------------------------------------
(* What a polygon covers, said without a ray. *)

Between(p, a, b) ==
  /\ Lead(p, a, b) = 0
  /\ p.lat \in Low(a.lat, b.lat)..High(a.lat, b.lat)
  /\ p.lon \in Low(a.lon, b.lon)..High(a.lon, b.lon)

\* Within or on the edge of a triangle: on no side of it is p on the outer side.
Within(p, t) ==
  \/ Lead(p, t[1], t[2]) >= 0 /\ Lead(p, t[2], t[3]) >= 0 /\ Lead(p, t[3], t[1]) >= 0
  \/ Lead(p, t[1], t[2]) <= 0 /\ Lead(p, t[2], t[3]) <= 0 /\ Lead(p, t[3], t[1]) <= 0

Covers(f, p, k) == \E t \in f.areas[k] : Within(p, t)

\* The number of the country that line i is of; all of them, and those that a
\* header follows.
Country(L, i) == Cardinality({j \in 1..i : L[j].header})
Listed(f) == DOMAIN f.areas
Judged(f) == 1..(Country(f.lines, Len(f.lines)) - 1)

\* Lines s to i are vertices of one polygon, s the first.
Run(L, s, i) == L[s - 1].header /\ \A k \in s..i : ~L[k].header
RingStart(L, i) == CHOOSE s \in 2..i : Run(L, s, i)
RingEnds(L, i) == i = Len(L) \/ L[i + 1].header

\* Where the edge from the vertex in line i leads.
EdgeTo(L, i) == IF RingEnds(L, i) THEN L[RingStart(L, i)].at ELSE L[i + 1].at

\* The border itself belongs to either side.
OnBorder(f, p) ==
  \E i \in 1..Len(f.lines) :
    ~f.lines[i].header /\ Between(p, f.lines[i].at, EdgeTo(f.lines, i))

-----------------------------------------------------------------------------
(* What is taken for granted of the files. *)

\* The ray from p, along its longitude's line, goes through the edge.
Crosses(p, a, b) ==
  \/ a.lon < p.lon /\ p.lon <= b.lon /\ Lead(p, a, b) <= 0
  \/ b.lon < p.lon /\ p.lon <= a.lon /\ Lead(p, a, b) >= 0

Crossings(L, p, k) ==
  {i \in 1..Len(L) :
     ~L[i].header /\ Country(L, i) = k /\ Crosses(p, L[i].at, EdgeTo(L, i))}
Odd(S) == Cardinality(S) % 2 = 1

\* Geometry: off its border, a polygon is where a ray crosses the border an odd
\* number of times.
ASSUME EvenOddAssumption ==
  \A f \in Files :
    /\ Judged(f) \subseteq Listed(f)
    /\ \A i \in 1..Len(f.lines) : ~f.lines[i].header => Country(f.lines, i) \in Listed(f)
    /\ \A p \in {q \in Positions : ~OnBorder(f, q)}, k \in Listed(f) :
         Covers(f, p, k) <=> Odd(Crossings(f.lines, p, k))

\* Countries do not overlap: the array has one parity for all of them.
ASSUME ApartAssumption ==
  \A f \in Files : \A p \in {q \in Positions : ~OnBorder(f, q)}, k, l \in Listed(f) :
    Covers(f, p, k) /\ Covers(f, p, l) => k = l

-----------------------------------------------------------------------------
(* What is near. *)

\* The lines whose vertex an edge of country k leads from, and of those within
\* reach of h.
Edges(f, k) ==
  {i \in 1..(Len(f.lines) - 1) :
     ~f.lines[i].header /\ ~f.lines[i + 1].header /\ Country(f.lines, i) = k}
NearEdges(f, h, k) == {i \in Edges(f, k) : Near(h, f.lines[i].at, f.lines[i + 1].at)}

First(S) == CHOOSE i \in S : \A j \in S : i <= j
Last(S)  == CHOOSE i \in S : \A j \in S : i >= j
FirstNear(f, h, k) == f.lines[First(NearEdges(f, h, k))].at
LastNear(f, h, k)  == f.lines[Last(NearEdges(f, h, k)) + 1].at

Whole(f, h, k) == NearEdges(f, h, k) = Edges(f, k)
Cut(f, h, k)   == NearEdges(f, h, k) \notin {{}, Edges(f, k)}

\* What is near of a country is seen to be open, and its ends lie on different
\* lines through h.
SeenOpen(f, h, k) ==
  /\ Apart(FirstNear(f, h, k), LastNear(f, h, k))
  /\ Lead(h, FirstNear(f, h, k), LastNear(f, h, k)) # 0

\* Two near edges of a country with far ones between them.
Gaps(f, h, k) ==
  {g \in NearEdges(f, h, k) \X NearEdges(f, h, k) :
     /\ g[1] + 1 < g[2]
     /\ \A i \in NearEdges(f, h, k) : i <= g[1] \/ i >= g[2]}

\* The country that no header follows is near as a whole and its first vertex is
\* taken for no other, or it is far and the vehicle not in it.
LastSettled(f, h, k) ==
  \/ /\ Whole(f, h, k)
     /\ \A l \in Listed(f) \ {k} : NearEdges(f, h, l) # {} =>
          Apart(FirstNear(f, h, k), LastNear(f, h, l))
     /\ \E l \in Listed(f) \ {k} : NearEdges(f, h, l) # {}
  \/ NearEdges(f, h, k) = {} /\ ~Covers(f, h, k)

\* Every polygon has three vertices or more, the last the first again.
Closed(f) ==
  \A i \in 2..Len(f.lines) : ~f.lines[i].header =>
    /\ f.lines[i - 1].header => i + 2 <= Len(f.lines) /\ Run(f.lines, i, i + 2)
    /\ RingEnds(f.lines, i) => f.lines[i].at = f.lines[RingStart(f.lines, i)].at

Settled(f, h) ==
  /\ Closed(f)
  /\ \A k \in Judged(f) : Cut(f, h, k) => SeenOpen(f, h, k)
  /\ \A k \in Listed(f) \ Judged(f) : Edges(f, k) # {} => LastSettled(f, h, k)

\* No vertex behind a gap of the near edges is taken for the one before it, and
\* no line that the file does not have comes within reach: one over a gap, or one
\* to a corner that close_polygon added.
Vertices(f) == {f.lines[i].at : i \in {j \in 1..Len(f.lines) : ~f.lines[j].header}}

SameBorders(f, h) ==
  /\ \A k \in Judged(f) : \A g \in Gaps(f, h, k) :
       /\ Apart(f.lines[g[1] + 1].at, f.lines[g[2]].at)
       /\ ~Near(h, f.lines[g[1] + 1].at, f.lines[g[2]].at)
  /\ \A i \in 1..(Len(country_coords) - 1) :
       LET line == {country_coords[i], country_coords[i + 1]}
       IN  ~(line \subseteq Vertices(f)) /\ Separator \notin line
             => ~Near(h, country_coords[i], country_coords[i + 1])

\* Each polygon begins at an entry that an offset can name.
OffsetsFit ==
  \A i \in 1..(Len(country_coords) - 1) :
    IsSeparator(country_coords[i]) => i < OffsetSize

-----------------------------------------------------------------------------
(* Properties. *)

\* At power-up the vehicle is found in the country it is in and in no other, as
\* far as countries are followed by a header: concave borders and borders that
\* go through the ray's own line included.
ScanIsRight ==
  pc = "array" /\ ~OnBorder(file, origin) =>
    \/ /\ is_inside_banned_country \in Judged(file)
       /\ Covers(file, origin, is_inside_banned_country)
    \/ /\ is_inside_banned_country = 0
       /\ \A k \in Judged(file) : ~Covers(file, origin, k)

\* From then on the array says of the place where the file was read what a file
\* of closed polygons says, also of countries that reach further than the vehicle and of those
\* that lost a vertex on the way (flight_checker.cpp:345-363, 505-515); and it
\* goes on to do so wherever the vehicle flies, unless a vertex behind a gap was
\* taken for the one before it, or a line that the file does not have comes
\* within reach.
FlightIsRight ==
  /\ pc = "flight"
  /\ ~OnBorder(file, home) /\ ~OnBorder(file, origin)
  /\ Settled(file, home) /\ (origin = home \/ SameBorders(file, home))
  /\ OffsetsFit
  => (Banned <=> \E k \in Listed(file) : Covers(file, origin, k))
=============================================================================
