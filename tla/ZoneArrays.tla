------------------------------ MODULE ZoneArrays ------------------------------
(***************************************************************************)
(* Reading the zone files (flight_checker.cpp): once the handshake is done *)
(* the airport, country and prison files are read line by line, and what   *)
(* lies within reach of the vehicle is kept in three arrays that double    *)
(* when full.  The country array holds polygons, cut down to the edges     *)
(* within reach, closed by four made-up vertices where the cut left them   *)
(* open, and separated by a coordinate 0,0.                                *)
(*                                                                         *)
(* What a file says is up to the environment, line by line: a header, or a *)
(* coordinate, within reach or not.  A polygon's coordinates carry its     *)
(* number.  After a failed read the arrays are freed and the next loop     *)
(* reads into them again, which is undefined: the model ends there.        *)
(***************************************************************************)
EXTENDS Integers, Sequences

CONSTANTS
  Lists,        \* files consulted, of {"AIRPORT", "COUNTRY", "PRISON"}
  Coordinates,  \* records [lat, lon]; the code compares the two apart
  InitialSize,  \* 16
  MaxSize,      \* 1024: MAX_CLOSE_AIRPORTS_SIZE and its like
  MaxLines      \* bound: lines of a file that matter

EXTRA_COORDINATES_CLOSE_POLYGON == 4

ASSUME ZoneAssumption ==
  /\ Lists \subseteq {"AIRPORT", "COUNTRY", "PRISON"}
  /\ Coordinates # {}
  /\ \A c \in Coordinates : DOMAIN c = {"lat", "lon"}
  /\ InitialSize \in Nat /\ InitialSize > EXTRA_COORDINATES_CLOSE_POLYGON
  /\ MaxSize \in Nat /\ MaxLines \in Nat

VARIABLES
  pc,                   \* the file being read, or how reading ended
  lines,                \* lines read of it
  size, counter,        \* of the three arrays
  country_coords,       \* the polygon each entry of COUNTRY is of, 0 the separator
  dropped,              \* lists an entry within reach was left out of
  passed,               \* the reads so far succeeded
  lost,                 \* lists whose array could not be doubled
  polygon_count, coord1, prevCoord, firstCoord, isFirstCoord, isFirstFoundCoord

arrays == <<size, counter, country_coords, dropped>>
reader == <<polygon_count, coord1, prevCoord, firstCoord, isFirstCoord, isFirstFoundCoord>>
vars   == <<pc, lines, arrays, passed, lost, reader>>

-----------------------------------------------------------------------------
Files == {"AIRPORT", "COUNTRY", "PRISON"}
Following(file) ==
  IF file = "AIRPORT" THEN "COUNTRY" ELSE IF file = "COUNTRY" THEN "PRISON" ELSE "end"

TypeOK ==
  /\ pc \in Files \cup {"end", "files_read", "failed"}
  /\ lines \in 0..MaxLines
  /\ size \in [Files -> Nat] /\ counter \in [Files -> Nat]
  /\ country_coords \in Seq(Nat) /\ Len(country_coords) = counter["COUNTRY"]
  /\ dropped \subseteq Files /\ lost \subseteq Files
  /\ passed \in BOOLEAN
  /\ polygon_count \in Nat
  /\ {coord1, prevCoord, firstCoord} \subseteq Coordinates
  /\ isFirstCoord \in BOOLEAN /\ isFirstFoundCoord \in BOOLEAN

\* init(); the reader's coordinates are not initialised.
Init ==
  /\ pc = "AIRPORT"
  /\ lines = 0
  /\ size = [file \in Files |-> InitialSize]
  /\ counter = [file \in Files |-> 0]
  /\ country_coords = <<>>
  /\ dropped = {}
  /\ passed = TRUE
  /\ lost = {}
  /\ polygon_count = 0
  /\ coord1 \in Coordinates /\ prevCoord \in Coordinates /\ firstCoord \in Coordinates
  /\ isFirstCoord = TRUE
  /\ isFirstFoundCoord = FALSE

-----------------------------------------------------------------------------
(* The arrays. *)

\* double_coords_array: the size doubles, whether or not there is the memory.
Doubled(file) == [size EXCEPT ![file] = 2 * @]

\* The reading of a file ends in an error.
Lose(file) ==
  /\ size' = Doubled(file)
  /\ lost' = lost \cup {file}
  /\ passed' = FALSE
  /\ pc' = Following(file)
  /\ lines' = 0
  /\ UNCHANGED <<counter, country_coords, dropped, reader>>

\* Room for what is going to be stored, doubling the array if it is `full`.
MakeRoom(file, full) ==
  size' = IF full THEN Doubled(file) ELSE size

Line(file) ==
  /\ pc = file
  /\ lines < MaxLines
  /\ lines' = lines + 1

Accepts(file) == size[file] < MaxSize

\* An airport or prison within reach.
NearZone(file) ==
  /\ Line(file)
  /\ \/ /\ Accepts(file)
        /\ MakeRoom(file, counter[file] >= size[file])
        /\ counter' = [counter EXCEPT ![file] = @ + 1]
        /\ UNCHANGED dropped
     \/ /\ ~Accepts(file)
        /\ dropped' = dropped \cup {file}
        /\ UNCHANGED <<size, counter>>
  /\ UNCHANGED <<pc, country_coords, passed, lost, reader>>

NearZoneLost(file) ==
  /\ pc = file /\ lines < MaxLines
  /\ Accepts(file) /\ counter[file] >= size[file]
  /\ Lose(file)

-----------------------------------------------------------------------------
(* The polygons. *)

Store(entries) ==
  /\ country_coords' = country_coords \o entries
  /\ counter' = [counter EXCEPT !["COUNTRY"] = @ + Len(entries)]

\* The code asks for both to differ.
Apart(a, b) == a.lat # b.lat /\ a.lon # b.lon

\* Entries of the polygon being read; 0 is the separator.
Mine == polygon_count + 1

\* The first coordinate of a polygon.
FirstCoord(c) ==
  /\ Line("COUNTRY") /\ isFirstCoord
  /\ coord1' = c
  /\ isFirstCoord' = FALSE
  /\ UNCHANGED <<pc, arrays, passed, lost, polygon_count, prevCoord, firstCoord,
                 isFirstFoundCoord>>

\* An edge out of reach, or one for which there is no room any more.
SkipEdge(c, near) ==
  /\ Line("COUNTRY") /\ ~isFirstCoord
  /\ near => ~Accepts("COUNTRY")
  /\ coord1' = c
  /\ dropped' = IF near THEN dropped \cup {"COUNTRY"} ELSE dropped
  /\ UNCHANGED <<pc, size, counter, country_coords, passed, lost, polygon_count,
                 prevCoord, firstCoord, isFirstCoord, isFirstFoundCoord>>

EdgeNeedsRoom == counter["COUNTRY"] + 1 >= size["COUNTRY"]

\* An edge within reach; its first vertex is stored unless it is taken to be
\* the one stored last.
NearEdge(c) ==
  /\ Line("COUNTRY") /\ ~isFirstCoord
  /\ Accepts("COUNTRY")
  /\ MakeRoom("COUNTRY", EdgeNeedsRoom)
  /\ Store(IF Apart(coord1, prevCoord) THEN <<Mine, Mine>> ELSE <<Mine>>)
  /\ firstCoord' = IF isFirstFoundCoord THEN firstCoord ELSE coord1
  /\ isFirstFoundCoord' = TRUE
  /\ prevCoord' = c
  /\ coord1' = c
  /\ UNCHANGED <<pc, dropped, passed, lost, polygon_count, isFirstCoord>>

EdgeLost ==
  /\ pc = "COUNTRY" /\ lines < MaxLines /\ ~isFirstCoord
  /\ Accepts("COUNTRY") /\ EdgeNeedsRoom
  /\ Lose("COUNTRY")

\* What the end of a polygon stores: what closes it and the separator.
Closing_Bare ==   \* mutant: a closed polygon not separated from the next
  IF ~isFirstFoundCoord THEN <<>>
  ELSE IF Apart(prevCoord, firstCoord) THEN <<Mine, Mine, Mine, Mine, 0>>
  ELSE <<>>
Closing ==
  IF ~isFirstFoundCoord THEN <<>>
  ELSE IF Apart(prevCoord, firstCoord)
    THEN [i \in 1..EXTRA_COORDINATES_CLOSE_POLYGON |-> Mine] \o <<0>>
  ELSE <<0>>

ClosingNeedsRoom_Exact ==   \* mutant: > for >=
  /\ isFirstFoundCoord
  /\ counter["COUNTRY"] + Len(Closing) - 1 > size["COUNTRY"]
ClosingNeedsRoom ==
  /\ isFirstFoundCoord
  /\ counter["COUNTRY"] + Len(Closing) - 1 >= size["COUNTRY"]

\* A header ends the polygon before it.
Header ==
  /\ Line("COUNTRY")
  /\ MakeRoom("COUNTRY", ClosingNeedsRoom)
  /\ Store(Closing)
  /\ polygon_count' = polygon_count + 1
  /\ isFirstCoord' = TRUE
  /\ isFirstFoundCoord' = FALSE
  /\ UNCHANGED <<pc, dropped, passed, lost, coord1, prevCoord, firstCoord>>

HeaderLost ==
  /\ pc = "COUNTRY" /\ lines < MaxLines
  /\ ClosingNeedsRoom
  /\ Lose("COUNTRY")

-----------------------------------------------------------------------------
(* The end of a file; a bypassed one is not opened. *)

AllPassed_Last(ok) == ok   \* mutant: = for &=
AllPassed(ok) == passed /\ ok

EndOfFile(opened) ==
  /\ pc \in Files
  /\ ~opened => lines = 0
  /\ passed' = AllPassed(opened \/ pc \notin Lists)
  /\ pc' = Following(pc)
  /\ lines' = 0
  /\ UNCHANGED <<arrays, lost, reader>>

Finish ==
  /\ pc = "end"
  /\ pc' = IF passed THEN "files_read" ELSE "failed"
  /\ UNCHANGED <<lines, arrays, passed, lost, reader>>

Next ==
  \/ \E file \in Lists \ {"COUNTRY"} : NearZone(file) \/ NearZoneLost(file)
  \/ /\ "COUNTRY" \in Lists
     /\ \/ \E c \in Coordinates :
             \/ FirstCoord(c) \/ NearEdge(c)
             \/ \E near \in BOOLEAN : SkipEdge(c, near)
        \/ EdgeLost \/ Header \/ HeaderLost
  \/ \E opened \in BOOLEAN : EndOfFile(opened)
  \/ Finish

Spec == Init /\ [][Next]_vars

-----------------------------------------------------------------------------
(* Properties. *)

\* Nothing is stored past the end of an array, neither by an edge of two
\* vertices nor by the five entries that close a polygon.
InBounds == \A file \in Files : counter[file] <= size[file]

\* The ray casting sees no edge between two polygons: coordinates of different
\* polygons are never next to each other.
Separated ==
  \A i \in 1..(Len(country_coords) - 1) :
    \/ country_coords[i] = country_coords[i + 1]
    \/ 0 \in {country_coords[i], country_coords[i + 1]}

\* Reading counts as done only when memory sufficed for every list: one that ran
\* out of it is not forgotten over one read after it.
LossIsReported == pc = "files_read" => lost = {}
=============================================================================
