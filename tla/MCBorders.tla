------------------------------ MODULE MCBorders ------------------------------
(* Instances of Borders for TLC: small countries near as a whole, a large one    *)
(* of which a straight or a bent border is near, a strip both borders of which   *)
(* are near, with and without a vertex that is taken for another, an open bay.   *)
EXTENDS Borders

C(lat, lon) == Coordinate(lat, lon)
MCPositions == {C(lat, lon) : lat \in 104..110, lon \in 101..109}

Ring(s) == [i \in 1..Len(s) |-> Vertex(s[i])] \o <<Vertex(s[1])>>
H == <<HeaderLine>>
Land(s, areas) == [ring |-> H \o Ring(s), area |-> areas]
File(c, end) ==
  [lines |-> (IF Len(c) = 1 THEN c[1].ring ELSE c[1].ring \o c[2].ring) \o end,
   areas |-> [i \in 1..Len(c) |-> c[i].area]]

Open(s, areas) == [ring |-> H \o [i \in 1..Len(s) |-> Vertex(s[i])], area |-> areas]

Triangle == Land(<<C(106, 107), C(109, 108), C(106, 109)>>,
                    {<<C(106, 107), C(109, 108), C(106, 109)>>})
Notched == Land(<<C(104, 106), C(109, 106), C(109, 109), C(107, 109), C(107, 108), C(104, 108)>>,
                {<<C(104, 106), C(109, 106), C(107, 108)>>, <<C(104, 106), C(107, 108), C(104, 108)>>,
                 <<C(109, 106), C(109, 109), C(107, 109)>>, <<C(109, 106), C(107, 109), C(107, 108)>>})
Bay == Open(<<C(105, 102), C(109, 103), C(106, 105), C(109, 107), C(105, 107)>>,
            {<<C(105, 102), C(109, 103), C(106, 105)>>, <<C(105, 102), C(106, 105), C(105, 107)>>,
             <<C(106, 105), C(109, 107), C(105, 107)>>})
West == Land(<<C(95, 90), C(119, 91), C(119, 107), C(95, 104)>>,
                {<<C(95, 90), C(119, 91), C(119, 107)>>, <<C(95, 90), C(119, 107), C(95, 104)>>})
Bent == Land(<<C(95, 90), C(119, 91), C(119, 107), C(107, 104), C(95, 106)>>,
                {<<C(95, 90), C(119, 91), C(107, 104)>>, <<C(119, 91), C(119, 107), C(107, 104)>>,
                 <<C(95, 90), C(107, 104), C(95, 106)>>})
Strip(lat) == Land(<<C(95, 104), C(119, 105), C(lat, 108), C(94, 107)>>,
                      {<<C(95, 104), C(119, 105), C(lat, 108)>>, <<C(95, 104), C(lat, 108), C(94, 107)>>})

MCFiles ==
  {File(<<West>>, H), File(<<Bent>>, H), File(<<Strip(119)>>, H), File(<<Strip(120)>>, H),
   File(<<Triangle, West>>, H), File(<<West, Triangle>>, <<>>), File(<<Notched, West>>, H),
   File(<<Notched>>, H), File(<<Bay, Triangle>>, H)}
=============================================================================
