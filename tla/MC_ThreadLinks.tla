--------------------------- MODULE MC_ThreadLinks ---------------------------
EXTENDS ThreadLinks, TLC
CONSTANTS s1, s2, p1, p2
TwoSecs == {s1, s2}
OneSec == {s1}
Two == {p1, p2}
OneEach == p1 :> s1 @@ p2 :> s2
One == {p1}
OnlyOne == p1 :> s1
BothOnOne == p1 :> s1 @@ p2 :> s1
=============================================================================
