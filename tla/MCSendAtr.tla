----------------------------- MODULE MCSendAtr -------------------------------
(* Well-formed ATRs of up to four interface-byte groups, no historical     *)
(* bytes, in direct (3B) and inverse (3F) convention, and one invalid TS.  *)
(* A group is [ta, tb, tc, t]: its bytes (-1 when absent) and the protocol *)
(* its TD names (-1: no TD, the last group).                               *)
EXTENDS SendAtr

Y(g) == (IF g.ta # -1 THEN 1 ELSE 0) + (IF g.tb # -1 THEN 2 ELSE 0)
        + (IF g.tc # -1 THEN 4 ELSE 0) + (IF g.t # -1 THEN 8 ELSE 0)

GroupBytes(g, nextY) ==
    SelectSeq(<<g.ta, g.tb, g.tc, IF g.t = -1 THEN -1 ELSE 16 * nextY + g.t>>,
              LAMBDA b : b # -1)

RECURSIVE Body(_)
Body(gs) == IF gs = <<>> THEN <<>>
            ELSE GroupBytes(Head(gs), IF Len(gs) > 1 THEN Y(gs[2]) ELSE 0)
                 \o Body(Tail(gs))

Direct(gs) == <<\h3B, 16 * Y(gs[1])>> \o Body(gs)
Inverse(gs) == <<\h3F>> \o [i \in 1..Len(Direct(gs)) - 1 |-> 255 - Direct(gs)[i + 1]]

T(last) == IF last THEN {-1} ELSE {0, 1, 15}
G1(last) == [ta : {-1, \h96, \h18}, tb : {-1}, tc : {-1, 0}, t : T(last)]
G2(last) == [ta : {-1, \h80}, tb : {-1}, tc : {-1}, t : T(last)]
G3(last) == [ta : {-1, \hFE}, tb : {-1, \h75}, tc : {-1, 0}, t : T(last)]

Shapes ==
    {<<a>> : a \in G1(TRUE)}
    \cup {<<a, b>> : a \in G1(FALSE), b \in G2(TRUE)}
    \cup {<<a, b, c>> : a \in G1(FALSE), b \in G2(FALSE), c \in G3(TRUE)}
    \cup {<<a, b, c, d>> : a \in G1(FALSE), b \in G2(FALSE), c \in G3(FALSE),
                           d \in G3(TRUE)}

MCHostAtrs == {Direct(gs) : gs \in Shapes} \cup {Inverse(gs) : gs \in Shapes}
              \cup {<<\h3C, 0>>}
=============================================================================
