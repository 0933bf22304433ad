------------------------------ MODULE AtrParser ------------------------------
(***************************************************************************)
(* parse_ATR, convert_f and convert_d (util.c 757-944) as operators over  *)
(* the ATR bytes, and a reference parse written from spec section 4.2 and *)
(* the ISO 7816-3 layout of interface bytes, to compare them with.  The    *)
(* operators are used by RelaySupervisor and checked by SendAtr.           *)
(*                                                                         *)
(* An ATR is a sequence of bytes, TS first.  work_etu, BWT_us and CWT_us   *)
(* are arithmetic on F, D, BWI, CWI and the clock and are left out: they   *)
(* are right exactly when those fields are.                                *)
(***************************************************************************)
EXTENDS Integers, Sequences, FiniteSets, TLC

\* The byte at C index k of the payload.
At(p, k) == p[k + 1]

\* (b >> k) % 2
Bit(b, k) == (b \div 2^k) % 2

\* util.c 757-783: F by the upper nibble of TA1.
FiTable == (2 :> 558) @@ (3 :> 744) @@ (4 :> 1116) @@ (5 :> 1408)
           @@ (6 :> 1860) @@ (9 :> 512) @@ (10 :> 768) @@ (11 :> 1024)
           @@ (12 :> 1536) @@ (13 :> 2048)
convert_f(ta1) == IF ta1 \div 16 \in DOMAIN FiTable THEN FiTable[ta1 \div 16]
                  ELSE 372

\* util.c 791-815: D by the lower nibble of TA1.
DiTable == (1 :> 1) @@ (2 :> 2) @@ (3 :> 4) @@ (4 :> 8) @@ (5 :> 16)
           @@ (6 :> 32) @@ (8 :> 12) @@ (9 :> 20)
convert_d(ta1) == IF ta1 % 16 \in DOMAIN DiTable THEN DiTable[ta1 % 16] ELSE 1

\* util.c 826-833: TS becomes 3B and every later byte is complemented.
Invert(p) == <<\h3B>> \o [i \in 1..Len(p) - 1 |-> 255 - p[i + 1]]

\* util.c 845-850: the defaults a valid TS starts from.
Defaults == [valid |-> TRUE, D |-> 1, F |-> 372, IFSC |-> 32, BWI |-> 4,
             CWI |-> 13, protocol |-> 2]

\* util.c 840-843: an invalid TS returns before any field is set.
Unparsed == [valid |-> FALSE]

\* Mutant: the reset of F and D for another protocol left out.
ApplyTD1_no_reset(t, td1) ==
    CASE td1 % 16 = 1 -> [t EXCEPT !.protocol = 1]
      [] td1 % 16 = 0 -> [t EXCEPT !.protocol = 0]
      [] OTHER        -> t

\* util.c 866-878: TD1 names the protocol; TA1 was meant for another one
\* when it names neither T=0 nor T=1.
ApplyTD1(t, td1) ==
    CASE td1 % 16 = 1 -> [t EXCEPT !.protocol = 1]
      [] td1 % 16 = 0 -> [t EXCEPT !.protocol = 0]
      [] OTHER        -> [t EXCEPT !.D = 1, !.F = 372]

(***************************************************************************)
(* util.c 897-924: one pass of the while loop per TD_now = TD_next >= 16. *)
(* A pass reads TA (IFSC) and TB (BWI, CWI) of the group TD_now announces, *)
(* skips TC and takes the next TD; it keeps the values when that next TD,  *)
(* or TD_now itself if there is none, names T=0 or T=1.                    *)
(***************************************************************************)
\* Mutant: BWI taken as the whole TB byte.
BwiOf_unshifted(tb) == tb

\* util.c 909-910: BWI and CWI are the nibbles of TB.
BwiOf(tb) == tb \div 16

CwiOf(tb) == tb % 16

RECURSIVE TdLoop(_, _, _, _)
TdLoop(p, index, td_next, t) ==
    IF td_next < 16 THEN t
    ELSE LET td_now == td_next
             iB == index + Bit(td_now, 4)
             iC == iB + Bit(td_now, 5)
             iD == iC + Bit(td_now, 6)
             ifsc == IF Bit(td_now, 4) = 1 THEN At(p, index) ELSE 32
             bwi == IF Bit(td_now, 5) = 1 THEN BwiOf(At(p, iB)) ELSE 4
             cwi == IF Bit(td_now, 5) = 1 THEN CwiOf(At(p, iB)) ELSE 13
             nxt == IF Bit(td_now, 7) = 1 THEN At(p, iD) ELSE 0
             keep == IF Bit(td_now, 7) = 1 THEN nxt % 16 <= 1
                     ELSE td_now % 16 <= 1
             t2 == IF keep THEN [t EXCEPT !.IFSC = ifsc, !.BWI = bwi, !.CWI = cwi]
                   ELSE t
         IN TdLoop(p, iD + Bit(td_now, 7), nxt, t2)

\* util.c 852-925 for a payload whose TS is 3B.
ParseBody(p) ==
    LET t0 == At(p, 1)
        i1 == 2 + Bit(t0, 4)                      \* past TA1
        i3 == i1 + Bit(t0, 5) + Bit(t0, 6)        \* past TB1, TC1
        td1 == IF Bit(t0, 7) = 1 THEN At(p, i3) ELSE 0
        i4 == i3 + Bit(t0, 7)                     \* past TD1
        withTA1 == IF Bit(t0, 4) = 1
                     THEN [Defaults EXCEPT !.D = convert_d(At(p, 2)),
                                           !.F = convert_f(At(p, 2))]
                     ELSE Defaults
        t == IF Bit(t0, 7) = 1 THEN ApplyTD1(withTA1, td1) ELSE withTA1
        i5 == i4 + Bit(td1, 4) + Bit(td1, 5) + Bit(td1, 6)   \* past TA2..TC2
        td2 == IF Bit(td1, 7) = 1 THEN At(p, i5) ELSE 0
    IN TdLoop(p, i5 + Bit(td1, 7), td2, t)

\* util.c 823-944
RECURSIVE parse_ATR(_)
parse_ATR(p) ==
    CASE p[1] = \h3F -> parse_ATR(Invert(p))
      [] p[1] = \h3B -> ParseBody(p)
      [] OTHER         -> Unparsed

(***************************************************************************)
(* The reference, from spec section 4.2 and ISO 7816-3.  The interface    *)
(* bytes form groups: group i is TAi, TBi, TCi, TDi as far as present,    *)
(* announced by the upper nibble of T0 (i = 1) or of TD(i-1); absent      *)
(* bytes are -1.  Groups from the third on that follow a TD naming T=1    *)
(* carry the T=1 parameters, the first of them IFSC (TA) and BWI/CWI (TB). *)
(***************************************************************************)
RECURSIVE Groups(_, _, _)
Groups(p, y, pos) ==
    LET has(k) == Bit(y, 4 + k) = 1
        posOf(k) == pos + Cardinality({j \in 0..k - 1 : has(j)})
        byte(k) == IF has(k) THEN p[posOf(k)] ELSE -1
        g == [ta |-> byte(0), tb |-> byte(1), tc |-> byte(2), td |-> byte(3)]
    IN IF has(3) THEN <<g>> \o Groups(p, g.td, posOf(3) + 1) ELSE <<g>>

\* The conversion tables of spec section 4.2, indexed by nibble + 1.
SpecF == <<372, 372, 558, 744, 1116, 1408, 1860, 372,
           372, 512, 768, 1024, 1536, 2048, 372, 372>>
SpecD == <<1, 1, 2, 4, 8, 16, 32, 1, 12, 20, 1, 1, 1, 1, 1, 1>>

RECURSIVE Reference(_)
Reference(p) ==
    CASE p[1] = \h3F ->
           Reference([i \in DOMAIN p |-> IF i = 1 THEN \h3B ELSE 255 - p[i]])
      [] p[1] # \h3B -> [valid |-> FALSE]
      [] OTHER ->
           LET G == Groups(p, p[2], 3)
               td1 == G[1].td
               ta1 == G[1].ta
               forOther == td1 # -1 /\ td1 % 16 \notin {0, 1}
               T1 == {i \in 3..Len(G) : G[i - 1].td % 16 = 1}
               first == CHOOSE i \in T1 : \A j \in T1 : i <= j
               ta == IF T1 = {} THEN -1 ELSE G[first].ta
               tb == IF T1 = {} THEN -1 ELSE G[first].tb
           IN [valid |-> TRUE,
               F |-> IF ta1 = -1 \/ forOther THEN 372 ELSE SpecF[(ta1 \div 16) + 1],
               D |-> IF ta1 = -1 \/ forOther THEN 1 ELSE SpecD[(ta1 % 16) + 1],
               protocol |-> IF td1 # -1 /\ td1 % 16 \in {0, 1} THEN td1 % 16 ELSE 2,
               IFSC |-> IF ta = -1 THEN 32 ELSE ta,
               BWI |-> IF tb = -1 THEN 4 ELSE tb \div 16,
               CWI |-> IF tb = -1 THEN 13 ELSE tb % 16]
=============================================================================
