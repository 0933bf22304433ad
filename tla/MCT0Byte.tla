------------------------------ MODULE MCT0Byte ------------------------------
(* T0Byte with a UICC reader sending READ BINARY (B0, case 2), SELECT     *)
(* (A4, case 4), VERIFY (20, case 3) and GET RESPONSE (C0, case 2).       *)
EXTENDS T0Byte

MCIns == {"B0", "A4", "20", "C0"}

MCInsCase == [i \in MCIns |-> IF i = "A4" THEN 4 ELSE IF i = "20" THEN 3 ELSE 2]
=============================================================================
