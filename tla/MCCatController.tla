--------------------------- MODULE MCCatController ---------------------------
(***************************************************************************)
(* The controller with two small bands.                                    *)
(***************************************************************************)
EXTENDS CatController

MCLo == [b \in Bands |-> IF b = "low" THEN 100 ELSE 300]
MCHi == [b \in Bands |-> IF b = "low" THEN 120 ELSE 310]

\* 90, 100, 300 and, with a half byte that is no digit, 110 Hz.
MCFrames == {<<0, 0, 0, 9>>, <<0, 0, 0, 16>>, <<0, 0, 0, 48>>, <<0, 0, 0, 11>>}

\* The conversions agree around every edge between two bytes.
ASSUME ConversionsAgree ==
    \A edge \in {0, 990, 1000, 99990, 100000, 9999990, 10000000, 999999000},
       f \in 0 .. 990 :
        BCD2Dec(Dec2BCD(edge + f)) = InTens(edge + f)
=============================================================================
