------------------------------ MODULE MCGenVfo ------------------------------
(***************************************************************************)
(* A genVFO object with two small bands.                                   *)
(***************************************************************************)
EXTENDS GenVfo

\* The lower and upper edges of the bands; the upper edge of "low" is not a
\* whole number of steps above its lower edge.
MCLo == [b \in Bands |-> IF b = "low" THEN 1000 ELSE 3000]
MCHi == [b \in Bands |-> IF b = "low" THEN 1500 ELSE 3800]
=============================================================================
