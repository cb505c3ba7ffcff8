--------------------------- MODULE MCImageChannel ---------------------------
(* ImageChannel with images of which some are shorter than the first.       *)
EXTENDS ImageChannel
MCSize == [i \in 1..MaxImages |-> IF i % 2 = 0 THEN 1 ELSE 2]
=============================================================================
