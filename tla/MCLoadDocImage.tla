--------------------------- MODULE MCLoadDocImage ---------------------------
(* LoadDocImage with two documents and four stored frames: a timer that     *)
(* outlives its document and then meets the next.                           *)
EXTENDS LoadDocImage
=============================================================================
