----------------------------- MODULE MCLiteApp -----------------------------
(* A timer of the application, with the delay 0 or 1, and two works.        *)
EXTENDS LiteApp
CONSTANT n1
=============================================================================
