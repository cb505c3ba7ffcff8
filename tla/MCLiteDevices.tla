--------------------------- MODULE MCLiteDevices ---------------------------
(* LiteDevices with two location callbacks, of which one replaces the       *)
(* other, and two receivers of messages; which is which does not matter.    *)
EXTENDS LiteDevices, TLC

CallbacksOrBundles == Permutations(Callbacks) \cup Permutations(Bundles)
=============================================================================
