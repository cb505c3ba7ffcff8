--------------------------- MODULE ObservedValues ---------------------------
(***************************************************************************)
(* What SharedData promises to those who set a value and those who watch   *)
(* it, without flags, ticks, groups, threads or collected pairs: a value   *)
(* that is set is on offer at once, and each notification brings the       *)
(* watcher a newer value that was really set.  It may skip values.         *)
(***************************************************************************)
EXTENDS Naturals

CONSTANTS Types      (* the kinds of value                                 *)

VARIABLES latest,    (* per type: the values set so far, counted           *)
          shown      (* per type: the value its watcher was told last      *)

vars == <<latest, shown>>

Init ==
    /\ latest = [t \in Types |-> 0]
    /\ shown = [t \in Types |-> 0]

Offer(t) ==
    /\ latest' = [latest EXCEPT ![t] = @ + 1]
    /\ UNCHANGED shown

Notify(t) ==
    /\ \E v \in shown[t] + 1 .. latest[t] : shown' = [shown EXCEPT ![t] = v]
    /\ UNCHANGED latest

Next == \E t \in Types : Offer(t) \/ Notify(t)

Spec == Init /\ [][Next]_vars
=============================================================================
