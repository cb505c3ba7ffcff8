---------------------------- MODULE DelayedTasks ----------------------------
(***************************************************************************)
(* What the main-thread task queue of the rich previewer promises to the   *)
(* threads that post to it, without queue, mutex, snapshot of the clock or *)
(* batch: a submitted task is performed at most once, never before it is   *)
(* due, and never ahead of a task that was submitted earlier and is due no *)
(* later.  EventRunner implements it.                                      *)
(***************************************************************************)
EXTENDS Naturals

CONSTANTS Posters,   (* threads that post tasks                            *)
          Delays     (* the delays they ask for, in clock ticks            *)

VARIABLES now,       (* the steady clock                                   *)
          submitted, (* how many tasks were submitted so far               *)
          pending,   (* submitted and not yet performed                    *)
          done,      (* performed                                          *)
          closed     (* the loop that performs the tasks has ended         *)

vars == <<now, submitted, pending, done, closed>>

\* t must not be performed before u.
MustWaitFor(t, u) == u.order < t.order /\ u.due <= t.due

Init ==
    /\ now = 0
    /\ submitted = 0
    /\ pending = {}
    /\ done = {}
    /\ closed = FALSE

Advance ==
    /\ now' = now + 1
    /\ UNCHANGED <<submitted, pending, done, closed>>

\* The due time of a task counts from a moment at or before its submission.
Submit(p, d) ==
    \E start \in 0..now :
        /\ submitted' = submitted + 1
        /\ pending' = pending \cup
             {[order |-> submitted + 1, due |-> start + d,
               delay |-> d, poster |-> p]}
        /\ UNCHANGED <<now, done, closed>>

Perform(t) ==
    /\ ~closed
    /\ t \in pending
    /\ t.due <= now
    /\ \A u \in pending : ~MustWaitFor(t, u)
    /\ pending' = pending \ {t}
    /\ done' = done \cup {t}
    /\ UNCHANGED <<now, submitted, closed>>

\* Whatever is still pending when the loop ends is dropped.
Close ==
    /\ closed' = TRUE
    /\ UNCHANGED <<now, submitted, pending, done>>

Next ==
    \/ Advance
    \/ \E p \in Posters, d \in Delays : Submit(p, d)
    \/ \E t \in pending : Perform(t)
    \/ Close

Spec == Init /\ [][Next]_vars
=============================================================================
