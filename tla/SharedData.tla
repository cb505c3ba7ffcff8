----------------------------- MODULE SharedData -----------------------------
(***************************************************************************)
(* The device state that commands change and the application observes      *)
(* (util/SharedData.h, util/SharedDataManager.cpp).  SharedData<T> keeps   *)
(* one map and one mutex for each value type T, here called a group.  A    *)
(* thread polls with SharedDataManager::CheckTick every 100 ms: group by   *)
(* group it collects what changed under the group's mutex and then calls   *)
(* back without it, so a value can change again while it is delivered.     *)
(*                                                                         *)
(* Every type has one consumer, as in ThinPreviewer.cpp and                *)
(* jsapp/lite/JsAppImpl.cpp.  A value is abstracted to its place in the    *)
(* sequence of the values that SetData accepted (version); a value out of  *)
(* the range of its type is rejected and changes nothing.                  *)
(***************************************************************************)
EXTENDS Naturals

CONSTANTS Types,     (* members of SharedDataType                          *)
          Groups,    (* the value types of the template                    *)
          GroupOf,   (* Types -> Groups                                    *)
          Threads,   (* polling threads                                    *)
          Consumer,  (* the thread that registers a callback for a type    *)
          Period,    (* and the period that it asks for, in polls          *)
          Wrap,      (* the tick counter is a uint32_t: 2^32 in the code   *)
          MaxSets    (* bound on the accepted changes of one type          *)

ASSUME MapsAssumption ==
    /\ GroupOf \in [Types -> Groups]
    /\ Consumer \in [Types -> Threads]
    /\ Period \in [Types -> Nat \ {0}]
ASSUME BoundsAssumption == Wrap \in Nat \ {0} /\ MaxSets \in Nat

VARIABLES
    version,    (* per type: the value, as the number of accepted changes  *)
    isChanged,  (* per type                                                *)
    callBacks,  (* the types whose consumer has registered                 *)
    ticks,      (* per type: its consumer's polls                          *)
    polling,    (* the threads that have entered their loop                *)
    todo,       (* per thread: the groups left in the poll under way       *)
    pairs,      (* per thread: collected and not yet called back           *)
    seen,       (* per type: the version its callback saw last             *)
    gap         (* per type: polls since it was collected, up to Period    *)

dataVars == <<version, isChanged>>
pollVars == <<ticks, gap>>
vars == <<dataVars, callBacks, pollVars, polling, todo, pairs, seen>>

Pair == [type : Types, version : Nat]

\* The flags, counters and collected pairs; a tick that wraps stays a number.
TypeOK ==
    /\ version \in [Types -> Nat]
    /\ isChanged \in [Types -> BOOLEAN]
    /\ callBacks \subseteq Types
    /\ ticks \in [Types -> Nat]
    /\ polling \subseteq Threads
    /\ todo \in [Threads -> SUBSET Groups]
    /\ pairs \in [Threads -> SUBSET Pair]
    /\ seen \in [Types -> Nat]
    /\ gap \in [Types -> Nat]

\* InitSharedData creates every type before any thread polls.
Init ==
    /\ version = [t \in Types |-> 0]
    /\ isChanged = [t \in Types |-> FALSE]
    /\ callBacks = {}
    /\ ticks = [t \in Types |-> 0]
    /\ polling = {}
    /\ todo = [th \in Threads |-> {}]
    /\ pairs = [th \in Threads |-> {}]
    /\ seen = [t \in Types |-> 0]
    /\ gap = Period

-----------------------------------------------------------------------------
\* Mutant: no mark while the consumer is being called back.
SetDataWhileQuiet(t) ==
    /\ version[t] < MaxSets
    /\ version' = [version EXCEPT ![t] = @ + 1]
    /\ isChanged' = [isChanged EXCEPT ![t] = @ \/ pairs[Consumer[t]] = {}]
    /\ UNCHANGED <<callBacks, pollVars, polling, todo, pairs, seen>>

\* SetData of a value that is accepted.
SetData(t) ==
    /\ version[t] < MaxSets
    /\ version' = [version EXCEPT ![t] = @ + 1]
    /\ isChanged' = [isChanged EXCEPT ![t] = TRUE]
    /\ UNCHANGED <<callBacks, pollVars, polling, todo, pairs, seen>>

\* AppendNotify, which a consumer calls before it enters its loop.
AppendNotify(t) ==
    /\ Consumer[t] \notin polling
    /\ t \notin callBacks
    /\ callBacks' = callBacks \cup {t}
    /\ UNCHANGED <<dataVars, pollVars, polling, todo, pairs, seen>>

EnterLoop(th) ==
    /\ th \notin polling
    /\ \A t \in Types : Consumer[t] = th => t \in callBacks
    /\ polling' = polling \cup {th}
    /\ UNCHANGED <<dataVars, callBacks, pollVars, todo, pairs, seen>>

\* CheckTick: the timer of a polling thread fires.
CheckTick(th) ==
    /\ th \in polling
    /\ todo[th] = {} /\ pairs[th] = {}
    /\ todo' = [todo EXCEPT ![th] = Groups]
    /\ UNCHANGED <<dataVars, callBacks, pollVars, polling, pairs, seen>>

\* Mutant: Check does not look at the thread that registered.
PollsForAll(th, g) == {t \in Types : GroupOf[t] = g}

\* The types of a group whose callback is to be made in this thread.
Polls(th, g) == {t \in Types : GroupOf[t] = g /\ Consumer[t] = th}

NextTick(t) == (ticks[t] + 1) % Wrap

\* Mutant: the period is forgotten.
CollectsAtOnce(t) == t \in callBacks /\ isChanged[t]

\* Mutant: the tick has to equal the period instead of being a multiple.
CollectsOnce(t) == t \in callBacks /\ isChanged[t] /\ NextTick(t) = Period[t]

\* Check: changed, and the consumer's period is over.
Collects(t) ==
    t \in callBacks /\ isChanged[t] /\ NextTick(t) % Period[t] = 0

\* CheckAll up to the unlock: one group is collected under its mutex.
CheckAll(th, g) ==
    /\ g \in todo[th]
    /\ pairs[th] = {}
    /\ todo' = [todo EXCEPT ![th] = @ \ {g}]
    /\ ticks' = [t \in Types |->
                   IF t \in Polls(th, g) THEN NextTick(t) ELSE ticks[t]]
    /\ LET collected == {t \in Polls(th, g) : Collects(t)}
       IN  /\ pairs' = [pairs EXCEPT ![th] =
                          {[type |-> t, version |-> version[t]] : t \in collected}]
           /\ isChanged' = [t \in Types |-> isChanged[t] /\ t \notin collected]
           /\ gap' = [t \in Types |->
                        IF t \in collected THEN 0
                        ELSE IF t \in Polls(th, g) /\ gap[t] < Period[t]
                             THEN gap[t] + 1 ELSE gap[t]]
    /\ UNCHANGED <<version, callBacks, polling, seen>>

\* CheckAll after the unlock: one callback gets the value that was collected.
CallBack(th, p) ==
    /\ p \in pairs[th]
    /\ pairs' = [pairs EXCEPT ![th] = @ \ {p}]
    /\ seen' = [seen EXCEPT ![p.type] = p.version]
    /\ UNCHANGED <<dataVars, callBacks, pollVars, polling, todo>>

Poll(th) ==
    \/ \E t \in Types : Consumer[t] = th /\ AppendNotify(t)
    \/ EnterLoop(th)
    \/ CheckTick(th)
    \/ \E g \in Groups : CheckAll(th, g)
    \/ \E p \in pairs[th] : CallBack(th, p)

Next ==
    \/ \E t \in Types : SetData(t)
    \/ \E th \in Threads : Poll(th)

Spec == Init /\ [][Next]_vars

\* The polling threads start and their timers keep firing.
FairSpec == Spec /\ \A th \in Threads : WF_vars(Poll(th))
-----------------------------------------------------------------------------
\* What a change is waiting in: the flag, or a pair that its consumer collected
\* and has not called back yet.  A change is lost as soon as this breaks.
NoLostChange ==
    \A t \in Types :
        \/ isChanged[t]
        \/ seen[t] = version[t]
        \/ [type |-> t, version |-> version[t]] \in pairs[Consumer[t]]

\* Each accepted change reaches the consumer, itself or as a later one, also
\* when it is made before the consumer registers or while it is called back.
ChangeIsDelivered ==
    \A t \in Types : \A n \in 1..MaxSets :
        version[t] = n ~> seen[t] >= n

\* The two sides of a value see no flags, ticks, groups or pairs.
Observed == INSTANCE ObservedValues WITH latest <- version, shown <- seen

\* Collecting under the mutex and calling back without it implements the plain
\* notification of ObservedValues: whatever the polls, a watcher is told only of
\* values that were set, and of newer ones than before.
KeepsWatchersInformed == Observed!Spec

\* A consumer is not called back twice within the period it asked for.
Paced ==
    [][\A t \in Types :
          (\E p \in pairs'[Consumer[t]] \ pairs[Consumer[t]] : p.type = t)
             => gap[t] + 1 >= Period[t]]_vars
=============================================================================
