----------------------------- MODULE EventRunner -----------------------------
(***************************************************************************)
(* The task queue of the rich previewer's main thread                      *)
(* (jsapp/rich/external: EventHandler, EventRunner, EventQueue) and the    *)
(* loop of JsAppImpl::Start that drains it.                                *)
(*                                                                         *)
(* The command thread and the callbacks that the loop itself runs post     *)
(* tasks.  PostTask reads the clock before PushTask takes the queue mutex, *)
(* and Run reads the clock before it takes the mutex, so another thread    *)
(* can act in between; Run executes what it drained with the mutex free.   *)
(***************************************************************************)
EXTENDS Naturals, Sequences

CONSTANTS Posters,   (* threads that post tasks                            *)
          Main,      (* the poster that is the main thread itself          *)
          Delays,    (* delays asked for, in clock ticks                   *)
          Idle,      (* "this poster is not inside PostTask"               *)
          MaxTasks,  (* bound on the tasks posted in a behaviour           *)
          MaxTime    (* bound on the clock                                 *)

ASSUME PostersAssumption == Main \in Posters
ASSUME DelaysAssumption == Delays \subseteq Nat
ASSUME IdleAssumption == Idle \notin [due : Nat, delay : Delays]
ASSUME BoundsAssumption == MaxTasks \in Nat /\ MaxTime \in Nat

VARIABLES
    now,       (* std::chrono::steady_clock::now()                         *)
    posting,   (* per poster: the due time computed but not yet pushed     *)
    order,     (* PushTask's static counter                                *)
    queue,     (* the priority queue, as the set of its tasks              *)
    snapshot,  (* Run's local now                                          *)
    log,       (* every task ever drained into copyTasks, in that order    *)
    ran,       (* how many tasks of log have been executed                 *)
    runner,    (* where the main thread is                                 *)
    isStop     (* JsAppImpl::isStop                                        *)

vars == <<now, posting, order, queue, snapshot, log, ran, runner, isStop>>

Task == [order : Nat, due : Nat, delay : Delays, poster : Posters]

RunnerStates == {"idle", "locking", "draining", "flushing", "exited"}

\* Numbers, tasks and program points of the queue; due times are natural numbers
\* because a delay is added to the clock and never subtracted.
TypeOK ==
    /\ now \in Nat
    /\ posting \in [Posters -> [due : Nat, delay : Delays] \cup {Idle}]
    /\ order \in Nat
    /\ queue \subseteq Task
    /\ snapshot \in Nat
    /\ log \in Seq(Task)
    /\ ran \in Nat
    /\ runner \in RunnerStates
    /\ isStop \in BOOLEAN

Init ==
    /\ now = 0
    /\ posting = [p \in Posters |-> Idle]
    /\ order = 0
    /\ queue = {}
    /\ snapshot = 0
    /\ log = <<>>
    /\ ran = 0
    /\ runner = "idle"
    /\ isStop = FALSE

-----------------------------------------------------------------------------
\* Mutant of Before: operator> compares the due times and forgets the order.
BeforeByDue(a, b) == a.due <= b.due

\* std::greater on EventTask: b comes out of the priority queue after a.
Before(a, b) ==
    IF a.due = b.due THEN a.order < b.order ELSE a.due < b.due

\* t is queue.top().
IsTop(t) == t \in queue /\ \A u \in queue : u = t \/ Before(t, u)

Expired(t) == t.due <= snapshot

\* The queue mutex is held across the drain; a push holds it for one step.
MutexFree == runner # "draining"

\* The main thread posts only from inside a task that it is executing.
CanPost(p) == p = Main => runner = "flushing" /\ ran < Len(log)

Tick ==
    /\ now < MaxTime
    /\ now' = now + 1
    /\ UNCHANGED <<posting, order, queue, snapshot, log, ran, runner, isStop>>

\* EventHandler::PostTask: the due time is computed before the mutex is taken.
PostTask(p, d) ==
    /\ CanPost(p)
    /\ posting[p] = Idle
    /\ order < MaxTasks
    /\ now + d <= MaxTime
    /\ posting' = [posting EXCEPT ![p] = [due |-> now + d, delay |-> d]]
    /\ UNCHANGED <<now, order, queue, snapshot, log, ran, runner, isStop>>

\* Mutant of PushTask: the counter is a plain local, every task is number 1.
PushTaskLocalOrder(p) ==
    /\ posting[p] # Idle
    /\ MutexFree
    /\ order' = order + 1
    /\ queue' = queue \cup
         {[order |-> 1, due |-> posting[p].due,
           delay |-> posting[p].delay, poster |-> p]}
    /\ posting' = [posting EXCEPT ![p] = Idle]
    /\ UNCHANGED <<now, snapshot, log, ran, runner, isStop>>

\* EventRunner::PushTask.
PushTask(p) ==
    /\ posting[p] # Idle
    /\ MutexFree
    /\ order' = order + 1
    /\ queue' = queue \cup
         {[order |-> order', due |-> posting[p].due,
           delay |-> posting[p].delay, poster |-> p]}
    /\ posting' = [posting EXCEPT ![p] = Idle]
    /\ UNCHANGED <<now, snapshot, log, ran, runner, isStop>>

\* The loop test of JsAppImpl::Start and the first statement of Run.
ReadClock ==
    /\ runner = "idle"
    /\ ~isStop
    /\ snapshot' = now
    /\ runner' = "locking"
    /\ UNCHANGED <<now, posting, order, queue, log, ran, isStop>>

LockQueue ==
    /\ runner = "locking"
    /\ runner' = "draining"
    /\ UNCHANGED <<now, posting, order, queue, snapshot, log, ran, isStop>>

\* One turn of Run's while loop, mutex held.
PopExpired(t) ==
    /\ runner = "draining"
    /\ IsTop(t)
    /\ Expired(t)
    /\ log' = Append(log, t)
    /\ queue' = queue \ {t}
    /\ UNCHANGED <<now, posting, order, snapshot, ran, runner, isStop>>

\* Mutant of UnlockQueue: the queue is cleared after the drain.
UnlockQueueClearing ==
    /\ runner = "draining"
    /\ \A t \in queue : IsTop(t) => ~Expired(t)
    /\ runner' = "flushing"
    /\ queue' = {}
    /\ UNCHANGED <<now, posting, order, snapshot, log, ran, isStop>>

\* The queue is empty or its top is not due: Run leaves the locked block.
UnlockQueue ==
    /\ runner = "draining"
    /\ \A t \in queue : IsTop(t) => ~Expired(t)
    /\ runner' = "flushing"
    /\ UNCHANGED <<now, posting, order, queue, snapshot, log, ran, isStop>>

\* One callback of the batch ends; whatever it posted was pushed before.
RunTask ==
    /\ runner = "flushing"
    /\ ran < Len(log)
    /\ posting[Main] = Idle
    /\ ran' = ran + 1
    /\ UNCHANGED <<now, posting, order, queue, snapshot, log, runner, isStop>>

EndRun ==
    /\ runner = "flushing"
    /\ ran = Len(log)
    /\ runner' = "idle"
    /\ UNCHANGED <<now, posting, order, queue, snapshot, log, ran, isStop>>

\* JsAppImpl::Interrupt, called by the command thread at any moment.
Interrupt ==
    /\ ~isStop
    /\ isStop' = TRUE
    /\ UNCHANGED <<now, posting, order, queue, snapshot, log, ran, runner>>

\* The loop test fails; tasks still queued are never executed.
ExitLoop ==
    /\ runner = "idle"
    /\ isStop
    /\ runner' = "exited"
    /\ UNCHANGED <<now, posting, order, queue, snapshot, log, ran, isStop>>

Run ==
    \/ ReadClock
    \/ LockQueue
    \/ \E t \in queue : PopExpired(t)
    \/ UnlockQueue
    \/ RunTask
    \/ EndRun
    \/ ExitLoop

Next ==
    \/ Tick
    \/ \E p \in Posters, d \in Delays : PostTask(p, d)
    \/ \E p \in Posters : PushTask(p)
    \/ Run
    \/ Interrupt

Spec == Init /\ [][Next]_vars

\* Time passes and the threads the operating system schedules make progress;
\* nobody is obliged to post a task or to stop the application.
FairSpec ==
    /\ Spec
    /\ WF_vars(Tick)
    /\ WF_vars(Run)
    /\ \A p \in Posters : WF_vars(PushTask(p))
-----------------------------------------------------------------------------
Executed == {log[i] : i \in 1..ran}
Batch == {log[i] : i \in (ran + 1)..Len(log)}

\* Every task that was ever pushed is in exactly one place: still queued, or
\* drained once into a batch.  A drain that loses a task, or runs one twice,
\* breaks this (EventRunner::Run moves tasks from queue to copyTasks).
NothingLostOrRepeated ==
    /\ \A o \in 1..order :
          \/ \E t \in queue : t.order = o
          \/ \E i \in 1..Len(log) : log[i].order = o
    /\ \A i, j \in 1..Len(log) : log[i].order = log[j].order => i = j
    /\ \A i \in 1..Len(log), t \in queue : log[i].order # t.order
    /\ \A t, u \in queue : t.order = u.order => t = u

\* No task is drained before it is due, whatever the moment at which the
\* clock was read relative to the pushes of other threads.
NeverEarly ==
    /\ snapshot <= now
    /\ \A i \in 1..Len(log) : log[i].due <= snapshot

\* Across batches and threads, a task pushed earlier and due no later is
\* never overtaken (EventTask::operator> and the drain of a whole prefix).
NoOvertaking ==
    \A i, j \in 1..Len(log) :
        i < j => ~(log[j].order < log[i].order /\ log[j].due <= log[i].due)

\* Tasks that one thread posts with the same delay are executed in the order
\* of the calls: the SetWindowSize of the last resolution command is the last
\* one the window sees.
PosterFifo ==
    \A i, j \in 1..Len(log) :
        /\ log[i].poster = log[j].poster
        /\ log[i].delay = log[j].delay
        /\ log[i].order < log[j].order
        => i < j

\* The loop never ends in the middle of a batch: an Interrupt that arrives
\* while callbacks run lets the drained ones finish.
StopFinishesBatch == runner \in {"idle", "exited"} => ran = Len(log)

\* A pushed task is executed unless the application is stopped first.
EveryTaskRuns ==
    \A o \in 1..MaxTasks :
        order >= o ~> \/ \E i \in 1..ran : log[i].order = o
                     \/ runner = "exited"

\* The queue keeps the promise of DelayedTasks: mutex, snapshot and batch are
\* invisible to those who post.
Promise == INSTANCE DelayedTasks
             WITH submitted <- order,
                  pending <- queue \cup Batch,
                  done <- Executed,
                  closed <- runner = "exited"

\* Run, with its clock read, its drained batch and its mutex, implements the
\* abstract queue: every step is a step of DelayedTasks or invisible to it.
KeepsPromise == Promise!Spec
=============================================================================
