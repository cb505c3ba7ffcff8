-------------------------- MODULE EventRunnerProofs --------------------------
(***************************************************************************)
(* Proofs about EventRunner for every set of posters and delays and every  *)
(* bound.  The invariant IInv says, beyond the properties themselves, how  *)
(* the tasks still queued and the due times not yet pushed relate to the   *)
(* tasks already drained.                                                  *)
(***************************************************************************)
EXTENDS EventRunner, TLAPS

\* Every task pushed so far.
Known == queue \cup {log[i] : i \in 1..Len(log)}

\* The numbers given out so far are 1..order.
Numbered == \A t \in Known : t.order \in 1..order

\* A due time lies between the moment of the call and the present, plus delay.
DueBounds ==
    /\ \A t \in Known : t.due <= now + t.delay
    /\ \A p \in Posters :
         posting[p] # Idle =>
            /\ posting[p].due <= now + posting[p].delay
            /\ posting[p].delay <= posting[p].due

\* No queued task should have been drained before one that was drained.
QueueBehindLog ==
    \A i \in 1..Len(log), u \in queue :
        ~(u.order < log[i].order /\ u.due <= log[i].due)

\* Per poster and delay, due times grow with the order of the pushes.
DueMonotone ==
    /\ \A t, u \in Known :
         t.poster = u.poster /\ t.delay = u.delay /\ t.order < u.order
            => t.due <= u.due
    /\ \A t \in Known :
         posting[t.poster] # Idle /\ posting[t.poster].delay = t.delay
            => t.due <= posting[t.poster].due

BatchBounds ==
    /\ ran <= Len(log)
    /\ runner \in {"idle", "locking", "exited"} => ran = Len(log)

IInv ==
    /\ TypeOK
    /\ Numbered
    /\ DueBounds
    /\ NothingLostOrRepeated
    /\ NeverEarly
    /\ NoOvertaking
    /\ QueueBehindLog
    /\ DueMonotone
    /\ BatchBounds
-----------------------------------------------------------------------------
\* Steps that touch neither the queue, nor what was drained, nor a due time.
QuietStep ==
    \/ ReadClock \/ LockQueue \/ UnlockQueue \/ RunTask \/ EndRun
    \/ ExitLoop \/ Tick \/ Interrupt \/ UNCHANGED vars

\* Each variable keeps its type: the clock, the counters, the queue of tasks
\* and the history of drains of EventRunner stay what the code declares.
THEOREM TypeCorrect == Spec => []TypeOK
<1>1. Init => TypeOK
  <2> SUFFICES ASSUME Init
               PROVE  TypeOK
    OBVIOUS
  <2>1. isStop \in BOOLEAN
    BY Zenon DEF Init
  <2> QED
    BY <2>1 DEF Init, TypeOK, RunnerStates
<1>2. TypeOK /\ [Next]_vars => TypeOK'
  <2> SUFFICES ASSUME TypeOK, [Next]_vars
               PROVE  TypeOK'
    OBVIOUS
  <2> USE DEF TypeOK, RunnerStates
  <2>1. CASE QuietStep
    <3>1. isStop' \in BOOLEAN
      BY <2>1, Zenon DEF QuietStep, ReadClock, LockQueue, UnlockQueue, RunTask,
                         EndRun, ExitLoop, Tick, Interrupt, vars
    <3> QED
      BY <2>1, <3>1 DEF QuietStep, ReadClock, LockQueue, UnlockQueue, RunTask,
                        EndRun, ExitLoop, Tick, Interrupt, vars
  <2>2. ASSUME NEW p \in Posters, NEW d \in Delays, PostTask(p, d)
        PROVE  TypeOK'
    BY <2>2, DelaysAssumption DEF PostTask
  <2>3. ASSUME NEW p \in Posters, PushTask(p)
        PROVE  TypeOK'
    <3>1. posting[p] \in [due : Nat, delay : Delays]
      BY <2>3, IdleAssumption DEF PushTask
    <3>2. queue' \subseteq Task
      BY <2>3, <3>1 DEF PushTask, Task
    <3> QED
      BY <2>3, <3>2 DEF PushTask
  <2>4. ASSUME NEW t \in queue, PopExpired(t)
        PROVE  TypeOK'
    <3>1. log' \in Seq(Task)
      BY <2>4 DEF PopExpired
    <3> QED
      BY <2>4, <3>1 DEF PopExpired
  <2> QED
    BY <2>1, <2>2, <2>3, <2>4 DEF Next, Run, QuietStep
<1>3. QED
  BY <1>1, <1>2, PTL DEF Spec

-----------------------------------------------------------------------------
\* What the state says of the tasks known, as typed records.
LEMMA KnownTyped ==
  ASSUME TypeOK
  PROVE  /\ Len(log) \in Nat
         /\ Known \subseteq Task
         /\ \A i \in 1..Len(log) : log[i] \in Known /\ log[i] \in Task
         /\ queue \subseteq Known
BY DEF TypeOK, Known

\* What a quiet step leaves alone.
LEMMA QuietEffect ==
  ASSUME TypeOK, QuietStep
  PROVE  /\ UNCHANGED <<posting, order, queue, log>>
         /\ now' \in Nat /\ now <= now'
BY DEF QuietStep, ReadClock, LockQueue, UnlockQueue, RunTask, EndRun,
       ExitLoop, Tick, Interrupt, vars, TypeOK

\* A push adds one task, numbered after all the others, to what is known.
LEMMA PushEffect ==
  ASSUME TypeOK, NEW p \in Posters, PushTask(p)
  PROVE  LET t == [order |-> order + 1, due |-> posting[p].due,
                   delay |-> posting[p].delay, poster |-> p]
         IN  /\ posting[p] \in [due : Nat, delay : Delays]
             /\ order' = order + 1
             /\ queue' = queue \cup {t}
             /\ Known' = Known \cup {t}
             /\ posting' = [posting EXCEPT ![p] = Idle]
             /\ UNCHANGED <<now, snapshot, log, ran, runner>>
BY IdleAssumption DEF PushTask, Known, TypeOK

\* A pop moves the top of the queue to the end of the log.
LEMMA PopEffect ==
  ASSUME TypeOK, NEW t \in queue, PopExpired(t)
  PROVE  /\ Len(log') = Len(log) + 1
         /\ \A i \in 1..Len(log) : log'[i] = log[i]
         /\ log'[Len(log) + 1] = t
         /\ queue' = queue \ {t}
         /\ Known' = Known
         /\ UNCHANGED <<now, posting, order, snapshot, ran, runner>>
<1>1. /\ Len(log') = Len(log) + 1
      /\ \A i \in 1..Len(log) : log'[i] = log[i]
      /\ log'[Len(log) + 1] = t
  BY DEF PopExpired, TypeOK
<1>2. Known' = Known
  <2>1. Len(log) \in Nat
    BY DEF TypeOK
  <2>2. {log'[i] : i \in 1..Len(log')} = {log[i] : i \in 1..Len(log)} \cup {t}
    BY <1>1, <2>1
  <2> QED
    BY <2>2 DEF Known, PopExpired
<1> QED
  BY <1>1, <1>2 DEF PopExpired

-----------------------------------------------------------------------------
\* The runner never executes a task before it is due and never leaves a batch
\* half executed: not when the clock moves or other threads push in between,
\* and not when Interrupt arrives while callbacks run.
THEOREM BatchSafety == Spec => [](NeverEarly /\ BatchBounds)
<1> DEFINE Inv == NeverEarly /\ BatchBounds
<1>1. Init => Inv
  BY DEF Init, NeverEarly, BatchBounds
<1>2. TypeOK /\ Inv /\ [Next]_vars => Inv'
  <2> SUFFICES ASSUME TypeOK, Inv, [Next]_vars
               PROVE  Inv'
    OBVIOUS
  <2> USE DEF NeverEarly, BatchBounds
  <2>0. /\ Len(log) \in Nat
        /\ \A i \in 1..Len(log) : log[i].due \in Nat
    BY KnownTyped DEF Task
  <2>1. CASE QuietStep
    <3>1. CASE ReadClock
      BY <2>0, <3>1 DEF ReadClock, TypeOK
    <3>2. CASE LockQueue
      BY <3>2 DEF LockQueue
    <3>3. CASE UnlockQueue
      BY <3>3 DEF UnlockQueue
    <3>4. CASE RunTask
      BY <2>0, <3>4 DEF RunTask, TypeOK
    <3>5. CASE EndRun \/ ExitLoop
      BY <3>5 DEF EndRun, ExitLoop
    <3>6. CASE Tick
      BY <3>6 DEF Tick, TypeOK
    <3>7. CASE Interrupt \/ UNCHANGED vars
      BY <3>7 DEF Interrupt, vars
    <3> QED
      BY <2>1, <3>1, <3>2, <3>3, <3>4, <3>5, <3>6, <3>7 DEF QuietStep
  <2>2. ASSUME NEW p \in Posters, NEW d \in Delays, PostTask(p, d)
        PROVE  Inv'
    BY <2>2 DEF PostTask
  <2>3. ASSUME NEW p \in Posters, PushTask(p)
        PROVE  Inv'
    BY <2>3 DEF PushTask
  <2>4. ASSUME NEW t \in queue, PopExpired(t)
        PROVE  Inv'
    BY <2>4, PopEffect DEF PopExpired, Expired, TypeOK
  <2> QED
    BY <2>1, <2>2, <2>3, <2>4 DEF Next, Run, QuietStep
<1>3. QED
  BY <1>1, <1>2, TypeCorrect, PTL DEF Spec

-----------------------------------------------------------------------------
\* What a call of PostTask changes.
LEMMA PostEffect ==
  ASSUME TypeOK, NEW p \in Posters, NEW d \in Delays, PostTask(p, d)
  PROVE  /\ posting' = [posting EXCEPT ![p] = [due |-> now + d, delay |-> d]]
         /\ Known' = Known
         /\ UNCHANGED <<now, order, queue, snapshot, log, ran, runner>>
BY DEF PostTask, Known

\* Every pushed task is in exactly one place under its own number, whatever
\* the threads do: still queued, or drained once (EventRunner::Run, PushTask).
THEOREM Placement == Spec => [](Numbered /\ NothingLostOrRepeated)
<1> DEFINE Inv == Numbered /\ NothingLostOrRepeated
<1>1. Init => Inv
  BY DEF Init, Numbered, Known, NothingLostOrRepeated
<1>2. TypeOK /\ Inv /\ [Next]_vars => Inv'
  <2> SUFFICES ASSUME TypeOK, Inv, [Next]_vars
               PROVE  Inv'
    OBVIOUS
  <2>0. Len(log) \in Nat /\ order \in Nat /\ Known \subseteq Task
    BY KnownTyped DEF TypeOK
  <2>1. ASSUME UNCHANGED <<order, queue, log>>
        PROVE  Inv'
    BY <2>1 DEF Numbered, Known, NothingLostOrRepeated
  <2>2. ASSUME NEW p \in Posters, PushTask(p)
        PROVE  Inv'
    <3> DEFINE t == [order |-> order + 1, due |-> posting[p].due,
                     delay |-> posting[p].delay, poster |-> p]
    <3>1. /\ order' = order + 1
          /\ queue' = queue \cup {t}
          /\ Known' = Known \cup {t}
          /\ log' = log
      BY <2>2, PushEffect
    <3>2. Numbered'
      BY <2>0, <3>1 DEF Numbered
    <3>3. /\ \A u \in queue : u.order \in 1..order
          /\ \A i \in 1..Len(log) : log[i].order \in 1..order
      BY DEF Numbered, Known
    <3>4. NothingLostOrRepeated'
      <4>1. \A o \in 1..order' : \/ \E u \in queue' : u.order = o
                                \/ \E i \in 1..Len(log') : log'[i].order = o
        <5> SUFFICES ASSUME NEW o \in 1..order'
                     PROVE  \/ \E u \in queue' : u.order = o
                            \/ \E i \in 1..Len(log') : log'[i].order = o
          OBVIOUS
        <5>1. CASE o = order + 1
          <6>1. t \in queue' /\ t.order = o
            BY <3>1, <5>1
          <6> QED
            BY <6>1
        <5>2. CASE o \in 1..order
          BY <3>1, <5>2 DEF NothingLostOrRepeated
        <5> QED
          BY <2>0, <3>1, <5>1, <5>2
      <4>2. \A i, j \in 1..Len(log') : log'[i].order = log'[j].order => i = j
        BY <3>1 DEF NothingLostOrRepeated
      <4>3. \A i \in 1..Len(log'), u \in queue' : log'[i].order # u.order
        BY <2>0, <3>1, <3>3 DEF NothingLostOrRepeated
      <4>4. \A u, v \in queue' : u.order = v.order => u = v
        BY <2>0, <3>1, <3>3 DEF NothingLostOrRepeated
      <4> QED
        BY <4>1, <4>2, <4>3, <4>4 DEF NothingLostOrRepeated
    <3> QED
      BY <3>2, <3>4
  <2>3. ASSUME NEW t \in queue, PopExpired(t)
        PROVE  Inv'
    <3>1. /\ Len(log') = Len(log) + 1
          /\ \A i \in 1..Len(log) : log'[i] = log[i]
          /\ log'[Len(log) + 1] = t
          /\ queue' = queue \ {t}
          /\ Known' = Known
          /\ order' = order
      BY <2>3, PopEffect
    <3>2. Numbered'
      BY <3>1 DEF Numbered
    <3>3. \A o \in 1..order' : \/ \E u \in queue' : u.order = o
                              \/ \E i \in 1..Len(log') : log'[i].order = o
      BY <2>0, <3>1 DEF NothingLostOrRepeated
    <3>4. \A i, j \in 1..Len(log') : log'[i].order = log'[j].order => i = j
      BY <2>0, <3>1 DEF NothingLostOrRepeated
    <3>5. \A i \in 1..Len(log'), u \in queue' : log'[i].order # u.order
      BY <2>0, <3>1 DEF NothingLostOrRepeated
    <3>6. \A u, v \in queue' : u.order = v.order => u = v
      BY <3>1 DEF NothingLostOrRepeated
    <3> QED
      BY <3>2, <3>3, <3>4, <3>5, <3>6 DEF NothingLostOrRepeated
  <2>4. ASSUME NEW p \in Posters, NEW d \in Delays, PostTask(p, d)
        PROVE  Inv'
    BY <2>1, <2>4 DEF PostTask
  <2>5. CASE QuietStep
    BY <2>1, <2>5, QuietEffect
  <2> QED
    BY <2>2, <2>3, <2>4, <2>5 DEF Next, Run, QuietStep
<1>3. QED
  BY <1>1, <1>2, TypeCorrect, PTL DEF Spec

-----------------------------------------------------------------------------
\* A task numbered earlier and due no later than another is drained before it,
\* over all batches and threads; the tasks still queued may not have been due
\* to come out before one that did (QueueBehindLog).
THEOREM DrainOrder == Spec => [](NoOvertaking /\ QueueBehindLog)
<1> DEFINE Inv == Numbered /\ NoOvertaking /\ QueueBehindLog
<1>1. Init => Inv
  BY DEF Init, Numbered, Known, NoOvertaking, QueueBehindLog
<1>2. TypeOK /\ Inv /\ [Next]_vars => Inv'
  <2> SUFFICES ASSUME TypeOK, Inv, [Next]_vars
               PROVE  Inv'
    OBVIOUS
  <2>0. /\ Len(log) \in Nat /\ order \in Nat /\ Known \subseteq Task
        /\ \A i \in 1..Len(log) : log[i] \in Known
        /\ queue \subseteq Known
    BY KnownTyped DEF TypeOK
  <2>1. ASSUME UNCHANGED <<order, queue, log>>
        PROVE  Inv'
    BY <2>1 DEF Numbered, Known, NoOvertaking, QueueBehindLog
  <2>2. ASSUME NEW p \in Posters, PushTask(p)
        PROVE  Inv'
    <3> DEFINE t == [order |-> order + 1, due |-> posting[p].due,
                     delay |-> posting[p].delay, poster |-> p]
    <3>1. /\ order' = order + 1
          /\ queue' = queue \cup {t}
          /\ Known' = Known \cup {t}
          /\ log' = log
      BY <2>2, PushEffect
    <3>2. Numbered'
      BY <2>0, <3>1 DEF Numbered
    <3>3. NoOvertaking'
      BY <3>1 DEF NoOvertaking
    <3>4. \A i \in 1..Len(log) : ~(t.order < log[i].order)
      BY <2>0 DEF Numbered
    <3>5. QueueBehindLog'
      BY <3>1, <3>4 DEF QueueBehindLog
    <3> QED
      BY <3>2, <3>3, <3>5
  <2>3. ASSUME NEW t \in queue, PopExpired(t)
        PROVE  Inv'
    <3>1. /\ Len(log') = Len(log) + 1
          /\ \A i \in 1..Len(log) : log'[i] = log[i]
          /\ log'[Len(log) + 1] = t
          /\ queue' = queue \ {t}
          /\ Known' = Known
          /\ order' = order
      BY <2>3, PopEffect
    <3>2. Numbered'
      BY <3>1 DEF Numbered
    <3>3. \A u \in queue : u # t => ~(u.order < t.order /\ u.due <= t.due)
      <4>1. \A u \in queue : u = t \/ Before(t, u)
        BY <2>3 DEF PopExpired, IsTop
      <4>2. \A u \in queue : /\ u.order \in Nat /\ u.due \in Nat
        BY <2>0 DEF Task
      <4> QED
        BY <4>1, <4>2 DEF Before
    <3>4. NoOvertaking'
      BY <2>0, <3>1 DEF NoOvertaking, QueueBehindLog
    <3>5. QueueBehindLog'
      BY <2>0, <3>1, <3>3 DEF QueueBehindLog
    <3> QED
      BY <3>2, <3>4, <3>5
  <2>4. ASSUME NEW p \in Posters, NEW d \in Delays, PostTask(p, d)
        PROVE  Inv'
    BY <2>1, <2>4 DEF PostTask
  <2>5. CASE QuietStep
    BY <2>1, <2>5, QuietEffect
  <2> QED
    BY <2>2, <2>3, <2>4, <2>5 DEF Next, Run, QuietStep
<1>3. QED
  BY <1>1, <1>2, TypeCorrect, PTL DEF Spec

-----------------------------------------------------------------------------
\* The due time that PostTask computed before it took the mutex never lies
\* ahead of the clock by more than the delay asked for, nor does it shrink
\* from one call of a thread to its next call with the same delay.
THEOREM DueTimes == Spec => [](DueBounds /\ DueMonotone)
<1> DEFINE Inv == Numbered /\ DueBounds /\ DueMonotone
<1>1. Init => Inv
  BY DEF Init, Numbered, Known, DueBounds, DueMonotone
<1>2. TypeOK /\ Inv /\ [Next]_vars => Inv'
  <2> SUFFICES ASSUME TypeOK, Inv, [Next]_vars
               PROVE  Inv'
    OBVIOUS
  <2> DEFINE Call == [due : Nat, delay : Delays]
  <2>0. /\ order \in Nat /\ now \in Nat /\ Known \subseteq Task
        /\ posting \in [Posters -> Call \cup {Idle}]
        /\ Delays \subseteq Nat
    BY KnownTyped, DelaysAssumption DEF TypeOK
  <2>a. \A t \in Known : /\ t.order \in Nat /\ t.due \in Nat
                         /\ t.delay \in Nat /\ t.poster \in Posters
    BY <2>0 DEF Task
  <2>b. \A p \in Posters : posting[p] # Idle =>
            posting[p].due \in Nat /\ posting[p].delay \in Nat
    BY <2>0
  <2>1. ASSUME UNCHANGED <<posting, order, queue, log>>,
               now' \in Nat, now <= now'
        PROVE  Inv'
    <3>1. Known' = Known
      BY <2>1 DEF Known
    <3>2. Numbered' /\ DueMonotone'
      BY <2>1, <3>1 DEF Numbered, DueMonotone
    <3>3. DueBounds'
      BY <2>0, <2>1, <2>a, <2>b, <3>1 DEF DueBounds
    <3> QED
      BY <3>2, <3>3
  <2>2. ASSUME NEW p \in Posters, PushTask(p)
        PROVE  Inv'
    <3> DEFINE t == [order |-> order + 1, due |-> posting[p].due,
                     delay |-> posting[p].delay, poster |-> p]
    <3>1. /\ order' = order + 1
          /\ Known' = Known \cup {t}
          /\ posting' = [posting EXCEPT ![p] = Idle]
          /\ now' = now
      BY <2>2, PushEffect
    <3>2. posting[p] # Idle
      BY <2>2 DEF PushTask
    <3>3. Numbered'
      BY <2>0, <3>1 DEF Numbered
    <3>4. DueBounds'
      <4>1. t.due <= now + t.delay
        BY <3>2 DEF DueBounds
      <4>2. \A q \in Posters : posting'[q] # Idle => posting'[q] = posting[q]
        BY <2>0, <3>1
      <4> QED
        BY <3>1, <4>1, <4>2 DEF DueBounds
    <3>5. DueMonotone'
      <4>1. \A u \in Known : ~(t.order < u.order)
        BY <2>0, <2>a DEF Numbered
      <4>2. \A u \in Known : u.poster = p /\ u.delay = t.delay => u.due <= t.due
        BY <3>2 DEF DueMonotone
      <4>3. \A u \in Known : u.poster = t.poster /\ u.delay = t.delay
                             => u.due <= t.due
        BY <4>2
      <4>4. ASSUME NEW u \in Known', NEW v \in Known',
                   u.poster = v.poster, u.delay = v.delay, u.order < v.order
            PROVE  u.due <= v.due
        <5>1. CASE v = t
          <6>1. u # t
            BY <2>0, <4>4, <5>1
          <6> QED
            BY <3>1, <4>3, <4>4, <5>1, <6>1
        <5>2. CASE v # t
          <6>1. u # t
            BY <3>1, <4>1, <4>4, <5>2
          <6> QED
            BY <3>1, <4>4, <5>2, <6>1 DEF DueMonotone
        <5> QED
          BY <5>1, <5>2
      <4>5. ASSUME NEW u \in Known', posting'[u.poster] # Idle,
                   posting'[u.poster].delay = u.delay
            PROVE  u.due <= posting'[u.poster].due
        <5>1. u.poster # p
          BY <2>0, <3>1, <4>5
        <5>2. u # t
          BY <5>1
        <5>3. posting'[u.poster] = posting[u.poster]
          BY <2>0, <2>a, <3>1, <5>1, <5>2
        <5> QED
          BY <3>1, <4>5, <5>2, <5>3 DEF DueMonotone
      <4> QED
        BY <4>4, <4>5 DEF DueMonotone
    <3> QED
      BY <3>3, <3>4, <3>5
  <2>3. ASSUME NEW t \in queue, PopExpired(t)
        PROVE  Inv'
    <3>1. Known' = Known /\ UNCHANGED <<now, posting, order>>
      BY <2>3, PopEffect
    <3> QED
      BY <3>1 DEF Numbered, DueBounds, DueMonotone
  <2>4. ASSUME NEW p \in Posters, NEW d \in Delays, PostTask(p, d)
        PROVE  Inv'
    <3> DEFINE c == [due |-> now + d, delay |-> d]
    <3>1. /\ posting' = [posting EXCEPT ![p] = c]
          /\ Known' = Known
          /\ UNCHANGED <<now, order>>
      BY <2>4, PostEffect
    <3>2. Numbered'
      BY <3>1 DEF Numbered
    <3>3. posting'[p] = c /\ \A q \in Posters : q # p => posting'[q] = posting[q]
      BY <2>0, <3>1
    <3>4. DueBounds'
      <4>1. c.due <= now + c.delay /\ c.delay <= c.due
        BY <2>0
      <4> QED
        BY <3>1, <3>3, <4>1 DEF DueBounds
    <3>5. ASSUME NEW u \in Known, posting'[u.poster] # Idle,
                 posting'[u.poster].delay = u.delay
          PROVE  u.due <= posting'[u.poster].due
      <4>1. CASE u.poster = p
        BY <3>3, <3>5, <4>1 DEF DueBounds
      <4>2. CASE u.poster # p
        BY <2>a, <3>3, <3>5, <4>2 DEF DueMonotone
      <4> QED
        BY <4>1, <4>2
    <3>6. DueMonotone'
      BY <3>1, <3>5 DEF DueMonotone
    <3> QED
      BY <3>2, <3>4, <3>6
  <2>5. CASE QuietStep
    BY <2>1, <2>5, QuietEffect
  <2> QED
    BY <2>2, <2>3, <2>4, <2>5 DEF Next, Run, QuietStep
<1>3. QED
  BY <1>1, <1>2, TypeCorrect, PTL DEF Spec

-----------------------------------------------------------------------------
\* IInv is an invariant: the conjunction of the theorems above.
THEOREM Invariance == Spec => []IInv
BY TypeCorrect, BatchSafety, Placement, DrainOrder, DueTimes, PTL
   DEF IInv

\* What one thread posts with one delay is executed in the order of the calls.
THEOREM FifoPerPoster == Spec => []PosterFifo
<1>1. IInv => PosterFifo
  <2> SUFFICES ASSUME IInv,
                      NEW i \in 1..Len(log), NEW j \in 1..Len(log),
                      log[i].poster = log[j].poster,
                      log[i].delay = log[j].delay,
                      log[i].order < log[j].order
               PROVE  i < j
    BY DEF PosterFifo
  <2>1. log[i] \in Known /\ log[j] \in Known /\ Len(log) \in Nat
        /\ log[i].order \in Nat
    BY KnownTyped DEF IInv, Task
  <2>2. log[i].due <= log[j].due
    BY <2>1 DEF IInv, DueMonotone
  <2>3. ~(j < i)
    BY <2>2 DEF IInv, NoOvertaking
  <2> QED
    BY <2>1, <2>3
<1> QED
  BY <1>1, Invariance, PTL

\* The loop of Start ends only between batches: an Interrupt lets the callbacks
\* already drained run to the end.
THEOREM StopsBetweenBatches == Spec => []StopFinishesBatch
<1>1. BatchBounds => StopFinishesBatch
  BY DEF BatchBounds, StopFinishesBatch
<1> QED
  BY <1>1, BatchSafety, PTL

-----------------------------------------------------------------------------
\* Refinement.  A push is a submission, the execution of a callback is a
\* performance, everything else the runner does is invisible.

\* Steps that change nothing DelayedTasks can see.
LEMMA Invisible ==
  ASSUME UNCHANGED <<now, order, queue, log, ran>>,
         (runner = "exited") <=> (runner' = "exited")
  PROVE  UNCHANGED Promise!vars
BY DEF Promise!vars, Batch, Executed

\* Moving a task from the queue to the batch is invisible: both are pending.
LEMMA PopInvisible ==
  ASSUME IInv, NEW t \in queue, PopExpired(t)
  PROVE  UNCHANGED Promise!vars
<1>1. /\ Len(log') = Len(log) + 1
      /\ \A i \in 1..Len(log) : log'[i] = log[i]
      /\ log'[Len(log) + 1] = t
      /\ queue' = queue \ {t}
      /\ UNCHANGED <<now, order, ran, runner>>
  BY PopEffect DEF IInv
<1>2. Len(log) \in Nat /\ ran \in Nat /\ ran <= Len(log)
  BY KnownTyped DEF IInv, BatchBounds, TypeOK
<1>3. Batch' = Batch \cup {t}
  <2>1. \A i \in (ran + 1)..Len(log') :
            \/ log'[i] = t
            \/ i \in (ran + 1)..Len(log) /\ log'[i] = log[i]
    BY <1>1, <1>2
  <2>2. \A i \in (ran + 1)..Len(log) :
            i \in (ran + 1)..Len(log') /\ log'[i] = log[i]
    BY <1>1, <1>2
  <2>3. Len(log) + 1 \in (ran + 1)..Len(log')
    BY <1>1, <1>2
  <2>4. Batch' = {log'[i] : i \in (ran + 1)..Len(log')}
    BY <1>1 DEF Batch
  <2> QED
    BY <1>1, <2>1, <2>2, <2>3, <2>4 DEF Batch
<1>4. Executed' = Executed
  <2>1. \A i \in 1..ran : log'[i] = log[i]
    BY <1>1, <1>2
  <2> QED
    BY <1>1, <2>1 DEF Executed
<1>5. queue' \cup Batch' = queue \cup Batch
  BY <1>1, <1>3
<1> QED
  BY <1>1, <1>4, <1>5 DEF Promise!vars

\* A push is a submission, counted from the clock reading of its PostTask.
LEMMA PushSubmits ==
  ASSUME IInv, NEW p \in Posters, PushTask(p)
  PROVE  Promise!Submit(p, posting[p].delay) /\ posting[p].delay \in Delays
<1> DEFINE t == [order |-> order + 1, due |-> posting[p].due,
                 delay |-> posting[p].delay, poster |-> p]
<1>1. /\ posting[p] \in [due : Nat, delay : Delays]
      /\ order' = order + 1
      /\ queue' = queue \cup {t}
      /\ UNCHANGED <<now, log, ran, runner>>
  BY PushEffect DEF IInv
<1>2. /\ posting[p].due \in Nat /\ posting[p].delay \in Nat /\ now \in Nat
      /\ posting[p].delay <= posting[p].due
      /\ posting[p].due <= now + posting[p].delay
  BY <1>1, DelaysAssumption DEF IInv, TypeOK, DueBounds, PushTask
<1> DEFINE start == posting[p].due - posting[p].delay
<1>3. start \in 0..now /\ start + posting[p].delay = posting[p].due
  BY <1>2
<1>4. (queue \cup Batch)' = (queue \cup Batch) \cup {t}
  BY <1>1 DEF Batch
<1>5. UNCHANGED <<now, Executed, (runner = "exited")>>
  BY <1>1 DEF Executed
<1> QED
  BY <1>1, <1>3, <1>4, <1>5 DEF Promise!Submit

\* Running the next task of the batch performs it: it is due, and no pending
\* task that was submitted earlier is due no later.
LEMMA RunPerforms ==
  ASSUME IInv, RunTask
  PROVE  \E t \in queue \cup Batch : Promise!Perform(t)
<1> DEFINE t == log[ran + 1]
<1>1. /\ Len(log) \in Nat /\ ran \in Nat /\ ran < Len(log) /\ ran' = ran + 1
      /\ UNCHANGED <<now, order, queue, log, runner>>
      /\ runner = "flushing"
  BY KnownTyped DEF IInv, TypeOK, RunTask
<1>2. ran + 1 \in 1..Len(log) /\ t \in Task /\ t.order \in Nat
  BY <1>1, KnownTyped DEF IInv, Task
<1>3. Batch = Batch' \cup {t}
  <2>1. (ran + 1)..Len(log) = ((ran + 2)..Len(log)) \cup {ran + 1}
    BY <1>1
  <2>2. Batch' = {log[i] : i \in (ran + 2)..Len(log)}
    BY <1>1 DEF Batch
  <2> QED
    BY <2>1, <2>2 DEF Batch
<1>4. t \notin queue /\ t \notin Batch'
  <2>1. t \notin queue
    BY <1>2 DEF IInv, NothingLostOrRepeated
  <2>2. \A i \in (ran + 2)..Len(log) : log[i] # t
    BY <1>1, <1>2 DEF IInv, NothingLostOrRepeated
  <2>3. Batch' = {log[i] : i \in (ran + 2)..Len(log)}
    BY <1>1 DEF Batch
  <2> QED
    BY <2>1, <2>2, <2>3
<1>5. (queue \cup Batch)' = (queue \cup Batch) \ {t}
  BY <1>1, <1>3, <1>4
<1>6. Executed' = Executed \cup {t}
  <2>1. 1..(ran + 1) = (1..ran) \cup {ran + 1}
    BY <1>1
  <2>2. Executed' = {log[i] : i \in 1..(ran + 1)}
    BY <1>1 DEF Executed
  <2> QED
    BY <2>1, <2>2 DEF Executed
<1>7. t.due <= now
  BY <1>2, KnownTyped DEF IInv, NeverEarly, Task, TypeOK
<1>8. \A u \in queue \cup Batch : ~Promise!MustWaitFor(t, u)
  <2>1. \A u \in queue : ~Promise!MustWaitFor(t, u)
    BY <1>2 DEF IInv, QueueBehindLog, Promise!MustWaitFor
  <2>2. \A i \in (ran + 2)..Len(log) : ~Promise!MustWaitFor(t, log[i])
    BY <1>1, <1>2 DEF IInv, NoOvertaking, Promise!MustWaitFor
  <2>3. ~Promise!MustWaitFor(t, t)
    BY <1>2 DEF Promise!MustWaitFor
  <2>4. Batch' = {log[i] : i \in (ran + 2)..Len(log)}
    BY <1>1 DEF Batch
  <2> QED
    BY <1>3, <2>1, <2>2, <2>3, <2>4
<1>9. ~(runner = "exited") /\ UNCHANGED <<now, order, (runner = "exited")>>
  BY <1>1
<1> QED
  BY <1>3, <1>5, <1>6, <1>7, <1>8, <1>9 DEF Promise!Perform

\* The mutex, the snapshot and the batch are invisible to those who post: every
\* behaviour of the runner is one of the promise.
THEOREM Implements == Spec => KeepsPromise
<1>1. Init => Promise!Init
  <2> SUFFICES ASSUME Init
               PROVE  Promise!Init
    OBVIOUS
  <2>1. Batch = {} /\ Executed = {} /\ queue = {} /\ now = 0 /\ order = 0
    BY DEF Init, Batch, Executed
  <2>2. (runner = "exited") = FALSE
    BY DEF Init
  <2> QED
    BY <2>1, <2>2 DEF Promise!Init
<1>2. IInv /\ [Next]_vars => [Promise!Next]_(Promise!vars)
  <2> SUFFICES ASSUME IInv, [Next]_vars
               PROVE  [Promise!Next]_(Promise!vars)
    OBVIOUS
  <2>1. ASSUME NEW p \in Posters, NEW d \in Delays, PostTask(p, d)
        PROVE  UNCHANGED Promise!vars
    BY <2>1, Invisible DEF PostTask
  <2>2. ASSUME NEW p \in Posters, PushTask(p)
        PROVE  Promise!Next
    BY <2>2, PushSubmits DEF Promise!Next
  <2>3. ASSUME NEW t \in queue, PopExpired(t)
        PROVE  UNCHANGED Promise!vars
    BY <2>3, PopInvisible
  <2>4. CASE RunTask
    BY <2>4, RunPerforms DEF Promise!Next
  <2>5. CASE Tick
    <3>1. Promise!Advance
      BY <2>5 DEF Tick, Promise!Advance, Batch, Executed
    <3> QED
      BY <3>1 DEF Promise!Next
  <2>6. CASE ExitLoop
    <3>1. UNCHANGED <<now, order, (queue \cup Batch), Executed>>
      BY <2>6 DEF ExitLoop, Batch, Executed
    <3>2. (runner' = "exited") = TRUE
      BY <2>6 DEF ExitLoop
    <3> QED
      BY <3>1, <3>2 DEF Promise!Next, Promise!Close
  <2>7. CASE ReadClock \/ LockQueue \/ UnlockQueue \/ EndRun \/ Interrupt
             \/ UNCHANGED vars
    BY <2>7, Invisible
       DEF ReadClock, LockQueue, UnlockQueue, EndRun, Interrupt, vars
  <2> QED
    BY <2>1, <2>2, <2>3, <2>4, <2>5, <2>6, <2>7 DEF Next, Run
<1>3. QED
  BY <1>1, <1>2, Invariance, PTL DEF Spec, KeepsPromise, Promise!Spec
=============================================================================
