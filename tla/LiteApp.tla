------------------------------ MODULE LiteApp ------------------------------
(***************************************************************************)
(* The lite previewer while its application runs (jsapp/lite/JsAppImpl).   *)
(* The JS thread launches the application and then polls timers: those of  *)
(* TimerTaskHandler and those that the application makes through the       *)
(* native timer interface (util/CppTimer, CppTimerManager, CallbackQueue,  *)
(* mock/lite/NativeTimer).  Any thread dispatches asynchronous work, which *)
(* the device timer executes (mock/lite/AsyncWorkManager).  The main       *)
(* thread, once it has been told to exit, stops the application            *)
(* (ThinPreviewer's main, JsApp::Stop, JsAppImpl::Interrupt).              *)
(*                                                                         *)
(* A native timer's handle is used once.  The clock is kept per timer, as  *)
(* the time passed since it was started or last due.                       *)
(***************************************************************************)
EXTENDS Naturals, Sequences, SequencesExt

CONSTANTS Natives,          (* bound: the native timers                    *)
          Delays,           (* the delays the application asks for         *)
          MaxWorks,         (* bound on the work dispatched                *)
          TaskInterval, DeviceInterval, JsInterval

Own == {"task", "device", "js"}    \* taskHandleTimer, deviceCheckTimer, jsCheckTimer
ASSUME BoundsAssumption ==
    /\ Delays \subseteq Nat /\ MaxWorks \in Nat
    /\ {TaskInterval, DeviceInterval, JsInterval} \subseteq Nat \ {0}
    /\ Natives \cap Own = {}

Timers == Own \cup Natives
OwnInterval == [task |-> TaskInterval, device |-> DeviceInterval, js |-> JsInterval]
Forever == 2                       \* stands for shotTimes -1

VARIABLES
    main,          (* where the main thread is                             *)
    js,            (* where the JS thread is                               *)
    isFinished, isInterrupt,
    jsAbility,     (* does the pointer hold an ability?                    *)
    crashed,       (* null was dereferenced, or a destroyed engine used    *)
    runningTimers, (* the timers of the JS thread's manager, in order      *)
    clock,         (* per timer: [interval, passed, shotTimes]             *)
    callbackQueue, (* the callbacks to run, the last one first             *)
    stopped,       (* the native timers that were stopped                  *)
    ran, late,     (* per native timer: its callbacks, those once stopped; *)
                   (* counted to 2                                         *)
    workList,      (* work that waits                                      *)
    batch,         (* work taken and not yet begun                         *)
    done,          (* work begun                                           *)
    works,         (* the number of works dispatched                       *)
    calm           (* an IDE that exits while the JS thread sleeps between *)
                   (* two ticks, and a thread that sleeps long enough      *)

lifeVars == <<isFinished, isInterrupt, jsAbility>>
timerVars == <<runningTimers, clock, stopped, ran, late>>
workVars == <<workList, works>>
vars == <<main, js, lifeVars, crashed, timerVars, callbackQueue, workVars, batch, done, calm>>

NoClock == [interval |-> 0, passed |-> 0, shotTimes |-> 0]

Init ==
    /\ main = "loop" /\ js \in {"none", "boot"}   \* none: without -j's launch (-t)
    /\ isFinished = (js = "none") /\ isInterrupt = FALSE
    /\ jsAbility = FALSE /\ crashed = FALSE
    /\ runningTimers = <<>> /\ clock = [t \in Timers |-> NoClock] /\ callbackQueue = <<>>
    /\ ran = [n \in Natives |-> 0] /\ late = [n \in Natives |-> 0] /\ stopped = {}
    /\ workList = <<>> /\ batch = <<>> /\ done = <<>> /\ works = 0
    /\ calm \in BOOLEAN

\* The list of those elements of s that are in S.
KeepOnly(s, S) ==
    LET kept[i \in 0 .. Len(s)] == IF i = 0 THEN <<>>
                                   ELSE IF s[i] \in S THEN Append(kept[i - 1], s[i])
                                   ELSE kept[i - 1]
    IN kept[Len(s)]

Up(n) == IF n = 2 THEN 2 ELSE n + 1
\* The engine executes code of the application on the JS thread.
JsRuns == \/ js \in {"launching", "working"}
          \/ js = "calling" /\ Last(callbackQueue) # "js"
JsMayStep == ~crashed /\ main # "ended" /\ (calm => main = "loop" \/ isInterrupt)

-----------------------------------------------------------------------------
\* The main thread: exit leaves the loop of main, Stop calls Interrupt until
\* isFinished; 500 ms after that the process ends.
Exit ==
    /\ ~crashed /\ main = "loop" /\ (calm => js \in {"none", "ticking"})
    /\ main' = "stop"
    /\ UNCHANGED <<js, lifeVars, crashed, timerVars, callbackQueue, workVars, batch, done, calm>>

\* Mutant: Stop waits and does not interrupt.
WaitForApp ==
    /\ ~crashed /\ main = "stop" /\ isFinished
    /\ main' = "ended"
    /\ UNCHANGED <<js, lifeVars, crashed, timerVars, callbackQueue, workVars, batch, done, calm>>
Stop ==
    /\ ~crashed /\ main = "stop"
    /\ main' = IF isFinished THEN "ended" ELSE "clearing"
    /\ UNCHANGED <<js, lifeVars, crashed, timerVars, callbackQueue, workVars, batch, done, calm>>

ClearAllAsyncWork ==
    /\ ~crashed /\ main = "clearing"
    /\ workList' = <<>>
    /\ main' = "hiding"
    /\ UNCHANGED <<js, lifeVars, crashed, timerVars, callbackQueue, works, batch, done, calm>>

\* jsAbility->Hide(), TransferToDestroy(): the pointer is not tested, and the
\* JS thread may be inside the engine.
HideAndDestroy ==
    /\ ~crashed /\ main = "hiding"
    /\ main' = "resetting"
    /\ crashed' \in IF ~jsAbility THEN {TRUE} ELSE IF JsRuns THEN BOOLEAN ELSE {FALSE}
    /\ UNCHANGED <<js, lifeVars, timerVars, callbackQueue, workVars, batch, done, calm>>

Reset ==
    /\ ~crashed /\ main = "resetting"
    /\ jsAbility' = FALSE
    /\ main' = "finishing"
    /\ UNCHANGED <<js, isFinished, isInterrupt, crashed, timerVars, callbackQueue, workVars, batch, done, calm>>

\* Mutant: Interrupt leaves isFinished to the JS thread.
NotFinished ==
    /\ ~crashed /\ main = "finishing"
    /\ main' = "interrupting"
    /\ UNCHANGED <<js, lifeVars, crashed, timerVars, callbackQueue, workVars, batch, done, calm>>
Finish ==
    /\ ~crashed /\ main = "finishing"
    /\ isFinished' = TRUE
    /\ main' = "interrupting"
    /\ UNCHANGED <<js, isInterrupt, jsAbility, crashed, timerVars, callbackQueue, workVars, batch, done, calm>>

SetInterrupt ==
    /\ ~crashed /\ main = "interrupting"
    /\ isInterrupt' = TRUE
    /\ main' = "stop"
    /\ UNCHANGED <<js, isFinished, jsAbility, crashed, timerVars, callbackQueue, workVars, batch, done, calm>>

-----------------------------------------------------------------------------
\* The JS thread: ThreadCallBack and StartJsApp.
CreateAbility ==
    /\ JsMayStep /\ js = "boot"
    /\ jsAbility' = TRUE
    /\ js' = "created"
    /\ UNCHANGED <<main, isFinished, isInterrupt, crashed, timerVars, callbackQueue, workVars, batch, done, calm>>

\* jsAbility->Launch and jsAbility->Show.
UseAbility(from, to) ==
    /\ JsMayStep /\ js = from
    /\ crashed' = ~jsAbility
    /\ js' = to
    /\ UNCHANGED <<main, lifeVars, timerVars, callbackQueue, workVars, batch, done, calm>>
Launch == UseAbility("created", "launching")
Show == UseAbility("launching", "shown")

\* Only the launch of a single page (urlPath) ends with isFinished = false.
EndOfStartJsApp ==
    /\ JsMayStep /\ js = "shown"
    /\ \E singlePage \in BOOLEAN : isFinished' = (isFinished /\ ~singlePage)
    /\ js' = "arming"
    /\ UNCHANGED <<main, isInterrupt, jsAbility, crashed, timerVars, callbackQueue, workVars, batch, done, calm>>

InitTimer ==
    /\ JsMayStep /\ js = "arming"
    /\ runningTimers' = runningTimers \o <<"task", "device", "js">>
    /\ clock' = [t \in Timers |-> IF t \in Own THEN [interval |-> OwnInterval[t], passed |-> 0, shotTimes |-> Forever]
                                              ELSE clock[t]]
    /\ js' = "ticking"
    /\ UNCHANGED <<main, lifeVars, crashed, stopped, ran, late, callbackQueue, workVars, batch, done, calm>>

\* Mutant: timePassed <= interval.
IsOverdue(t) ==
    clock[t].interval # 0 /\ clock[t].passed > clock[t].interval /\ clock[t].shotTimes # 0
\* CppTimer::RunTimerTick: what it queues, and what it leaves in the timer.
IsDue(t) == clock[t].interval # 0 /\ clock[t].passed >= clock[t].interval /\ clock[t].shotTimes # 0
\* Mutant: the shots are not counted.
Restarted(c) == [c EXCEPT !.passed = 0]
Shot(c) == [c EXCEPT !.passed = 0, !.shotTimes = IF @ = Forever THEN @ ELSE @ - 1]

\* One turn of ThreadCallBack's loop: all the timers are asked, in order, then
\* the callbacks run, from the back of the queue, under its mutex.
RunTimerTick ==
    /\ JsMayStep /\ js = "ticking" /\ ~isInterrupt
    /\ callbackQueue' = callbackQueue \o KeepOnly(runningTimers, {t \in Timers : IsDue(t)})
    /\ clock' = [t \in Timers |-> IF t \in ToSet(runningTimers) /\ IsDue(t) THEN Shot(clock[t]) ELSE clock[t]]
    /\ js' = "consuming"
    /\ UNCHANGED <<main, lifeVars, crashed, runningTimers, stopped, ran, late, workVars, batch, done, calm>>

\* Mutant: the work that did not fit is dropped with the list.
TakeFirstWork == batch' = SelectSeq(workList, LAMBDA w : w = Head(workList)) /\ workList' = <<>>
\* Mutant: the list is not cleared.
CopyWork == batch' = workList /\ UNCHANGED workList
\* ExecAllAsyncWork, under the mutex.
TakeWork == batch' = workList /\ workList' = <<>>

\* ConsumingCallback takes the callback at the back.  CheckDevice notifies the
\* application of changed data, then executes the work; TaskHandle lets the
\* engine work; CheckJsRunning calls nothing.
BeginCallback ==
    /\ JsMayStep /\ js = "consuming" /\ callbackQueue # <<>>
    /\ LET t == Last(callbackQueue) IN
       /\ js' = IF t = "device" THEN "working" ELSE "calling"
       /\ IF t = "device" THEN TakeWork ELSE UNCHANGED <<workList, batch>>
       /\ ran' = [n \in Natives |-> IF n = t THEN Up(ran[n]) ELSE ran[n]]
       /\ late' = [n \in Natives |-> IF n = t /\ n \in stopped THEN Up(late[n]) ELSE late[n]]
       /\ crashed' \in IF jsAbility \/ t = "js" THEN {FALSE} ELSE BOOLEAN
    /\ UNCHANGED <<main, lifeVars, runningTimers, clock, stopped, callbackQueue, works, done, calm>>

BeginWork ==
    /\ JsMayStep /\ js = "working" /\ batch # <<>>
    /\ done' = Append(done, Head(batch))
    /\ batch' = Tail(batch)
    /\ crashed' \in IF jsAbility THEN {FALSE} ELSE BOOLEAN
    /\ UNCHANGED <<main, js, lifeVars, timerVars, callbackQueue, workVars, calm>>

ReturnFromCallback ==
    /\ JsMayStep /\ js \in {"calling", "working"} /\ batch = <<>>
    /\ callbackQueue' = Front(callbackQueue)
    /\ js' = "consuming"
    /\ UNCHANGED <<main, lifeVars, crashed, timerVars, workVars, batch, done, calm>>

EndOfTick ==
    /\ JsMayStep /\ js = "consuming" /\ callbackQueue = <<>>
    /\ js' = "ticking"
    /\ UNCHANGED <<main, lifeVars, crashed, timerVars, callbackQueue, workVars, batch, done, calm>>

EndOfThread ==
    /\ JsMayStep /\ js = "ticking" /\ isInterrupt
    /\ js' = "over"
    /\ UNCHANGED <<main, lifeVars, crashed, timerVars, callbackQueue, workVars, batch, done, calm>>

-----------------------------------------------------------------------------
\* What the application calls while it runs.
StartTimerTask(n, isPeriodic, delay) ==
    /\ JsMayStep /\ JsRuns /\ clock[n] = NoClock
    /\ clock' = [clock EXCEPT ![n] = [interval |-> delay, passed |-> 0,
                                      shotTimes |-> IF isPeriodic THEN Forever ELSE 1]]
    /\ runningTimers' = Append(runningTimers, n)
    /\ UNCHANGED <<main, js, lifeVars, crashed, stopped, ran, late, callbackQueue, workVars, batch, done, calm>>

RemoveCppTimer(n) == KeepOnly(runningTimers, Timers \ {n})
\* The callback may be in the queue already: it is a copy and stays.
StopTimerTask(n) ==
    /\ JsMayStep /\ JsRuns /\ clock[n] # NoClock /\ n \notin stopped
    /\ runningTimers' = RemoveCppTimer(n)
    /\ stopped' = stopped \cup {n}
    /\ UNCHANGED <<main, js, lifeVars, crashed, clock, ran, late, callbackQueue, workVars, batch, done, calm>>

\* JsAsyncWork::DispatchAsyncWork, by any thread of the engine.
AppendAsyncWork ==
    /\ ~crashed /\ main # "ended" /\ js # "none" /\ works < MaxWorks
    /\ works' = works + 1
    /\ workList' = Append(workList, works')
    /\ UNCHANGED <<main, js, lifeVars, crashed, timerVars, callbackQueue, batch, done, calm>>

\* Time passes; more than the interval need not be told apart.
TimePasses ==
    /\ ~crashed /\ main # "ended"
    /\ clock' = [t \in Timers |-> [clock[t] EXCEPT
                    !.passed = IF @ < clock[t].interval /\ t \in ToSet(runningTimers) THEN @ + 1 ELSE @]]
    /\ UNCHANGED <<main, js, lifeVars, crashed, runningTimers, stopped, ran, late, callbackQueue, workVars, batch, done, calm>>

MainSteps == Stop \/ ClearAllAsyncWork \/ HideAndDestroy \/ Reset \/ Finish \/ SetInterrupt
JsSteps ==
    \/ CreateAbility \/ Launch \/ Show \/ EndOfStartJsApp \/ InitTimer
    \/ RunTimerTick \/ BeginCallback \/ BeginWork \/ ReturnFromCallback \/ EndOfTick \/ EndOfThread
Application ==
    \/ \E n \in Natives : \/ \E p \in BOOLEAN, d \in Delays : StartTimerTask(n, p, d)
                          \/ StopTimerTask(n)
    \/ AppendAsyncWork

Next == Exit \/ MainSteps \/ JsSteps \/ Application \/ TimePasses

Spec == Init /\ [][Next]_vars

\* Both threads are scheduled, code of the application returns, time passes;
\* the application need not call anything and the IDE need not exit.
FairSpec == Spec /\ WF_vars(MainSteps) /\ WF_vars(JsSteps) /\ WF_vars(TimePasses)

-----------------------------------------------------------------------------
\* An exit that finds the JS thread asleep stops the application without a
\* null pointer and without a callback into the destroyed engine: Stop calls
\* Interrupt a second time only if the first one did not finish.
CalmExitIsClean == calm => ~crashed

\* No timer calls back more often than the application asked for: a one-shot
\* once, however long it is kept, and a timer that another callback stopped at
\* most once more, as the callback of this tick is queued already.
NoExtraCallback ==
    \A n \in Natives : /\ clock[n].shotTimes # Forever => ran[n] <= 1
                       /\ late[n] <= 1

\* Work is executed once and in the order in which it was dispatched.
WorkInOrder == \A i, k \in 1 .. Len(done) : i < k => done[i] < done[k]

Leaving == main # "loop" \/ crashed
\* Work that was dispatched is executed unless the previewer exits.
WorkRuns == \A w \in 1 .. MaxWorks : works >= w ~> Leaving \/ w \in ToSet(done)
\* A timer with a delay calls back unless it is stopped or the previewer
\* exits; one without a delay never does.
TimerRuns == \A n \in Natives :
    n \in ToSet(runningTimers) /\ clock[n].interval > 0 ~> Leaving \/ ran[n] > 0 \/ n \in stopped
\* exit ends the process, if only by a crash, wherever it finds the JS thread
\* and whatever that does to isFinished meanwhile.
ExitEnds == main = "stop" ~> crashed \/ main = "ended"
=============================================================================
