# Verification of the Previewer

The Previewer is the process behind the page preview of an IDE. It takes commands
from the IDE over a local pipe, drives a rendering engine (ArkUI, outside this
repository), and sends the rendered images back over a web socket. This directory
holds TLA+ modules of its components, the TLC configurations that check them on
small instances, and proofs, checked by TLAPS, of the most important results for
every instance.

Paths are relative to `src/`. `PROJECT.json` maps every definition to the lines it
models and lists runs, mutants, hazards, findings and theorems.

## 1. Inventory

There are two programs. The *rich* previewer (`RichPreviewer.cpp`) embeds the full
engine; the *thin* or *lite* one (`ThinPreviewer.cpp`) embeds the engine of small
wearables. They share the command interface, the image channel and the utilities.

Threads of the rich previewer: the **main thread** (start-up, then the task loop of
`JsAppImpl::Start`), the **command thread** (`RichPreviewer.cpp: ProcessCommand`),
the engine's **rendering thread** (calls `VirtualScreenImpl::CallBack`), the **web
socket service thread**, and a short-lived **timer thread** for each LoadDocument
window. The thin previewer has a main thread that serves commands and a JS thread
that runs the application and its timers. Most of the state they share consists of
plain variables.

| Component | State | Operations | Talks to | What is hard | What makes it correct |
|---|---|---|---|---|---|
| Main-thread task queue (`jsapp/rich/external/Event*`) | priority queue, a static counter, the batch of `Run` | `PostTask`, `PushTask`, `Run` | every thread posts; `JsAppImpl::Start` drains | clock read outside the mutex; tasks post tasks; stop in the middle of a batch | nothing lost, repeated or early; posting order kept; everything posted runs unless stopped |
| Rich launch, service, stop (`RichPreviewer.cpp`, `jsapp/JsApp.cpp`, `jsapp/rich/JsAppImpl.cpp`) | `ability`, `isFinished`, `isStop`, `isInterrupt`, colour mode in three copies, start-up signal | `Start`, `RunNormalAbility`, `Stop`, `Interrupt`, the command loop | command and main thread over plain variables | commands are served before the launch ends | no null dereference in service, `exit` ends the process, signal sent exactly once, copies agree |
| Image channel (`util/WebSocketServer.cpp`, `Send` of both `VirtualScreenImpl`) | current connection, writable flag, image kept and its length | `ProtocolCallback`, `WriteData`, `Send`, `ScheduleBufferSend` | rendering thread and service thread | reconnections racing a write; a wait without a deadline; a length kept apart from its image | the shown image is current and whole, never goes backwards; the writer is released |
| LoadDocument image (`mock/rich/VirtualScreenImpl.cpp`) | window flag, stored frame, timer threads, time of a static screen | `CallBack`, `JudgeStaticImage`, `LoadDocCallback`, `StartTimer` | command, rendering and timer threads | the 300 ms timer of one document and the next document; a flag with two uses; one buffer and one copy for all threads | one timer at a time, no frame stranded, every document shown |
| Device configuration (`jsapp/rich/JsAppImpl.cpp`, `mock/VirtualScreen.cpp`) | size, orientation and density in five places | `ResolutionSwitch`, `Orientation`, `LoadDocument`, frames, `SetWindowSize` tasks | command, rendering and main thread | sizes are read back from a place that frames write | the copies agree; the orientation fits the shape; density kept |
| Shared device data (`util/SharedData*`) | value, changed flag and callbacks of each type | `SetData`, `AppendNotify`, `CheckTick` | commands write, two threads poll | change during a callback; per-thread periods | no change lost, delivered in order, paced |
| Command interface (`cli/`) and the reading of its pipe | registered commands, configuration file, result of the command under way | read, look up, validate, run, answer; notices of the engine | all the others | torn messages; checks of a narrower type than the value; answers matched by order | each message answered once and in order; a refusal changes nothing; what is accepted is stored; `exit` is obeyed |
| Start parameters (`util/CommandParser.cpp`, the `main`s) | map of options, fields of the configuration | parse, 25 checks, hand on | everything at start | asking for an option may set it; order, repetition and missing values | the configuration is what the command line means |
| Timers and native callbacks (`util/CppTimer*`, `util/CallbackQueue.cpp`, `mock/lite/NativeTimer.cpp`) | timer list, callback queue | start, stop, tick, consume | lite engine | stop between expiry and callback; last-in-first-out callbacks | a one-shot fires once, a stopped timer at most once more; a timer with a delay fires |
| Asynchronous work (`mock/lite/AsyncWorkManager.cpp`) | work list | append, execute all, clear | lite engine, stop | work taken out of the list before a clear | once each, in order, unless the previewer exits |
| Lite application (`ThinPreviewer.cpp`, `jsapp/lite/`) | `jsAbility`, `isFinished`, `isInterrupt` | `Start`, `StartJsApp`, the loop, `Stop`, `Interrupt` | main and JS thread | `exit` before or during the launch or a callback | no null dereference; `exit` ends the process |
| Lite screen (`mock/lite/VirtualScreenImpl.cpp`) | damage region, JPEG buffer, first-image buffer | `UpdateRegion`, `ScheduleBufferSend`, `Flush` | image channel | length of the kept image | the last flushed content is sent |
| Device mocks of the lite engine (`mock/lite/`) | position read and told, subscription; registered message receivers | get, subscribe, unsubscribe, check; register, unregister, call | command loop and JS thread over shared data | two coordinates are written and read in two accesses | a watcher with a wrong position is told again; nobody unregistered is called |
| Input devices (`mock/*/KeyInputImpl`, `MouseInputImpl`, ...) | fields of the last event | set by a command, sampled by the engine | lite engine | sampled between two writes | - |
| Stage context, files, JSON, logs, clipboard, crash handlers, mock generator | - | - | - | wrappers of the operating system, build-time code | - |

`Restart` is not in the inventory: `RestartCommand` exists (`cli/CommandLine.cpp`) but
`CommandLineFactory::InitCommandMap` does not register it, so no command reaches it.
The repository has no tests; its documentation is `README.md` and comments.

## 2. Plan

The order followed the risk: state shared by threads without a lock first, sequential
handling last.

1. `DelayedTasks` / `EventRunner`, refinement and proofs - **done**
2. `RichLaunch`, with proofs - **done** (without the debug launch)
3. `ImageChannel` (both previewers) and `LoadDocImage` (with the static screen), with
   proofs - **done**
4. `ObservedValues` / `SharedData`, refinement and proofs - **done**
5. `DeviceConfig`, with proofs - **done** (without the debug window)
6. `CommandSession`: pipe, registration, all commands, configuration file, with proofs -
   **done**
7. `LiteApp`: life cycle, timers, callbacks and asynchronous work, with proofs - **done**
8. `StartParameters`: parser, checks and what `main` hands on, with proofs - **done**
9. `LiteDevices`: position and message receivers, with proofs - **done**

Left: the debug launch and the drawing of regions on the lite screen.

Two components have an abstract specification that they implement: `DelayedTasks` (the
queue without mutex, batch and clock snapshot) and `ObservedValues` (notification
without flags, groups and threads). Modules that are proved about have no recursive
operator; their bounds are named constants.

## 3. Modules and the code

`MC<Module>` gives the constants of `<Module>` their values for TLC, `<Module>Proofs`
holds its theorems. Two proof modules serve two modules each: `LaunchProofs` is about
`RichLaunch` and `StartParameters`, `LiteProofs` about `LiteApp` and `LiteDevices`. The
second of each pair therefore names its specification apart (`StartInit`, `StartNext`,
`StartSpec`; `DevicesInit`, `DevicesNext`, `DevicesSpec`). A definition named "Mutant of X" is a plausible bug in X, against
which the properties are tried; nothing else uses it. Where a property holds only for
an IDE with some habit (waiting for an answer, not sending anything early), `Init`
chooses the habit and the property names it, so that every run also covers the IDE
without it.

### EventRunner, DelayedTasks
`queue` is the priority queue as a set, with `IsTop`/`Before` for `EventTask::operator>`.
`PostTask` computes the due time and `PushTask` inserts it, as two actions, because only
the second takes the mutex. `Run` is split into `ReadClock`, `LockQueue`,
`PopExpired`, `UnlockQueue`, `RunTask` and `EndRun`; the log of everything drained
stands for the successive `copyTasks` vectors, `ran` says how much of it was executed.
The main thread posts only from inside a callback. `ExitLoop` is the test of `isStop`
in `JsAppImpl::Start`. `DelayedTasks` is what a poster may rely on: no mutex, batch or
snapshot, just `Submit` and `Perform`; `KeepsPromise` states the refinement.

### RichLaunch
One variable for the program point of each thread (`main`, `cmd`), one for each shared
variable of the code. An action is one access, or the accesses between two points
where the other thread can matter. `CreateInstance` reads the arguments and `Publish`
assigns the pointer, which is where a colour mode may be lost. A `ColorMode`
command is three steps, one for each copy of the mode (`JsApp::colorMode`, the arguments,
the page). `LoadDocument` and `ShowDocument` write the mode of the document to the last two
only: of a LoadDocument that is all this module keeps, the rest is in `DeviceConfig` and
`LoadDocImage`. A call through a null `ability` sets `process` to "crashed". `early` is the
set of commands that this IDE sends also before the main loop runs, `foreign` says that it
loads documents in modes other than the stored one.

### ImageChannel
Connections and images are numbered; an image has a length. `Established`, `Writeable`
and `Closed` are the three callbacks of the service thread; `Send`, `LeaveWait`,
`TestAgain`, `LwsWrite` and `KeepImage` are the steps of the rendering thread, which
reads the flag twice. `KeepImage` copies the image and its length, which the two
previewers (`lite`) do differently: the lite one tells the server the length once.
`resent` is a history of what clients were given again. A write to a connection that was
closed and freed may end the process (`crashed`). `calm` is an environment without
connection changes while an image is between the wait and the cache. `Overlap`
(constant) lets a client connect before the close of its predecessor was seen.

### LoadDocImage
`startLoadDoc` has the four values of `LoadDocType`, whose order `CallBack` relies on
(`NORMAL` and `START` drop frames). A timer thread goes through `Expire`,
`AllowNextTimer`, `CopyFrame`, `AllocateForCopy`, `SendPixmapOfCopy`, `SendCopy` and
`FreeAfterCopy`, which are separate because the code holds no mutex across them; a frame
that is sent as it is goes through `AllocateForFrame`, `SendPixmap`, `FreeAfterFrame`.
There is one `copy` of the stored frame for all threads, and the end of any `Send` frees it
(`FreeJpgMemory`): a timer thread that then calls SendPixmap sends nothing. There is one
screen buffer too. `Allocate` by one thread while another is between its own allocation and
its release leaves both with a buffer they no longer own (`torn`): what they send may be
another image or no use, and writing or freeing it may end the process; `CopyFrame` takes
the copy from under another timer thread in the same way. `damage` records that this has
happened. All frames have one size, so that the length read outside the mutex is right. `JudgeStaticImage` is the gate of a static screen (`static`),
which borrows `isStartCount` to note its first frame; `isOutOfSeconds` says that its
time is over. `spaced` is an IDE that waits for the image of a document. Frames dropped
on request (`DropFrame`) are left out.

### SharedData, ObservedValues
A value is abstracted to the number of accepted changes before it (`version`): the
properties tell old from new, not values. A value outside its type's range is rejected
and changes nothing. `CheckAll` collects one group under its mutex, `CallBack` calls
back without it. Each type has one consumer, as in today's registrations; a second one
would lose changes, since the first to poll clears the flag. `gap` is a history
variable for `Paced`. `ObservedValues` has only values on offer and values shown:
`KeepsWatchersInformed` maps `version` to `latest` and `seen` to `shown`.

### DeviceConfig
`size`/`orientation` are `JsAppImpl`'s, `args` is `aceRunArgs`, `screen` is
`VirtualScreen`, `surface` what the engine was told, `window` the GLFW window. A
handler is a chain of steps (`step`): the arguments take the size, `VirtualScreen` the
original and then the compressed resolution, the density is computed from
`VirtualScreen`, `JsAppImpl` reads its size back from `VirtualScreen`, then the
orientation is set, the resize posted and the engine told. `LoadDocument` takes
everything from its parameters; the command's check makes `previewParam` an object
with all members, so the null branch of `ParseSystemParams` is unreachable. Frames
store their size in two steps. A density is a fraction in units of the base density.
Width and height of one size are read or written in one step. `habits`: "overlap"
(commands while frames are under way), "preview" (LoadDocument), "scaled" (resolutions
that compress).

### StartParameters
`ParseToken` is one round of the loop of `ProcessingCommand`, with its rule for how many
values an option takes (`Arity`, `TakenAt`). `Checks` is the list of the 25 checks in
the order of `IsCommandValid`; each is an operator of the name of its method that says
when it accepts, what it assigns to the configuration and which options it asks for
through `Value`, which sets them. `StartRich` and `StartThin` are what the two `main`
functions hand to `JsApp`, `VirtualScreen` and `SharedData`. A value is a string of
which the model knows only what the code looks at: what `atoi` reads, which regular
expression it matches, whether such a file exists. The argument map is a function that
grows with `With`; the empty string, the options with one
value (`Singles`) and large numbers have names, which the provers can keep folded.

### CommandSession
The pipe holds pieces of messages (a message may be written in two); `ReadPipe` reads
up to the end of a message or of what is there, so that the front of a message whose
rest is still to come is taken for a message and dropped. `ProcessCommand` is one round
of the command loop: read, parse, look the command up, check it, run it, answer. `Start`
fills `typeMap` for the device as the factory does; every command has its check and its
effect, the latter as values stored (`data`) and as calls made (`calls`)
into the components that have a module of their own. `ApplyConfigMember` runs the members
of the configuration file through the same commands: the arguments are checked and
the value is set, and nothing is answered unless the command is unknown.
`CreatCommandToSendData` is a notice of the engine. A JSON value is its type and a
number or a string, so that checks of the type and narrowing conversions (modulo 256)
are kept; `Strings` are the members that a command takes as a string whatever they are.
The language starts as what -l says, which no check looks at (`setup.language`). A
MemoryRefresh is answered what the engine says to it (`Outcomes`). `Over` and `Only` build functions without the module `TLC`, whose operators the
provers do not know.

### LiteApp
`main` and `js` are the program points of the two threads. `CreateAbility`, `Launch`,
`Show`, `EndOfStartJsApp` are the steps of `StartJsApp`, `RunTimerTick` is a pass over
the timers, which puts callbacks into the queue; `BeginCallback` to `EndOfTick` empty it
from its end, as the code does. The three timers of the previewer and those of the
application (`Natives`) share one manager. Callbacks of the application may start and
stop timers while they run. Lists are filtered with a recursive function (`KeepOnly`),
which the proofs can unfold. The exit goes through `Stop`, `ClearAllAsyncWork`,
`HideAndDestroy`, `Reset`, `Finish`, `SetInterrupt`, each a single access of what the JS
thread reads. `calm` is an IDE that exits while the JS thread sleeps between two ticks.

### LiteDevices
`engine` is the program point of the JS thread. `SetLongitude` and `SetLatitude` are the two stores of a Location command,
`ReadToCompare` and `IsPostionChanged` the two reads of the device check, `Ask`,
`ReadLatitude` and `SerializeLocData` a callback with its own two reads; subscribing
calls back at once. `onward` is an IDE whose device does not return to where it was.
`LockReceivers`, `CallReceiver`, `UnlockReceivers` give a message to every receiver under
the mutex that `RegistBundle` and `UnregistBundle` need. What a thread keeps in local
variables is reset when the call is over.

## 4. Runs

| Run | Instance | States | Shows |
|---|---|---|---|
| `task_queue` | 2 posters (command thread, main thread), delays 0 and 1, 3 tasks, clock to 2 | 129 184 | order; every task runs unless stopped; `EventRunner` implements `DelayedTasks` |
| `launch` | 2 modes, creation may fail, all 8 choices of `early`, documents in foreign modes or not | 17 452 | no null dereference in service, the signal is sent once and is not lost, an `exit` ends the process, arguments and page agree on the mode if it is changed after the launch, and so does the stored mode if documents do not change it |
| `exit_before_start` | the same without failure, violation | - | an `exit` before `Start` arms itself is lost (finding) |
| `image_channel` | 3 connections, 4 images of lengths 2 and 1 in turn, both previewers, calm or not, no overlap | 10 416 | the client has the latest image, images never go back by more than one (by none if calm), the kept image is sent whole, the writer is released |
| `load_document` | 2 documents, 4 stored frames, static or not, spaced or not | 238 050 | one waiting timer; no frame stranded and every document shown if spaced, as long as no two threads use a shared buffer at once; none shown on a static screen |
| `shared_data` | 3 types in 2 groups, 2 threads, periods 1 and 2, counter modulo 2, 2 changes of each | 84 600 | no change lost, every change delivered, paced; `SharedData` implements `ObservedValues` |
| `device_config` | 3 resolutions (upright, flat, compressed), 2 previews, 2 device types, with and without -sd, 3 commands, all 8 choices of `habits` | 4 754 452 | the window follows the size whatever happens; sizes, orientation and density agree for IDEs that wait |
| `start_parameters` | 30 260 command lines of both programs: legal ones, tokens before, any option with any of 25 values behind | 650 366 | who starts has the configuration the command line means and does what was asked for |
| `command_session` | every pair of some 80 messages, whole or torn, 5 set-ups (lite, static, rich, card, unknown device), 2 configuration files, 1 notice | 821 205 | answers in order, refusals change nothing (MemoryRefresh may be refused by the engine it has called), accepted values are stored and values are in range, `exit` is obeyed |
| `command_range` | the same, violation | - | Brightness and StepCount are checked modulo 256 (finding) |
| `lite_app` | 1 native timer with delay 0 or 1, 2 works, intervals 1, 2 and 2 | 224 979 | callbacks and work run as often and in the order they should; a calm `exit` is clean, every `exit` ends the process |
| `lite_devices` | coordinates 0 to 2, 2 callbacks, 2 receivers, symmetry of either | 6 192 228 | a watcher with a torn or old position is told again; no receiver is called after it was unregistered |

**Why the bounds suffice.** Three tasks are the fewest with which a task can be overtaken
across two batches. Three connections give a reconnection after a reconnection; four images
put one before, during and after each; two lengths give a kept image shorter than the one
before. Two documents give a timer that outlives its document and then meets another; four stored
frames give two timer threads that send at once while further frames are stored or sent. Two changes of a type are a
change during the delivery of another. The tick counter wraps every two polls; the periods
divide the wrap (in the code one of 50 does not divide 2^32: see `Pacing` in section 6). Three commands give a resolution,
a document and an orientation in any order. A check of an option depends on that option and
on one or two others that a base line gives, so one option behind a base line, tokens before
it and its repetition cover the ways in which checks differ. The messages are, for
each command, a legal one and the values its checks tell apart; a command's effect depends
on the one before it only through stored values and the state of the pipe, so pairs suffice.
One timer of the application runs beside the three of the previewer; two works are one
appended while another is under way. Three values of a coordinate are a write during the
comparison and another during the callback. `SYMMETRY` is used in `lite_devices` only: it
states no liveness, and neither callbacks nor receivers are told apart. Where a proof
exists (section 6) the bounds do not matter.

**Deadlock** is checked for `launch`, `shared_data`, `start_parameters` and `lite_devices`.
The other models stop when a bound on tasks, images, documents or messages is used up or
when the previewer has exited; their configurations switch the check off. What must not
get stuck is stated as a liveness property instead.

## 5. Fairness

Weak fairness is assumed for steps that a thread takes by itself and that nothing can
disable for ever: the clock, the loop of the main thread and pushes already begun
(`EventRunner`), both threads (`RichLaunch`, `LiteApp`, with the clock of the latter), the
rendering thread within one image and the callback that the server asked for with
`lws_callback_on_writable` (`ImageChannel`), the return from the engine, the frame that a
loaded document is sure to cause, and the timer threads (`LoadDocImage`), the polls of the
100 ms timers (`SharedData`), and the command loop with the start before it
(`CommandSession`). It is what the scheduler of the operating system gives: the code has no
busy lock that a thread could lose for ever. No fairness is assumed for the IDE (commands,
connections, the second half of a torn message), for the application's own calls, for
stopping, or for frames the engine need not draw. `DeviceConfig`, `StartParameters` and
`LiteDevices` state safety only.

## 6. Proofs

| Module | Theorems (for all constants) | Inductive invariant and why it is needed |
|---|---|---|
| `EventRunnerProofs` | `TypeCorrect`, `BatchSafety` (`NeverEarly`), `Placement` (`NothingLostOrRepeated`), `DrainOrder` (`NoOvertaking`), `FifoPerPoster` (`PosterFifo`), `StopsBetweenBatches` (`StopFinishesBatch`), `Implements` (`KeepsPromise`) | `NoOvertaking` says nothing of tasks still queued: `QueueBehindLog` does. `PosterFifo` needs due times to grow with the order of pushes of one poster and delay (`DueMonotone`), including the due time computed but not yet pushed (`DueBounds`). The refinement uses all of it: `RunTask` maps to `Perform`, whose guard is that no pending task goes first |
| `LaunchProofs` | `TypeCorrect`, `LaunchSafety` (`NoCrashInService`, `InspectorSafe`), `StartupSignal` (`SignalOnce`), `LateStopWaits` (`LateStopMeansStopped`), `ModesAgree` (`LateColorModesAgree`), `Configured` (`ConfigurationMeansArguments`), `OnlyWhatWasGiven` (`StartsWhatWasGiven`) | `AbilityKept`: once assigned, the pointer stays until the command thread leaves its loop; `StopAfterExit`: nothing stops the application before `exit` was received. `LateInv`, for an IDE that is not early: `LateStop`, Stop finds Start armed and waits for it; `FailedForGood`, a failed creation ends the process before any command; `ModesFollow`, which of the three copies a command or a document under way has changed, and that the stored mode can differ from the arguments only if documents have modes of their own (`DocumentMode`). `StartInv` is about the command line. `Parsed`: the map holds the last occurrence of every option read so far. `Understood`: asking for an option gives what the line means by it, although asking sets what was not given, which happens to four options only (`Asked`). `Settled`: a field has its default until its check has passed and then what the line means (`CheckOf` says which check that is, `Frame` that no other touches it). `Legal`: what the passed checks say of the values |
| `SharedDataProofs` | `TypeCorrect`, `NothingLost` (`NoLostChange`), `Implements` (`KeepsWatchersInformed`), `Pacing` (`Paced`, as long as `EvenWrap`) | `Waiting` relates the version in a collected pair to the flag, the value and the last callback; `OnePair`: a thread holds one pair per type, so pairs delivered in any order stay in order per type. Together they make `CallBack` a `Notify` of a newer value. `Counts`: since the last collection either a whole period of polls has passed, or as many as the counter is beyond a multiple of the period. It needs `EvenWrap`, that no counter wraps in the middle of a period, which is where the code would collect too early |
| `DeviceConfigProofs` | `TypeCorrect`, `WindowIsResized` (`WindowFollows`), `CopiesAgree` (`SizesAgree`), `OrientationFits` (`ShapeMatches`), `DensitySurvives` (`DensityKept`) | `ResizePending`: a size is changed only on the way to the step that posts a resize; `Carried` says where the new size is at every step of a handler; `CalmShape` that the orientation about to be announced fits the size about to be announced. `CalmDensity`: every resolution kept on the way equals its compressed one (`SameResolution`), so the fraction that the density is computed with is 1, and the arguments have it as commanded from the step that takes it on (`DpiFollows`) |
| `ImageChannelProofs` | `TypeCorrect`, `Resent` (`ResentWhole`), and for `Overlap = FALSE` `InOrder` (`NeverBackwards`), `Current` (`ScreenIsCurrent`) | `KeptWhole`: the rich previewer's kept length is its image's. `OneAtATime`: only the last connection can still be served, so no older one receives after it. `KeptIsLast`: the kept image is that of the last call of `Send` that returned, one behind while a call is under way, which is the race that `NeverBackwards` allows for. `CalmClients`: the client that is there has the kept image, or the one just written |
| `LoadDocImageProofs` | `TypeCorrect`, `OneTimer` (`OneWaitingTimer`), `StaticScreen` (`StaticShowsNoDocument`) | `OneCounting`: a thread that waits, or has expired without giving the permission back, is alone, and `isStartCount` is off meanwhile. `NoThread`: on a static screen the flag is taken before the first frame is stored, so that only the rendering thread ever sends and its frames are unstored ones |
| `LiteProofs` | of `LiteDevices`: `TypeCorrect`, `ReceiversStay` (`NoCallAfterUnregister`), `Informed` (`WrongIsNoticed`); of `LiteApp`: `WorkOrdered` (`WorkInOrder`), `CalmExit` (`CalmExitIsClean`), `NoExtra` (`NoExtraCallback`) | `Squeezed`: for a device that moves on, what was checked is at most what was told, which is at most the position, per coordinate and at every point between the reads; so what was told can differ from the position only if what was checked does. `WorkInv`: what ran, what the JS thread has taken and what is still listed are increasing and lie in this order, and only the work step has a batch. `CalmInv`: at every step of the exit of an application at rest the fields that the step uses are there, and the JS thread can only end. `TimerInv`: a timer is in the manager's list at most once and has at most one callback pending; one that fires once has its shot left, or a callback pending, or was called; a stopped timer is not listed. It rests on what `KeepOnly` computes, which is proved by induction |
| `CommandSessionProofs` | `ValuesInRange` (`DataInRange`), `AnswersMatch` (`AnsweredInOrder`), `ArgumentsKept` (`StoredAsSent`), `RefusalsAreClean` (`RefusalChangesNothing`) | Nearly all of it is about the 37 commands, not about the loop: `CommandsSound`, no command assigns a value out of range (`Possible`: a language is a supported one or that of -l) or answers like a refusal, except that MemoryRefresh, which stores nothing, asks the engine (`Asks`); `ArgumentsStored`, what passes the check of a value command is what it stores. `OneAnswer` brings every round of the loop to one answer for one message; `FileFirst`: no message is handled while the configuration file changes values |

Each theorem follows `Init => IInv`, `IInv /\ [Next]_vars => IInv'` and `IInv => Property`.
The assumptions are the named `ASSUME`s of the modules: sizes and densities are above
zero, bounds are natural numbers, the maps of `SharedData` are total. They hold in the
instances, where TLC evaluates them. `MessagesAssumption` of `CommandSession` is about its
encoding of JSON: the number of a member is an integer, of a bool 0 or 1, and the messages
for which the library throws are left out. `LinesAssumption`
and `OptionsAssumption` of `StartParameters` say that a command line is a list of strings
and that no option is among the values. `DensityKept`
has the premise that the first resolution is not compressed, which the proof asked for:
TLC's instance starts with an uncompressed one. `Pacing` has the premise `[]EvenWrap`: in
the code every period but the 50 of the heart rate divides 2^32, so it fails for that type
alone, once in 13 years; in TLC's instance it always holds. The type invariants are proved
and no run states them.

The library's induction theorems take an operator, which the provers do not instantiate.
`LiteProofs` derives an induction principle about sets of numbers instead (`Least`,
`Induction`), from the fact that the natural numbers are well-founded; `KeepOnly` is a
recursive function that `Kept` and its neighbours describe with it.

Every invariant that a run checks is stated by a theorem. `NeverEarly`,
`NothingLostOrRepeated`, `PosterFifo`, `StopFinishesBatch` and `InspectorSafe` are proved
and appear in no run. Only model-checked are the liveness properties (`EveryTaskRuns`,
`SignalIsSent`, `ExitEndsProcess`, `WriterReleased`, `StoredFrameIsSent`,
`SpacedImageIsSent`, `ChangeIsDelivered`, `ExitIsObeyed`, `WorkRuns`, `TimerRuns`,
`ExitEnds`), since the prover has no support for reasoning about fairness.

## 7. What the checks found

Two statements that the repository makes about itself are violated by the code; the runs
give the traces.

1. `exit_before_start`: an `exit` before `JsAppImpl::Start` sets `isFinished` (commands are
   served earlier) makes `JsApp::Stop` return and log that the application has stopped,
   while it starts and runs with nobody left to stop it.
2. `command_range`: StepCount is checked modulo 256, so that 1000000 is answered true and
   dropped by `SharedData`; Brightness is checked and stored modulo 256, so that 300 is
   answered true and stored as 44. `ThinPreviewer.cpp:103-114` gives both a range.

Other things seen, about which the repository states nothing. They are conditions of
properties, or outside the models, and not findings:

- `ColorMode` between the copy of the arguments and the assignment of `ability` is
  answered true and never shown (`early`);
- a close of the old connection that is reported after the new one is writable clears the
  flag of the new one, and `WriteData` waits although a client is connected (`Overlap`);
- a LoadDocument in another mode than the stored one leaves `JsApp::colorMode` as it was;
  a ColorMode back to the stored mode is then answered true and changes nothing (`foreign`);
- two threads that send at the same time share a screen buffer and a copy of the stored
  frame: an image may be lost or garbled, or the process end. That takes an IDE that does
  not wait for images, or a frame that the rendering thread had begun to handle when the
  window of a document ended (`damage`);
- -l takes any language, and an unsupported one is kept until a Language command;
  Power given as a string of digits passes the check and ends the process, since `asFloat`
  throws and nothing catches it (excluded by `MessagesAssumption`); MemoryRefresh may be
  answered false after the engine was called;
- the timer of one document closes the window that the next LoadDocument opened; that
  document's frame is dropped although the command was answered true (`spaced`);
- a client that reconnects between the write of an image and its copy into the cache is
  sent an image one older than what its predecessor saw (`calm`); the lite previewer may
  send the kept image with the length of an older one (`lite`);
- a frame of the old size that is stored during a ResolutionSwitch leaves `JsAppImpl`'s
  size different from the arguments' (habit "overlap");
- frames overwrite the original resolution, so the density of a compressed screen changes
  with the next Orientation (habit "scaled"); LoadDocument neither stores its orientation
  in `JsAppImpl` nor keeps the commanded density: it sets the one of -sd again
  (habit "preview");
- a static card ignores every command but ResolutionSwitch, `exit` among them;
- a native timer with delay 0 never fires (`TimerRuns`), and callbacks that become due in
  one tick run in reverse order (`util/CallbackQueue.cpp:29`);
- an `exit` that finds the JS thread in a launch, a callback or work may end in a null
  dereference or in a call into the destroyed engine (`calm`);
- a position that is left and returned to between two device checks is never told
  (`onward`); a message callback that registers or unregisters a receiver waits for its
  own mutex for ever (`mock/lite/VirtualMessageImpl.cpp:61`; the model's receivers return);
- in a debug preview `ability` stays null: Orientation then changes `JsAppImpl`'s copies
  and tells neither the engine nor the window (`jsapp/rich/JsAppImpl.cpp:137`),
  LoadDocument does nothing although it is answered true, and a call that does not test
  the pointer (`GetJSONTree`, `DispatchBackPressedEvent`) ends the process;
- `-f` without `-s` applies the configuration file with a null socket;
  DropFrame may lose the last frame of an animation (`mock/VirtualScreen.cpp:241`); the map
  of timer managers has no mutex (`util/CppTimerManager.cpp:27`).

## 8. Not modelled

- the debug launch (simulator, `PreviewerWindow`), on Windows and macOS only: it hands the
  arguments to a simulator outside this repository and leaves `ability` null;
- the drawing of regions into the lite frame buffer and their JPEG encoding; encodings in
  general: JPEG, headers and JSON text; images are numbers with a length;
- what exactly two threads do to the screen buffer they share once they use it at the same
  time (`mock/rich/VirtualScreenImpl.cpp:58`): `LoadDocImage` says that it happens and lets
  anything follow from it, within the images sent;
- frames of different sizes in one LoadDocument window; `lengthTemp` is read outside the
  mutex when the screen buffer is allocated;
- JSON arrays and objects where a command converts to a string, for which the library
  throws;
- frames dropped by `DropFrame`, which depends only on the time between frames;
- the engine: it renders when asked, takes over a surface some time after it was told, and
  may draw at any moment; these steps are marked external;
- the thin mocks of the lite engine (brightness, battery, sensors, vibrator, system
  parameters): each translates one call into one access of the shared data or of a table;
- input devices: fields that a command writes. The rich previewer hands them to the engine
  in the same call; the lite engine samples them as it likes, so that a press and a release
  between two samples are lost (`mock/lite/MouseWheelImpl.cpp:30` is listed as a hazard);
- connecting the pipe, files, JSON, logging, clipboard, crash handlers, the stage context
  (reading of module files): wrappers without a protocol of their own;
- `automock/`: a build-time generator of TypeScript mocks.

## 9. Running

In this directory: `tlc -config MCEventRunner.cfg MCEventRunner.tla` and so on for each
pair in `PROJECT.json`, `tlapm EventRunnerProofs.tla` for a proof module. The longest runs
(`device_config`, `start_parameters`, `lite_devices`, `load_document`) take about two minutes with two
workers, each proof module less than a minute.
