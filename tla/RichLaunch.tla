----------------------------- MODULE RichLaunch -----------------------------
(***************************************************************************)
(* The life of the rich previewer process (RichPreviewer.cpp, JsApp,       *)
(* jsapp/rich/JsAppImpl, CommandLineInterface) without a debugger.         *)
(*                                                                         *)
(* main() detaches the command thread before it initialises the            *)
(* application, so commands are served while the application is still      *)
(* being built, and the command thread that receives "exit" stops an       *)
(* application that may not run yet.  The two threads share plain          *)
(* variables; each action below is one access, or the accesses between two *)
(* points where the other thread can matter.                               *)
(***************************************************************************)

EXTENDS Naturals

CONSTANTS Modes,          (* colour modes                                  *)
          StartMode,      (* the mode given on the command line            *)
          DefaultMode,    (* the mode of a default AceRunArgs              *)
          CreationFails   (* may AceAbility::CreateInstance return null?   *)

ASSUME ModesAssumption == StartMode \in Modes /\ DefaultMode \in Modes
ASSUME FailureAssumption == CreationFails \in BOOLEAN

VARIABLES
    early,          (* kinds of command that this IDE sends also before    *)
                    (* the main loop runs                                  *)
    foreign,        (* this IDE loads documents in modes of their own      *)
    process,        (* "running", "exited" by main's return, or "crashed"  *)
    main,           (* what the main thread does next                      *)
    cmd,            (* what the command thread does next                   *)
    arg,            (* the argument of the ColorMode command in progress   *)
    ability,        (* JsAppImpl::ability: "none" or "live"                *)
    failed,         (* CreateInstance returned null                        *)
    isFinished,     (* JsApp::isFinished                                   *)
    isStop,         (* JsAppImpl::isStop                                   *)
    isInterrupt,    (* Interrupter::isInterrupt                            *)
    colorMode,      (* JsApp::colorMode                                    *)
    aceMode,        (* aceRunArgs.deviceConfig.colorMode                   *)
    shownMode,      (* the mode the ability renders with                   *)
    isFrameUpdated, (* VirtualScreenImpl::isFrameUpdated                   *)
    listening,      (* VirtualScreen::isWebSocketListening                 *)
    isFirstWsSend,  (* CommandLineInterface::isFirstWsSend                 *)
    signals         (* startup signals sent on the command pipe            *)

habits == <<early, foreign>>
life == <<habits, process, failed>>
stopVars == <<isFinished, isStop, isInterrupt>>
modeVars == <<arg, colorMode, aceMode, shownMode>>
wsVars == <<listening, isFirstWsSend, signals>>
vars == <<life, main, cmd, ability, stopVars, modeVars, isFrameUpdated, wsVars>>

MainStates == {"InitJsApp", "InitAll", "arm", "SetJsAppArgs", "CreateInstance",
               "publish", "SetWindow", "InitEnv", "loop", "linger"}
CmdStates == {"signal", "read", "ColorModeChanged", "notify", "document", "tick",
              "while", "Stop", "Interrupt", "stopped", "timedout"}

\* The command thread is still in its while loop.
Serving == cmd \in {"signal", "read", "ColorModeChanged", "notify", "document",
                    "tick", "while"}

FlagsOK ==
    /\ foreign \in BOOLEAN
    /\ failed \in BOOLEAN
    /\ isFinished \in BOOLEAN /\ isStop \in BOOLEAN /\ isInterrupt \in BOOLEAN
    /\ isFrameUpdated \in BOOLEAN
    /\ listening \in BOOLEAN /\ isFirstWsSend \in BOOLEAN

ModesOK == arg \in Modes /\ colorMode \in Modes /\ aceMode \in Modes /\ shownMode \in Modes

\* The program points of the two threads and the values of what they share.
TypeOK ==
    /\ early \subseteq {"exit", "inspector", "ColorMode"}
    /\ process \in {"running", "exited", "crashed"}
    /\ main \in MainStates
    /\ cmd \in CmdStates
    /\ ability \in {"none", "live"}
    /\ signals \in Nat
    /\ ModesOK
    /\ FlagsOK

Init ==
    /\ early \in SUBSET {"exit", "inspector", "ColorMode"}
    /\ foreign \in BOOLEAN
    /\ process = "running" /\ failed = FALSE
    /\ main = "InitJsApp" /\ cmd = "signal"
    /\ arg = DefaultMode /\ colorMode = DefaultMode
    /\ aceMode = DefaultMode /\ shownMode = DefaultMode
    /\ ability = "none"
    /\ isFinished = TRUE /\ isStop = FALSE /\ isInterrupt = FALSE
    /\ isFrameUpdated = FALSE
    /\ listening = FALSE /\ isFirstWsSend = TRUE /\ signals = 0

-----------------------------------------------------------------------------
MainAt(here, next) == process = "running" /\ main = here /\ main' = next
CmdAt(here, next) == process = "running" /\ cmd = here /\ cmd' = next

\* A call through JsAppImpl::ability: a null pointer ends the process.
CallAbility ==
    process' = IF ability = "live" THEN "running" ELSE "crashed"

\* InitJsApp: the command line's colour mode is stored.
InitJsApp ==
    /\ MainAt("InitJsApp", "InitAll")
    /\ colorMode' = StartMode
    /\ UNCHANGED <<life, cmd, ability, stopVars, arg, aceMode, shownMode,
                   isFrameUpdated, wsVars>>

\* Start: VirtualScreenImpl::InitAll starts the image server.
InitAll ==
    /\ MainAt("InitAll", "arm")
    /\ listening' = TRUE
    /\ UNCHANGED <<life, cmd, ability, stopVars, modeVars, isFrameUpdated,
                   isFirstWsSend, signals>>

\* Mutant of Arm: isFinished keeps its initial value.
ArmForgotten ==
    /\ MainAt("arm", "SetJsAppArgs")
    /\ UNCHANGED <<life, cmd, ability, stopVars, modeVars, isFrameUpdated, wsVars>>

\* Start: from here on JsApp::Stop waits for the application.
Arm ==
    /\ MainAt("arm", "SetJsAppArgs")
    /\ isFinished' = FALSE
    /\ UNCHANGED <<life, cmd, ability, isStop, isInterrupt, modeVars,
                   isFrameUpdated, wsVars>>

SetJsAppArgs ==
    /\ MainAt("SetJsAppArgs", "CreateInstance")
    /\ aceMode' = colorMode
    /\ UNCHANGED <<life, cmd, ability, stopVars, arg, colorMode, shownMode,
                   isFrameUpdated, wsVars>>

\* The new ability takes its mode from the arguments it is created with.
CreateInstance ==
    /\ MainAt("CreateInstance", "publish")
    /\ shownMode' = aceMode
    /\ UNCHANGED <<life, cmd, ability, stopVars, arg, colorMode, aceMode,
                   isFrameUpdated, wsVars>>

\* RunNormalAbility returns early, and Start enters its loop all the same.
CreateInstanceFails ==
    /\ CreationFails
    /\ MainAt("CreateInstance", "loop")
    /\ failed' = TRUE
    /\ UNCHANGED <<habits, process, cmd, ability, stopVars, modeVars, isFrameUpdated,
                   wsVars>>

\* Mutant of Publish: the new ability is kept in a local variable.
PublishLocal ==
    /\ MainAt("publish", "SetWindow")
    /\ UNCHANGED <<life, cmd, ability, stopVars, modeVars, isFrameUpdated, wsVars>>

\* The pointer is assigned: from here on the command thread sees the ability.
Publish ==
    /\ MainAt("publish", "SetWindow")
    /\ ability' = "live"
    /\ UNCHANGED <<life, cmd, stopVars, modeVars, isFrameUpdated, wsVars>>

SetWindow ==
    /\ MainAt("SetWindow", "InitEnv")
    /\ CallAbility
    /\ UNCHANGED <<habits, failed, cmd, ability, stopVars, modeVars, isFrameUpdated,
                   wsVars>>

InitEnv ==
    /\ MainAt("InitEnv", "loop")
    /\ CallAbility
    /\ UNCHANGED <<habits, failed, cmd, ability, stopVars, modeVars, isFrameUpdated,
                   wsVars>>

\* The engine renders; VirtualScreenImpl::SendPixmap marks the frame.
SendPixmap ==
    /\ process = "running"
    /\ main \in {"InitEnv", "loop"}
    /\ ability = "live"
    /\ ~isFrameUpdated
    /\ isFrameUpdated' = TRUE
    /\ UNCHANGED <<life, main, cmd, ability, stopVars, modeVars, wsVars>>

\* One turn of the loop of Start: the task queue runs, nothing here changes.
RunTasks ==
    /\ MainAt("loop", "loop")
    /\ ~isStop
    /\ UNCHANGED vars

\* The loop test of Start fails.
FinishStart ==
    /\ MainAt("loop", "linger")
    /\ isStop
    /\ isFinished' = TRUE
    /\ UNCHANGED <<life, cmd, ability, isStop, isInterrupt, modeVars,
                   isFrameUpdated, wsVars>>

\* main sleeps for 500 ms and returns; the detached thread goes with it.
ReturnFromMain ==
    /\ MainAt("linger", "linger")
    /\ process' = "exited"
    /\ UNCHANGED <<habits, failed, cmd, ability, stopVars, modeVars, isFrameUpdated,
                   wsVars>>

-----------------------------------------------------------------------------
\* Mutant of SendWebsocketStartupSignal: the flag is not cleared.
SignalRepeated ==
    /\ CmdAt("signal", "read")
    /\ signals' = IF listening /\ isFirstWsSend THEN signals + 1 ELSE signals
    /\ UNCHANGED <<life, main, ability, stopVars, modeVars, isFrameUpdated,
                   listening, isFirstWsSend>>

\* Mutant of SendWebsocketStartupSignal: the flag is cleared before the test.
SignalFlagEarly ==
    /\ CmdAt("signal", "read")
    /\ isFirstWsSend' = FALSE
    /\ signals' = IF listening /\ isFirstWsSend THEN signals + 1 ELSE signals
    /\ UNCHANGED <<life, main, ability, stopVars, modeVars, isFrameUpdated,
                   listening>>

\* CommandLineInterface::ProcessCommand announces the image server once.
SendWebsocketStartupSignal ==
    /\ CmdAt("signal", "read")
    /\ IF listening /\ isFirstWsSend
       THEN isFirstWsSend' = FALSE /\ signals' = signals + 1
       ELSE UNCHANGED <<isFirstWsSend, signals>>
    /\ UNCHANGED <<life, main, ability, stopVars, modeVars, isFrameUpdated,
                   listening>>

Sent(kind) == kind \in early \/ main = "loop"

ReadNothing ==
    /\ CmdAt("read", "tick")
    /\ UNCHANGED <<life, main, ability, stopVars, modeVars, isFrameUpdated,
                   wsVars>>

ExitCommand ==
    /\ CmdAt("read", "tick")
    /\ Sent("exit")
    /\ isInterrupt' = TRUE
    /\ UNCHANGED <<life, main, ability, isFinished, isStop, modeVars,
                   isFrameUpdated, wsVars>>

\* inspector, like BackClicked, KeyPress and MouseWheel, does not test ability.
InspectorJSONTree ==
    /\ CmdAt("read", "tick")
    /\ Sent("inspector")
    /\ CallAbility
    /\ UNCHANGED <<habits, failed, main, ability, stopVars, modeVars, isFrameUpdated,
                   wsVars>>

\* Mutant of ColorModeCommand: compared with the mode of the command line.
ColorModeCommandStart(m) ==
    /\ Sent("ColorMode")
    /\ IF m # StartMode
       THEN /\ CmdAt("read", "ColorModeChanged")
            /\ arg' = m
            /\ colorMode' = m
       ELSE /\ CmdAt("read", "tick")
            /\ colorMode' = m
            /\ UNCHANGED arg
    /\ UNCHANGED <<life, main, ability, stopVars, aceMode, shownMode,
                   isFrameUpdated, wsVars>>

\* ColorModeCommand::RunSet: a mode that differs from the stored one is kept...
ColorModeCommand(m) ==
    /\ Sent("ColorMode")
    /\ IF m # colorMode
       THEN /\ CmdAt("read", "ColorModeChanged")
            /\ arg' = m
            /\ colorMode' = m
       ELSE /\ CmdAt("read", "tick")
            /\ UNCHANGED <<arg, colorMode>>
    /\ UNCHANGED <<life, main, ability, stopVars, aceMode, shownMode,
                   isFrameUpdated, wsVars>>

\* ... written to the arguments of the ability ...
ColorModeChanged ==
    /\ CmdAt("ColorModeChanged", "notify")
    /\ aceMode' = arg
    /\ UNCHANGED <<life, main, ability, stopVars, arg, colorMode, shownMode,
                   isFrameUpdated, wsVars>>

\* ... and handed to the ability, if there is one.
OnConfigurationChanged ==
    /\ CmdAt("notify", "tick")
    /\ shownMode' = IF ability = "live" THEN aceMode ELSE shownMode
    /\ UNCHANGED <<life, main, ability, stopVars, arg, colorMode, aceMode,
                   isFrameUpdated, wsVars>>

\* JsAppImpl::LoadDocument does nothing without an ability.  With one,
\* SetSystemParams writes the mode of the document to the arguments, and not to
\* JsApp::colorMode ...
LoadDocument(m) ==
    /\ foreign \/ m = colorMode
    /\ CmdAt("read", IF ability = "live" THEN "document" ELSE "tick")
    /\ aceMode' = IF ability = "live" THEN m ELSE aceMode
    /\ UNCHANGED <<life, main, ability, stopVars, arg, colorMode, shownMode,
                   isFrameUpdated, wsVars>>

\* ... and the ability loads the document with the mode of the arguments.
ShowDocument ==
    /\ CmdAt("document", "tick")
    /\ shownMode' = aceMode
    /\ CallAbility
    /\ UNCHANGED <<habits, failed, main, ability, stopVars, arg, colorMode, aceMode,
                   isFrameUpdated, wsVars>>

\* RunTimerTick when the inspector timer is not due or has nothing to do.
RunTimerTick ==
    /\ CmdAt("tick", "while")
    /\ UNCHANGED <<life, main, ability, stopVars, modeVars, isFrameUpdated,
                   wsVars>>

NotifyInspectorChanged ==
    /\ CmdAt("tick", "while")
    /\ isFrameUpdated
    /\ isFrameUpdated' = FALSE
    /\ CallAbility
    /\ UNCHANGED <<habits, failed, main, ability, stopVars, modeVars, wsVars>>

\* The while condition of the command thread.
IsInterrupt ==
    /\ CmdAt("while", IF isInterrupt THEN "Stop" ELSE "signal")
    /\ UNCHANGED <<life, main, ability, stopVars, modeVars, isFrameUpdated,
                   wsVars>>

\* Mutant of Stop: the request is not stored.
StopWithoutFlag ==
    /\ CmdAt("Stop", IF isFinished THEN "stopped" ELSE "Interrupt")
    /\ UNCHANGED <<life, main, ability, stopVars, modeVars, isFrameUpdated, wsVars>>

\* JsApp::Stop: nothing to wait for, or one more call of Interrupt.
Stop ==
    /\ CmdAt("Stop", IF isFinished THEN "stopped" ELSE "Interrupt")
    /\ isStop' = (isStop \/ ~isFinished)
    /\ UNCHANGED <<life, main, ability, isFinished, isInterrupt, modeVars,
                   isFrameUpdated, wsVars>>

\* JsAppImpl::Interrupt drops the ability; Stop repeats or has waited too long.
Interrupt ==
    /\ process = "running"
    /\ cmd = "Interrupt"
    /\ cmd' \in {"Stop", "timedout"}
    /\ ability' = "none"
    /\ UNCHANGED <<life, main, stopVars, modeVars, isFrameUpdated, wsVars>>

-----------------------------------------------------------------------------
MainStep ==
    \/ InitJsApp \/ InitAll \/ Arm \/ SetJsAppArgs
    \/ CreateInstance \/ CreateInstanceFails \/ Publish \/ SetWindow \/ InitEnv
    \/ RunTasks \/ FinishStart \/ ReturnFromMain

CmdStep ==
    \/ SendWebsocketStartupSignal
    \/ ReadNothing \/ ExitCommand \/ InspectorJSONTree
    \/ \E m \in Modes : ColorModeCommand(m)
    \/ ColorModeChanged \/ OnConfigurationChanged
    \/ \E m \in Modes : LoadDocument(m)
    \/ ShowDocument
    \/ RunTimerTick \/ NotifyInspectorChanged
    \/ IsInterrupt \/ Stop \/ Interrupt

\* The process is gone.
Terminated == process # "running" /\ UNCHANGED vars

Next == MainStep \/ SendPixmap \/ CmdStep \/ Terminated

Spec == Init /\ [][Next]_vars

\* The operating system schedules both threads; nobody is obliged to send a
\* command, and the engine is not obliged to render.
FairSpec == Spec /\ WF_vars(MainStep) /\ WF_vars(CmdStep)
-----------------------------------------------------------------------------
\* While commands are served after a successful launch, no call through the
\* ability, by a command, by the inspector timer or by main, meets a null
\* pointer: only a command that came too early, a creation that failed or an
\* exit can crash the process.
NoCrashInService ==
    process = "crashed" =>
        failed \/ isInterrupt \/ (main # "loop" /\ "inspector" \in early)

\* The timer never looks into an ability that is not there (the inspector
\* timer of ProcessCommand tests isFrameUpdated, not the pointer).
InspectorSafe == Serving /\ isFrameUpdated => ability = "live"

\* The IDE is told once, and never before the image server was started.
SignalOnce == signals <= 1 /\ (signals = 1 => listening)

\* The startup signal is not lost when the server starts while the command
\* thread is anywhere in its loop.
SignalIsSent == listening ~> signals = 1 \/ isInterrupt \/ process = "crashed"

\* An exit command that does not come before the main loop ends the process.
ExitEndsProcess ==
    isInterrupt /\ "exit" \notin early ~> process # "running"

\* JsApp::Stop logs "js app stop finished" only when the application has left
\* its main loop.
StoppedMeansStopped == cmd = "stopped" => main = "linger"

\* The same for an IDE that sends exit only to an application that runs.
LateStopMeansStopped == "exit" \notin early => StoppedMeansStopped

\* Between two commands the page is shown in the mode that the arguments of the
\* ability name, and that is the stored mode too, unless the IDE loads documents
\* in modes of their own.
ColorModesAgree ==
    process = "running" /\ main = "loop" /\ ability = "live"
      /\ cmd \in {"signal", "read", "tick", "while"}
    => aceMode = shownMode /\ (foreign \/ colorMode = aceMode)

\* The same for an IDE that changes the mode only of a page that is shown.
LateColorModesAgree == "ColorMode" \notin early => ColorModesAgree
=============================================================================
