---------------------------- MODULE LoadDocImage ----------------------------
(***************************************************************************)
(* The one image that the rich previewer sends for a LoadDocument command  *)
(* (mock/rich/VirtualScreenImpl: CallBack, LoadDocCallback, StartTimer;    *)
(* LoadDocumentCommand::RunSet).  Frames that the engine renders after the *)
(* command are stored; the first one starts a thread that waits 300 ms and *)
(* then sends whatever is stored.                                          *)
(*                                                                         *)
(* The buffer that is sent from and the copy of the stored frame are one   *)
(* of each for all threads, and only a part of their use is under the      *)
(* mutex: a Send frees both, and the sends of two threads can overlap.     *)
(*                                                                         *)
(* Documents are numbered in the order of the commands.  A frame is the    *)
(* document it shows, whether it was stored, and the number of frames      *)
(* stored until then.  All frames have one size.                           *)
(***************************************************************************)
EXTENDS Integers, FiniteSets

CONSTANTS MaxDocs,    (* bound on the LoadDocument commands                *)
          MaxFrames   (* bound on the frames stored                        *)

ASSUME BoundsAssumption == MaxDocs \in Nat /\ MaxFrames \in Nat

\* enum class LoadDocType: the order of the values matters to CallBack.
INIT == 3
FINISHED == 2
START == 1
NORMAL == 0

Timers == 1..MaxFrames
Renderer == 0   \* the rendering thread, among the threads that send

Images == [doc : 0..MaxDocs, order : 0..MaxFrames, stored : BOOLEAN]

\* A buffer that is null, and, among the images sent, one that is no use.
NoImage == [doc |-> 0, order |-> 0, stored |-> FALSE]

VARIABLES
    startLoadDoc,  (* the flag                                             *)
    isStartCount,  (* the next stored frame starts a timer thread          *)
    doc,           (* the document loaded last                             *)
    loading,       (* LoadDocumentCommand::RunSet is executing             *)
    due,           (* the engine still has to render the document          *)
    render,        (* where the rendering thread is in CallBack            *)
    frame,         (* the document that its frame shows                    *)
    temp,          (* loadDocTempBuffer                                    *)
    timer,         (* per timer thread: where it is in StartTimer          *)
    copy,          (* loadDocCopyBuffer                                    *)
    sent,          (* the images sent                                      *)
    torn,          (* the threads whose buffers another thread has taken   *)
    damage,        (* "none", "clashed" once two threads have used a       *)
                   (* shared buffer at once, "crashed" if that ended it    *)
    static,        (* ScreenMode::STATIC                                   *)
    isOutOfSeconds,(* the 300 ms of a static screen are over               *)
    spaced         (* an IDE that waits for the image of a document before *)
                   (* it loads the next one                                *)

cmdVars == <<doc, loading, spaced>>
renderVars == <<render, frame, due>>
sendVars == <<copy, sent, torn, damage>>
staticVars == <<static, isOutOfSeconds>>
vars == <<startLoadDoc, isStartCount, temp, cmdVars, renderVars, timer, sendVars, staticVars>>

\* The flag has one of its four values, although timers and commands set it in
\* any order, and a timer thread exists at most once per stored frame.
TypeOK ==
    /\ startLoadDoc \in {INIT, FINISHED, START, NORMAL}
    /\ isStartCount \in BOOLEAN /\ loading \in BOOLEAN /\ due \in BOOLEAN
    /\ spaced \in BOOLEAN
    /\ doc \in 0..MaxDocs /\ frame \in 0..MaxDocs
    /\ render \in {"idle", "gated", "judged", "storing", "stored", "sending", "drawing",
                  "drawn"}
    /\ temp \in Images
    /\ timer \in [Timers -> {"unborn", "waiting", "expired", "copying", "allocating",
                             "calling", "sending", "written", "over"}]
    /\ copy \in Images
    /\ sent \subseteq Images
    /\ torn \subseteq Timers \cup {Renderer}
    /\ damage \in {"none", "clashed", "crashed"}
    /\ static \in BOOLEAN /\ isOutOfSeconds \in BOOLEAN

Init ==
    /\ startLoadDoc = INIT
    /\ isStartCount = TRUE
    /\ doc = 0 /\ loading = FALSE
    /\ due = FALSE /\ render = "idle" /\ frame = 0
    /\ temp = NoImage
    /\ timer = [t \in Timers |-> "unborn"]
    /\ copy = NoImage /\ sent = {}
    /\ torn = {} /\ damage = "none"
    /\ static \in BOOLEAN /\ isOutOfSeconds = FALSE
    /\ spaced \in BOOLEAN

-----------------------------------------------------------------------------
Settled == ~due /\ render = "idle" /\ \A t \in Timers : timer[t] \in {"unborn", "over"}

\* LoadDocumentCommand::RunSet: frames are dropped while the document loads.
LoadDocument ==
    /\ ~loading
    /\ doc < MaxDocs
    /\ spaced => Settled
    /\ startLoadDoc' = START
    /\ doc' = doc + 1
    /\ loading' = TRUE
    /\ UNCHANGED <<isStartCount, temp, spaced, renderVars, timer, sendVars, staticVars>>

\* Mutant of LoadDocumentReturns: the flag is left at START.
ReturnsWithoutFlag ==
    /\ loading
    /\ loading' = FALSE
    /\ due' = TRUE
    /\ UNCHANGED <<startLoadDoc, isStartCount, doc, spaced, render, frame, temp,
                   timer, sendVars, staticVars>>

\* The call into the engine has returned; the engine will render the document.
LoadDocumentReturns ==
    /\ loading
    /\ startLoadDoc' = FINISHED
    /\ loading' = FALSE
    /\ due' = TRUE
    /\ UNCHANGED <<isStartCount, doc, spaced, render, frame, temp, timer, sendVars, staticVars>>

-----------------------------------------------------------------------------
\* Bound: the frames that documents still to come are sure to need.
FramesOwed == (MaxDocs - doc) + IF loading THEN 1 ELSE 0

\* The engine hands a frame to CallBack: dropped, or past the first test.
CallBack ==
    /\ render = "idle"
    /\ temp.order + FramesOwed < MaxFrames
    /\ frame' = doc
    /\ due' = IF loading THEN due ELSE FALSE
    /\ render' = IF startLoadDoc < FINISHED THEN "idle" ELSE "gated"
    /\ UNCHANGED <<startLoadDoc, isStartCount, temp, cmdVars, timer, sendVars, staticVars>>

\* Mutant of JudgeStaticImage: it has a flag of its own.
JudgeWithOwnFlag ==
    /\ render = "gated"
    /\ render' \in IF ~static THEN {"judged"} ELSE IF isOutOfSeconds THEN {"idle"} ELSE {"idle", "judged"}
    /\ isOutOfSeconds' = (static /\ render' = "idle")
    /\ UNCHANGED <<startLoadDoc, isStartCount, frame, due, temp, cmdVars, timer, sendVars, static>>

\* A static screen shows what is rendered in the 300 ms after its first frame.
\* It notes that frame in the flag that also lets LoadDocCallback start a
\* thread.
JudgeStaticImage ==
    /\ render = "gated"
    /\ render' \in IF ~static \/ (isStartCount /\ ~isOutOfSeconds) THEN {"judged"}
                   ELSE IF isOutOfSeconds THEN {"idle"} ELSE {"idle", "judged"}
    /\ isOutOfSeconds' = (static /\ render' = "idle")
    /\ isStartCount' = (isStartCount /\ (~static \/ isOutOfSeconds))
    /\ UNCHANGED <<startLoadDoc, frame, due, temp, cmdVars, timer, sendVars, static>>

\* LoadDocCallback reads the flag again: store the frame, or send it as is.
LoadDocCallback ==
    /\ render = "judged"
    /\ render' = IF startLoadDoc = FINISHED THEN "storing" ELSE "sending"
    /\ UNCHANGED <<startLoadDoc, isStartCount, temp, frame, due, cmdVars, timer, sendVars, staticVars>>

\* The frame replaces the stored one, under the mutex.
StoreFrame ==
    /\ render = "storing"
    /\ temp' = [doc |-> frame, order |-> temp.order + 1, stored |-> TRUE]
    /\ render' = "stored"
    /\ UNCHANGED <<startLoadDoc, isStartCount, frame, due, cmdVars, timer, sendVars, staticVars>>

\* Mutant of SpawnTimer: every stored frame starts a thread.
SpawnAlways ==
    /\ render = "stored"
    /\ render' = "idle"
    /\ isStartCount' = FALSE
    /\ \E t \in Timers :
          /\ timer[t] = "unborn"
          /\ \A u \in 1..(t - 1) : timer[u] # "unborn"
          /\ timer' = [timer EXCEPT ![t] = "waiting"]
    /\ UNCHANGED <<startLoadDoc, temp, frame, due, cmdVars, sendVars, staticVars>>

\* After the mutex is released, the first stored frame starts the thread.
SpawnTimer ==
    /\ render = "stored"
    /\ render' = "idle"
    /\ isStartCount' = FALSE
    /\ IF isStartCount
       THEN \E t \in Timers :
               /\ timer[t] = "unborn"
               /\ \A u \in 1..(t - 1) : timer[u] # "unborn"
               /\ timer' = [timer EXCEPT ![t] = "waiting"]
       ELSE UNCHANGED timer
    /\ UNCHANGED <<startLoadDoc, temp, frame, due, cmdVars, sendVars, staticVars>>

-----------------------------------------------------------------------------
\* The threads between the allocation of the screen buffer and its release.
Sending == {t \in Timers : timer[t] \in {"calling", "sending", "written"}}
             \cup IF render \in {"drawing", "drawn"} THEN {Renderer} ELSE {}

\* A new screen buffer replaces that of a thread that is sending: from here on
\* neither knows what it writes to, or what the other frees.
Allocate(s) ==
    IF Sending = {} THEN UNCHANGED <<torn, damage>>
                    ELSE torn' = torn \cup Sending \cup {s} /\ damage' = "clashed"

\* Send writes an image to the socket.  A thread whose buffers are torn may send
\* it or one that is no use, or none, or end the process.
WriteImage(s, i) ==
    /\ \/ sent' = sent \cup {i} /\ UNCHANGED damage
       \/ s \in torn /\ sent' \in {sent, sent \cup {NoImage}} /\ UNCHANGED damage
       \/ s \in torn /\ damage' = "crashed" /\ UNCHANGED sent
    /\ UNCHANGED <<copy, torn>>

\* The end of Send: the buffers are freed, the copy of the stored frame among
\* them, whichever thread made it.
FreeJpgMemory(s) ==
    /\ copy' = NoImage
    /\ torn' = torn \ {s}
    /\ damage' \in IF s \in torn THEN {damage, "crashed"} ELSE {damage}
    /\ UNCHANGED sent

\* CallBack goes on to send the frame without storing it.
AllocateForFrame ==
    /\ render = "sending"
    /\ render' = "drawing"
    /\ Allocate(Renderer)
    /\ UNCHANGED <<startLoadDoc, isStartCount, temp, frame, due, cmdVars, timer, copy, sent,
                   staticVars>>

\* A static screen whose time is over sends nothing and frees nothing.
SendPixmap ==
    /\ render = "drawing"
    /\ IF static /\ isOutOfSeconds
       THEN render' = "idle" /\ torn' = torn \ {Renderer} /\ UNCHANGED <<copy, sent, damage>>
       ELSE /\ render' = "drawn"
            /\ WriteImage(Renderer, [doc |-> frame, order |-> temp.order, stored |-> FALSE])
    /\ UNCHANGED <<startLoadDoc, isStartCount, temp, frame, due, cmdVars, timer, staticVars>>

FreeAfterFrame ==
    /\ render = "drawn"
    /\ render' = "idle"
    /\ FreeJpgMemory(Renderer)
    /\ UNCHANGED <<startLoadDoc, isStartCount, temp, frame, due, cmdVars, timer, staticVars>>

-----------------------------------------------------------------------------
At(t, here, next) == timer[t] = here /\ timer' = [timer EXCEPT ![t] = next]

\* 300 ms have passed since the thread was started.
Expire(t) ==
    /\ At(t, "waiting", "expired")
    /\ startLoadDoc' = NORMAL
    /\ UNCHANGED <<isStartCount, temp, cmdVars, renderVars, sendVars, staticVars>>

\* Mutant of AllowNextTimer: the permission is never given back.
AllowNoTimer(t) ==
    /\ At(t, "expired", "copying")
    /\ UNCHANGED <<startLoadDoc, isStartCount, temp, cmdVars, renderVars, sendVars, staticVars>>

\* The next stored frame may start a thread again, before this one copies.
AllowNextTimer(t) ==
    /\ At(t, "expired", "copying")
    /\ isStartCount' = TRUE
    /\ UNCHANGED <<startLoadDoc, temp, cmdVars, renderVars, sendVars, staticVars>>

\* The stored frame is copied, under the mutex, to the buffer that another timer
\* thread may be about to send, or sending from.
CopyFrame(t) ==
    /\ At(t, "copying", "allocating")
    /\ copy' = temp
    /\ torn' = torn \cup {u \in Timers : timer[u] = "sending"}
    /\ damage' = IF \E u \in Timers : timer[u] \in {"allocating", "calling", "sending", "written"}
                 THEN "clashed" ELSE damage
    /\ UNCHANGED <<startLoadDoc, isStartCount, temp, cmdVars, renderVars, sent, staticVars>>

AllocateForCopy(t) ==
    /\ At(t, "allocating", "calling")
    /\ Allocate(t)
    /\ UNCHANGED <<startLoadDoc, isStartCount, temp, cmdVars, renderVars, copy, sent, staticVars>>

\* SendPixmap is given the copy as it is now, and sends nothing when another
\* Send has freed it.
SendPixmapOfCopy(t) ==
    /\ At(t, "calling", IF copy = NoImage THEN "over" ELSE "sending")
    /\ torn' = IF copy = NoImage THEN torn \ {t} ELSE torn
    /\ UNCHANGED <<startLoadDoc, isStartCount, temp, cmdVars, renderVars, copy, sent, damage,
                   staticVars>>

\* Timer threads run only when the screen is not static.
SendCopy(t) ==
    /\ At(t, "sending", "written")
    /\ WriteImage(t, copy)
    /\ UNCHANGED <<startLoadDoc, isStartCount, temp, cmdVars, renderVars, staticVars>>

FreeAfterCopy(t) ==
    /\ At(t, "written", "over")
    /\ FreeJpgMemory(t)
    /\ UNCHANGED <<startLoadDoc, isStartCount, temp, cmdVars, renderVars, staticVars>>

DrawFrame == AllocateForFrame \/ SendPixmap \/ FreeAfterFrame
HandleFrame == JudgeStaticImage \/ LoadDocCallback \/ StoreFrame \/ SpawnTimer \/ DrawFrame
Render == CallBack \/ HandleFrame
StartTimer(t) ==
    \/ Expire(t) \/ AllowNextTimer(t) \/ CopyFrame(t)
    \/ AllocateForCopy(t) \/ SendPixmapOfCopy(t) \/ SendCopy(t) \/ FreeAfterCopy(t)

Alive == damage # "crashed"

Next ==
    /\ Alive
    /\ \/ LoadDocument
       \/ LoadDocumentReturns
       \/ Render
       \/ \E t \in Timers : StartTimer(t)

Spec == Init /\ [][Next]_vars

\* The command ends, the engine renders a document once it is loaded, and the
\* threads run; nobody has to send a command or to render more than that.
FairSpec ==
    /\ Spec
    /\ WF_vars(Alive /\ LoadDocumentReturns)
    /\ WF_vars(Alive /\ due /\ CallBack)
    /\ WF_vars(Alive /\ HandleFrame)
    /\ \A t \in Timers : WF_vars(Alive /\ StartTimer(t))
-----------------------------------------------------------------------------
\* However frames and expiries interleave, one thread at most waits for the
\* 300 ms, so startTime, which all of them share, is not moved under its feet.
OneWaitingTimer == Cardinality({t \in Timers : timer[t] = "waiting"}) <= 1

\* On a static screen no document is ever shown: the flag that a thread would
\* need is taken by JudgeStaticImage, before every frame that is stored.
StaticShowsNoDocument == static => \A i \in sent : ~i.stored

\* No stored frame is stranded: on a screen that is not static it is sent, or a
\* later one is, even when it is stored while a thread is between setting the
\* flag and copying, or when a frame sent as it is frees the copy.  Only threads
\* that use a shared buffer at the same time can lose it.
StoredFrameIsSent ==
    \A n \in 1..MaxFrames :
        ~static /\ temp.order = n ~> (\E i \in sent : i.order >= n) \/ damage # "none"

\* An IDE that waits for each image gets the image of every document, if the
\* screen is not static, or else two threads have used a shared buffer at once.
SpacedImageIsSent ==
    \A d \in 1..MaxDocs :
        ~static /\ spaced /\ doc = d ~> (\E i \in sent : i.doc >= d) \/ damage # "none"
=============================================================================
