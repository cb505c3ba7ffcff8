------------------------- MODULE LoadDocImageProofs -------------------------
(***************************************************************************)
(* Proofs about LoadDocImage: types, the one timer thread that waits, and  *)
(* what a static screen never shows, for any number of documents, frames   *)
(* and threads.                                                            *)
(***************************************************************************)
EXTENDS LoadDocImage, FiniteSetTheorems, TLAPS

\* A frame on its way to the store has room there.
Room == render \in {"gated", "judged", "storing"} => temp.order < MaxFrames

TimerStates == {"unborn", "waiting", "expired", "copying", "allocating", "calling", "sending",
                "written", "over"}
Threads == Timers \cup {Renderer}

\* The part of TypeOK about the shared buffers.
SendOK ==
    /\ copy \in Images /\ sent \subseteq Images
    /\ torn \subseteq Threads
    /\ damage \in {"none", "clashed", "crashed"}

Counting == {"waiting", "expired"}
\* At most one thread has not yet given the permission back, and none has while
\* the permission is there.
OneCounting ==
    /\ \A t, u \in Timers : timer[t] \in Counting /\ timer[u] \in Counting => t = u
    /\ isStartCount => \A t \in Timers : timer[t] \notin Counting

\* On a static screen the permission is gone before a frame can be stored.
NoThread ==
    static => /\ \A t \in Timers : timer[t] = "unborn"
              /\ render \in {"judged", "storing", "stored", "sending", "drawing", "drawn"} =>
                    ~isStartCount

-----------------------------------------------------------------------------
\* The variables of LoadDocImage keep their types, and a frame is stored only
\* within the bound.
THEOREM TypeCorrect == Spec => [](TypeOK /\ Room)
<1> USE BoundsAssumption DEF TypeOK, Room, Images, NoImage, Timers, INIT, FINISHED, START, NORMAL
<1>1. Init => TypeOK /\ Room
  <2> SUFFICES ASSUME Init PROVE TypeOK /\ Room
    OBVIOUS
  <2>1. /\ isStartCount \in BOOLEAN /\ loading \in BOOLEAN /\ due \in BOOLEAN /\ spaced \in BOOLEAN
        /\ static \in BOOLEAN /\ isOutOfSeconds \in BOOLEAN
    BY Zenon DEF Init
  <2>2. /\ startLoadDoc \in {INIT, FINISHED, START, NORMAL}
        /\ doc \in 0..MaxDocs /\ frame \in 0..MaxDocs
        /\ render = "idle"
        /\ temp \in Images /\ Room /\ sent \subseteq Images /\ copy \in Images
        /\ torn \subseteq Timers \cup {Renderer} /\ damage \in {"none", "clashed", "crashed"}
    BY DEF Init
  <2>3. timer = [t \in Timers |-> "unborn"]
    BY DEF Init
  <2> QED
    BY <2>1, <2>2, <2>3
<1>2. TypeOK /\ Room /\ [Next]_vars => (TypeOK /\ Room)'
  <2> SUFFICES ASSUME TypeOK, Room, [Next]_vars
               PROVE  (TypeOK /\ Room)'
    OBVIOUS
  <2> USE DEF cmdVars, renderVars, sendVars, staticVars
  <2>1. CASE UNCHANGED vars
    BY <2>1 DEF vars
  <2>2. CASE LoadDocument
    BY <2>2 DEF LoadDocument
  <2>3. CASE LoadDocumentReturns
    BY <2>3 DEF LoadDocumentReturns
  <2>4. CASE CallBack
    <3>1. isStartCount' \in BOOLEAN /\ loading' \in BOOLEAN /\ due' \in BOOLEAN /\ spaced' \in BOOLEAN
          /\ static' \in BOOLEAN /\ isOutOfSeconds' \in BOOLEAN
      BY <2>4, Zenon DEF CallBack
    <3>2. FramesOwed >= 0 /\ FramesOwed \in Int
      BY DEF FramesOwed
    <3>3. temp.order \in 0..MaxFrames /\ temp.order < MaxFrames
      BY <2>4, <3>2 DEF CallBack
    <3>4. /\ frame' = doc /\ render' \in {"idle", "gated"}
          /\ UNCHANGED <<startLoadDoc, temp, doc, timer, sendVars>>
      BY <2>4 DEF CallBack
    <3> HIDE DEF Images
    <3> QED
      BY <3>1, <3>3, <3>4
  <2>5. CASE JudgeStaticImage
    BY <2>5 DEF JudgeStaticImage
  <2>6. CASE LoadDocCallback
    BY <2>6 DEF LoadDocCallback
  <2>7. CASE StoreFrame
    <3>1. isStartCount' \in BOOLEAN /\ loading' \in BOOLEAN /\ due' \in BOOLEAN /\ spaced' \in BOOLEAN
          /\ static' \in BOOLEAN /\ isOutOfSeconds' \in BOOLEAN
      BY <2>7, Zenon DEF StoreFrame
    <3>2. temp.order \in 0..MaxFrames /\ temp.order < MaxFrames
      BY <2>7 DEF StoreFrame
    <3>3. temp' \in Images
      BY <2>7, <3>2 DEF StoreFrame
    <3>4. render' = "stored" /\ UNCHANGED <<startLoadDoc, doc, frame, timer, sendVars>>
      BY <2>7 DEF StoreFrame
    <3> HIDE DEF Images
    <3> QED
      BY <3>1, <3>3, <3>4
  <2>8. CASE SpawnTimer
    BY <2>8 DEF SpawnTimer
  <2>9. NoImage \in Images
    OBVIOUS
  <2>10. Sending \subseteq Threads
    BY DEF Sending, Threads
  <2>11. ASSUME NEW s \in Threads, Allocate(s), UNCHANGED <<copy, sent>>
         PROVE  SendOK'
    <3> HIDE DEF Images, Timers
    <3> QED
      BY <2>10, <2>11 DEF Allocate, SendOK, Threads
  <2>12. ASSUME NEW s \in Threads, NEW i \in Images, WriteImage(s, i)
         PROVE  SendOK'
    <3> HIDE DEF Images, Timers, NoImage
    <3> QED
      BY <2>9, <2>12 DEF WriteImage, SendOK, Threads
  <2>13. ASSUME NEW s \in Threads, FreeJpgMemory(s)
         PROVE  SendOK'
    <3> HIDE DEF Images, Timers, NoImage
    <3> QED
      BY <2>9, <2>13 DEF FreeJpgMemory, SendOK, Threads
  <2>14. CASE DrawFrame
    <3>1. /\ render' \in {"drawing", "drawn", "idle"}
          /\ UNCHANGED <<startLoadDoc, isStartCount, temp, frame, due, cmdVars, timer, staticVars>>
      BY <2>14 DEF DrawFrame, AllocateForFrame, SendPixmap, FreeAfterFrame
    <3>2. SendOK'
      <4>1. Renderer \in Threads
        BY DEF Threads
      <4>2. [doc |-> frame, order |-> temp.order, stored |-> FALSE] \in Images
        OBVIOUS
      <4>3. CASE AllocateForFrame
        BY <2>11, <4>1, <4>3 DEF AllocateForFrame
      <4>4. CASE SendPixmap /\ ~(static /\ isOutOfSeconds)
        BY <2>12, <4>1, <4>2, <4>4 DEF SendPixmap
      <4>5. CASE SendPixmap /\ static /\ isOutOfSeconds
        <5> HIDE DEF Images, Timers
        <5> QED
          BY <4>5 DEF SendPixmap, SendOK, Threads
      <4>6. CASE FreeAfterFrame
        BY <2>13, <4>1, <4>6 DEF FreeAfterFrame
      <4> QED
        BY <2>14, <4>3, <4>4, <4>5, <4>6 DEF DrawFrame
    <3> HIDE DEF Images, Timers
    <3> QED
      BY <3>1, <3>2 DEF SendOK, Threads
  <2>15. ASSUME NEW t \in Timers, StartTimer(t) PROVE (TypeOK /\ Room)'
    <3>1. CASE Expire(t)
      BY <2>15, <3>1 DEF Expire, At
    <3>2. CASE AllowNextTimer(t)
      BY <2>15, <3>2 DEF AllowNextTimer, At
    <3>3. CASE ~Expire(t) /\ ~AllowNextTimer(t)
      <4>1. /\ timer' \in [Timers -> TimerStates]
            /\ UNCHANGED <<startLoadDoc, isStartCount, temp, cmdVars, renderVars, staticVars>>
        BY <2>15, <3>3 DEF StartTimer, CopyFrame, AllocateForCopy, SendPixmapOfCopy, SendCopy,
           FreeAfterCopy, At, TimerStates
      <4>2. t \in Threads
        BY DEF Threads
      <4>3. SendOK'
        <5>1. CASE CopyFrame(t)
          <6> HIDE DEF Images
          <6> QED
            BY <5>1 DEF CopyFrame, SendOK, Threads
        <5>2. CASE AllocateForCopy(t)
          BY <2>11, <4>2, <5>2 DEF AllocateForCopy
        <5>3. CASE SendPixmapOfCopy(t)
          <6> HIDE DEF Images, Timers, NoImage
          <6> QED
            BY <5>3 DEF SendPixmapOfCopy, SendOK, Threads
        <5>4. CASE SendCopy(t)
          BY <2>12, <4>2, <5>4 DEF SendCopy
        <5>5. CASE FreeAfterCopy(t)
          BY <2>13, <4>2, <5>5 DEF FreeAfterCopy
        <5> QED
          BY <2>15, <3>3, <5>1, <5>2, <5>3, <5>4, <5>5 DEF StartTimer
      <4> HIDE DEF Images, Timers
      <4> QED
        BY <4>1, <4>3 DEF SendOK, Threads, TimerStates
    <3> QED
      BY <3>1, <3>2, <3>3
  <2> QED
    BY <2>1, <2>2, <2>3, <2>4, <2>5, <2>6, <2>7, <2>8, <2>14, <2>15 DEF Next, Render, HandleFrame
<1> QED
  BY <1>1, <1>2, PTL DEF Spec

-----------------------------------------------------------------------------
\* The permission is taken before a thread starts and given back when it has
\* waited (SpawnTimer, AllowNextTimer).
LEMMA Permission == Spec => []OneCounting
<1> USE DEF OneCounting, Counting, TypeOK
<1>1. Init => OneCounting
  BY DEF Init
<1>2. TypeOK /\ OneCounting /\ [Next]_vars => OneCounting'
  <2> SUFFICES ASSUME TypeOK, OneCounting, [Next]_vars
               PROVE  OneCounting'
    OBVIOUS
  <2>1. CASE UNCHANGED <<timer, isStartCount>>
    BY <2>1
  <2>2. CASE JudgeStaticImage
    BY <2>2 DEF JudgeStaticImage
  <2>3. CASE SpawnTimer
    BY <2>3 DEF SpawnTimer
  <2>4. ASSUME NEW t \in Timers, StartTimer(t) PROVE OneCounting'
    BY <2>4 DEF StartTimer, Expire, AllowNextTimer, CopyFrame, AllocateForCopy, SendPixmapOfCopy,
       SendCopy, FreeAfterCopy, At
  <2> QED
    BY <2>1, <2>2, <2>3, <2>4 DEF Next, Render, HandleFrame, LoadDocument, LoadDocumentReturns, CallBack,
       LoadDocCallback, StoreFrame, DrawFrame, AllocateForFrame, SendPixmap, FreeAfterFrame, vars
<1> QED
  BY <1>1, <1>2, TypeCorrect, PTL DEF Spec

\* At most one thread waits for its 300 ms, whatever commands and frames come
\* meanwhile (StartTimer, LoadDocCallback).
THEOREM OneTimer == Spec => []OneWaitingTimer
<1>1. OneCounting => OneWaitingTimer
  <2> SUFFICES ASSUME OneCounting PROVE OneWaitingTimer
    OBVIOUS
  <2> DEFINE W == {t \in Timers : timer[t] = "waiting"}
  <2>1. CASE W = {}
    BY <2>1, FS_EmptySet DEF OneWaitingTimer
  <2>2. ASSUME NEW t \in W PROVE OneWaitingTimer
    <3>1. W = {t}
      <4>1. \A u \in W : u \in Timers /\ t \in Timers /\ timer[u] \in Counting /\ timer[t] \in Counting
        BY <2>2 DEF Counting
      <4>2. \A u \in W : u = t
        BY <4>1 DEF OneCounting
      <4> QED
        BY <2>2, <4>2
    <3>2. Cardinality(W) = 1
      BY <3>1, FS_Singleton
    <3> QED
      BY <3>2 DEF OneWaitingTimer
  <2> QED
    BY <2>1, <2>2
<1> QED
  BY <1>1, Permission, PTL

\* On a static screen no image of a document is ever sent: JudgeStaticImage
\* takes the permission that LoadDocCallback's thread would need.
THEOREM StaticScreen == Spec => []StaticShowsNoDocument
<1> USE DEF NoThread, StaticShowsNoDocument, TypeOK
<1>1. Init => NoThread /\ StaticShowsNoDocument
  BY DEF Init
<1>2. TypeOK /\ NoThread /\ StaticShowsNoDocument /\ [Next]_vars => (NoThread /\ StaticShowsNoDocument)'
  <2> SUFFICES ASSUME TypeOK, NoThread, StaticShowsNoDocument, [Next]_vars
               PROVE  (NoThread /\ StaticShowsNoDocument)'
    OBVIOUS
  <2> USE DEF cmdVars, renderVars, sendVars, staticVars
  <2>1. CASE UNCHANGED <<timer, isStartCount, render, static, sent>>
    BY <2>1
  <2>2. CASE CallBack \/ LoadDocCallback \/ StoreFrame
    <3>1. UNCHANGED <<timer, static, sent, isStartCount>>
      BY <2>2, Zenon DEF CallBack, LoadDocCallback, StoreFrame
    <3>2. render' \in {"idle", "gated"} \/ render \in {"judged", "storing"}
      BY <2>2 DEF CallBack, LoadDocCallback, StoreFrame
    <3> QED
      BY <3>1, <3>2
  <2>3. CASE JudgeStaticImage
    <3>1. UNCHANGED <<timer, static, sent>>
      BY <2>3 DEF JudgeStaticImage
    <3>2. static /\ render' = "judged" => ~isStartCount'
      BY <2>3 DEF JudgeStaticImage
    <3>3. render' \in {"judged", "idle"}
      BY <2>3 DEF JudgeStaticImage
    <3> QED
      BY <3>1, <3>2, <3>3
  <2>4. CASE SpawnTimer
    BY <2>4 DEF SpawnTimer
  <2>5. CASE DrawFrame
    <3>1. UNCHANGED <<timer, static, isStartCount>> /\ render' \in {"drawing", "drawn", "idle"}
      BY <2>5 DEF DrawFrame, AllocateForFrame, SendPixmap, FreeAfterFrame
    <3>2. render \in {"sending", "drawing", "drawn"}
      BY <2>5 DEF DrawFrame, AllocateForFrame, SendPixmap, FreeAfterFrame
    <3>3. \A i \in sent' : i \in sent \/ ~i.stored
      BY <2>5 DEF DrawFrame, AllocateForFrame, SendPixmap, FreeAfterFrame, WriteImage, FreeJpgMemory,
         NoImage
    <3> QED
      BY <3>1, <3>2, <3>3
  <2>6. ASSUME NEW t \in Timers, StartTimer(t) PROVE (NoThread /\ StaticShowsNoDocument)'
    BY <2>6 DEF StartTimer, Expire, AllowNextTimer, CopyFrame, AllocateForCopy, SendPixmapOfCopy,
       SendCopy, FreeAfterCopy, At
  <2> QED
    BY <2>1, <2>2, <2>3, <2>4, <2>5, <2>6 DEF Next, Render, HandleFrame, LoadDocument, LoadDocumentReturns, vars
<1> QED
  BY <1>1, <1>2, TypeCorrect, PTL DEF Spec
=============================================================================
