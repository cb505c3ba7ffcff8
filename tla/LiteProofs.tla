----------------------------- MODULE LiteProofs -----------------------------
(***************************************************************************)
(* Proofs about the lite previewer.                                        *)
(*                                                                         *)
(* LiteDevices: types, the message receivers, and that a watcher with an   *)
(* outdated position is told again, for any number of coordinates,         *)
(* callbacks and bundles.                                                  *)
(*                                                                         *)
(* LiteApp: the asynchronous work, the exit of an application at rest and  *)
(* the timers, for any number of timers and works and any intervals.  The  *)
(* two modules are parts of one program and name their definitions apart.  *)
(*                                                                         *)
(* What KeepOnly computes is proved by induction on the length of the      *)
(* list.  The induction principle of the library takes an operator, which  *)
(* the provers do not instantiate; Least derives one about sets from       *)
(* well-foundedness, and Induction says it the usual way.                  *)
(***************************************************************************)
EXTENDS LiteApp, LiteDevices, SequenceTheorems, WellFoundedInduction, TLAPS

-----------------------------------------------------------------------------
\* A call that is under way has a listener; a subscription has a callback.
Addressed ==
    /\ engine \in {"calling", "reading"} => listener \in Callbacks
    /\ isSubscribe => callBack \in Callbacks

\* The variables of LiteDevices keep their types, and callbacks go to somebody.
THEOREM TypeCorrect == DevicesSpec => [](TypeOK /\ Addressed)
<1> USE CallbacksAssumption DEF TypeOK, Addressed, Position, Coordinates, Origin
<1>1. DevicesInit => TypeOK /\ Addressed
  <2> SUFFICES ASSUME DevicesInit PROVE TypeOK /\ Addressed
    OBVIOUS
  <2>1. subscribing \in BOOLEAN /\ isSubscribe \in BOOLEAN /\ onward \in BOOLEAN
    BY Zenon DEF DevicesInit
  <2> QED
    BY <2>1 DEF DevicesInit
<1>2. TypeOK /\ Addressed /\ [DevicesNext]_deviceVars => TypeOK' /\ Addressed'
  <2> SUFFICES ASSUME TypeOK, Addressed, [DevicesNext]_deviceVars PROVE TypeOK' /\ Addressed'
    OBVIOUS
  <2> USE DEF sharedVars, watchVars, engineVars, messageVars
  <2>1. CASE Commands
    BY <2>1 DEF Commands, SetLongitude, SetLatitude, LockReceivers, CallReceiver, UnlockReceivers
  <2>2. CASE ReadToCompare
    BY <2>2 DEF ReadToCompare
  <2>3. CASE IsPostionChanged
    <3> DEFINE p == [longitude |-> read, latitude |-> position.latitude]
    <3>1. p \in Position
      OBVIOUS
    <3>2. CASE Changed(p) /\ callBack # None /\ isSubscribe
      BY <2>3, <3>1, <3>2 DEF IsPostionChanged
    <3>3. CASE ~(Changed(p) /\ callBack # None /\ isSubscribe)
      BY <2>3, <3>1, <3>3 DEF IsPostionChanged
    <3> QED
      BY <3>2, <3>3
  <2>4. CASE ReadLatitude
    BY <2>4 DEF ReadLatitude
  <2>5. CASE SerializeLocData
    <3>1. told' \in [Callbacks -> Position]
      BY <2>5 DEF SerializeLocData
    <3>2. /\ engine' = "idle" /\ read' = 0 /\ listener' = None
          /\ UNCHANGED <<position, target, command, checked, receivers, calling, onward>>
      BY <2>5 DEF SerializeLocData
    <3>3. subscribing' \in BOOLEAN
      BY <2>5, Zenon DEF SerializeLocData
    <3>4. listener \in Callbacks
      BY <2>5 DEF SerializeLocData
    <3>5. CASE callBack' = listener /\ isSubscribe' = TRUE
      BY <3>1, <3>2, <3>3, <3>4, <3>5
    <3>6. CASE UNCHANGED <<callBack, isSubscribe>>
      BY <3>1, <3>2, <3>3, <3>6
    <3> QED
      BY <2>5, <3>5, <3>6 DEF SerializeLocData
  <2>6. CASE \E c \in Callbacks : GetGeoLocation(c) \/ SubGeoLocation(c)
    <3>1. PICK c \in Callbacks, sub \in BOOLEAN : Ask(c, sub)
      BY <2>6 DEF GetGeoLocation, SubGeoLocation
    <3>2. subscribing' \in BOOLEAN
      BY <3>1, Zenon DEF Ask
    <3> QED
      BY <3>1, <3>2 DEF Ask
  <2>7. CASE \E c \in Callbacks : UnSubGeoLocation(c) \/ DestroyGeoLocation(c)
    BY <2>7 DEF UnSubGeoLocation, DestroyGeoLocation
  <2>8. CASE \E b \in Bundles : RegistBundle(b) \/ UnregistBundle(b)
    BY <2>8 DEF RegistBundle, UnregistBundle
  <2>9. CASE UNCHANGED deviceVars
    BY <2>9 DEF deviceVars
  <2> QED
    BY <2>1, <2>2, <2>3, <2>4, <2>5, <2>6, <2>7, <2>8, <2>9 DEF DevicesNext, CheckDevice, CallBack, Requests
<1> QED
  BY <1>1, <1>2, PTL DEF DevicesSpec

-----------------------------------------------------------------------------
\* No message is given to a receiver that has been unregistered: the receivers
\* do not change while the main thread holds the mutex.
THEOREM ReceiversStay == DevicesSpec => []NoCallAfterUnregister
<1> DEFINE Inv == NoCallAfterUnregister /\ (calling # {} => command = "sending")
<1>1. DevicesInit => Inv
  BY DEF DevicesInit, NoCallAfterUnregister
<1>2. Inv /\ [DevicesNext]_deviceVars => Inv'
  <2> SUFFICES ASSUME Inv, [DevicesNext]_deviceVars PROVE Inv'
    OBVIOUS
  <2> USE DEF NoCallAfterUnregister, messageVars
  <2>1. CASE Commands
    BY <2>1 DEF Commands, SetLongitude, SetLatitude, LockReceivers, CallReceiver, UnlockReceivers
  <2>2. CASE CheckDevice \/ CallBack
    BY <2>2 DEF CheckDevice, CallBack, ReadToCompare, IsPostionChanged, ReadLatitude, SerializeLocData
  <2>3. CASE Requests
    BY <2>3 DEF Requests, GetGeoLocation, SubGeoLocation, Ask, UnSubGeoLocation, DestroyGeoLocation,
                RegistBundle, UnregistBundle
  <2>4. CASE UNCHANGED deviceVars
    BY <2>4 DEF deviceVars
  <2> QED
    BY <2>1, <2>2, <2>3, <2>4 DEF DevicesNext
<1> QED
  BY <1>1, <1>2, PTL DEF DevicesSpec, NoCallAfterUnregister

-----------------------------------------------------------------------------
\* What was compared last is never ahead of what the watcher knows, and that
\* never ahead of the position; so when the position looks unchanged, the
\* watcher knows it.  While a callback is made to the watcher, what it knows is
\* between the two as far as it has been read.
Reading ==
    /\ NotBehind(position, checked)
    /\ command = "stored" => target.latitude >= position.latitude
    /\ engine = "comparing" => read >= checked.longitude /\ position.longitude >= read
    /\ engine = "reading" => read >= checked.latitude /\ position.latitude >= read

Calling == engine \in {"calling", "reading"} /\ listener = callBack

Knows ==
    isSubscribe /\ ~Calling =>
        NotBehind(position, told[callBack]) /\ NotBehind(told[callBack], checked)

Squeezed == onward => Reading /\ Knows

\* A watcher with an outdated position differs from what was compared, so that
\* the next device check tells it, however reads, writes and calls interleave.
THEOREM Informed == DevicesSpec => []WrongIsNoticed
<1> USE CallbacksAssumption DEF NotBehind
<1>1. DevicesInit => Squeezed
  BY DEF DevicesInit, Squeezed, Reading, Knows, Origin
<1>2. TypeOK /\ Addressed /\ Squeezed /\ [DevicesNext]_deviceVars => Squeezed'
  <2> SUFFICES ASSUME TypeOK, Addressed, Squeezed, [DevicesNext]_deviceVars, onward' PROVE Reading' /\ Knows'
    BY DEF Squeezed
  <2>a. onward /\ Reading /\ Knows
    BY DEF DevicesNext, Commands, CheckDevice, CallBack, Requests, SetLongitude, SetLatitude, LockReceivers,
           CallReceiver, UnlockReceivers, ReadToCompare, IsPostionChanged, ReadLatitude, SerializeLocData,
           GetGeoLocation, SubGeoLocation, Ask, UnSubGeoLocation, DestroyGeoLocation, RegistBundle,
           UnregistBundle, deviceVars, Squeezed
  <2> USE <2>a DEF TypeOK, Addressed, Position, Coordinates, Reading, Knows, Calling,
                   sharedVars, watchVars, engineVars, messageVars
  <2>1. CASE SetLongitude
    <3>1. PICK p \in Position : /\ NotBehind(p, position) /\ target' = p
                                /\ position' = [position EXCEPT !.longitude = p.longitude]
      BY <2>1 DEF SetLongitude
    <3> QED
      BY <2>1, <3>1 DEF SetLongitude
  <2>2. CASE SetLatitude
    BY <2>2 DEF SetLatitude, Origin
  <2>3. CASE LockReceivers \/ (\E b \in Bundles : CallReceiver(b)) \/ UnlockReceivers
    BY <2>3 DEF LockReceivers, CallReceiver, UnlockReceivers
  <2>4. CASE ReadToCompare
    BY <2>4 DEF ReadToCompare
  <2>5. CASE IsPostionChanged
    <3> DEFINE p == [longitude |-> read, latitude |-> position.latitude]
    <3>1. CASE Changed(p)
      <4>1. checked' = p /\ UNCHANGED <<position, target, command, callBack, isSubscribe, told>>
        BY <2>5, <3>1 DEF IsPostionChanged
      <4>2. Reading'
        BY <2>5, <3>1, <4>1 DEF IsPostionChanged
      <4>3. isSubscribe => Calling'
        BY <2>5, <3>1, <4>1 DEF IsPostionChanged
      <4> QED
        BY <4>1, <4>2, <4>3
    <3>2. CASE ~Changed(p)
      BY <2>5, <3>2 DEF IsPostionChanged
    <3> QED
      BY <3>1, <3>2
  <2>6. CASE ReadLatitude
    BY <2>6 DEF ReadLatitude
  <2>7. CASE SerializeLocData
    <3>1. told'[listener] = [longitude |-> position.longitude, latitude |-> read]
      BY <2>7 DEF SerializeLocData
    <3>2. \A c \in Callbacks : c # listener => told'[c] = told[c]
      BY <2>7 DEF SerializeLocData
    <3>3. engine' = "idle" /\ UNCHANGED <<position, target, command, checked>>
      BY <2>7 DEF SerializeLocData
    <3>4. Reading'
      BY <3>3
    <3>5. CASE callBack' = listener
      BY <2>7, <3>1, <3>3, <3>4, <3>5 DEF SerializeLocData
    <3>6. CASE callBack' # listener
      <4>1. ~subscribing /\ UNCHANGED <<callBack, isSubscribe>>
        BY <2>7, <3>6 DEF SerializeLocData
      <4> QED
        BY <3>2, <3>3, <3>4, <3>6, <4>1
    <3> QED
      BY <3>5, <3>6
  <2>8. CASE \E c \in Callbacks : GetGeoLocation(c) \/ SubGeoLocation(c)
    BY <2>8 DEF GetGeoLocation, SubGeoLocation, Ask
  <2>9. CASE \E c \in Callbacks : UnSubGeoLocation(c) \/ DestroyGeoLocation(c)
    BY <2>9 DEF UnSubGeoLocation, DestroyGeoLocation
  <2>10. CASE \E b \in Bundles : RegistBundle(b) \/ UnregistBundle(b)
    BY <2>10 DEF RegistBundle, UnregistBundle
  <2>11. CASE UNCHANGED deviceVars
    BY <2>11 DEF deviceVars
  <2> QED
    BY <2>1, <2>2, <2>3, <2>4, <2>5, <2>6, <2>7, <2>8, <2>9, <2>10, <2>11
    DEF DevicesNext, Commands, CheckDevice, CallBack, Requests
<1>3. TypeOK /\ Addressed /\ Squeezed => WrongIsNoticed
  <2> SUFFICES ASSUME TypeOK, Addressed, Squeezed, onward, engine = "idle", isSubscribe, ~Changed(position)
               PROVE told[callBack] = position
    BY DEF WrongIsNoticed
  <2>1. position = checked
    BY DEF Changed, TypeOK, Position
  <2>2. told[callBack] \in Position
    BY DEF TypeOK, Addressed
  <2>3. NotBehind(position, told[callBack]) /\ NotBehind(told[callBack], checked)
    BY DEF Squeezed, Knows, Calling
  <2>4. told[callBack].longitude = position.longitude /\ told[callBack].latitude = position.latitude
    BY <2>1, <2>2, <2>3 DEF TypeOK, Position, Coordinates
  <2> QED
    BY <2>2, <2>4 DEF TypeOK, Position
<1> QED
  BY <1>1, <1>2, <1>3, TypeCorrect, PTL DEF DevicesSpec

-----------------------------------------------------------------------------
\* Numbers and lists.
\* Every set of natural numbers with an element has a smallest one.
LEMMA Least ==
    ASSUME NEW T, T \subseteq Nat, T # {}
    PROVE  \E x \in T : \A y \in T : ~(y < x)
<1> DEFINE R == OpToRel(<, Nat)
<1>1. IsWellFoundedOn(R, Nat)
  BY NatLessThanWellFounded
<1>2. \A x, y \in Nat : y < x => <<y, x>> \in R
  BY DEF OpToRel
<1> HIDE DEF R
<1>3. PICK x \in T : \A y \in T : ~(<<y, x>> \in R)
  BY <1>1, WFMin, Zenon
<1> QED
  BY <1>2, <1>3

\* Induction, about a set of numbers.
LEMMA Induction ==
    ASSUME NEW S, 0 \in S, \A n \in Nat : n \in S => n + 1 \in S
    PROVE  \A n \in Nat : n \in S
<1> DEFINE T == Nat \ S
<1> SUFFICES ASSUME T # {} PROVE FALSE
  OBVIOUS
<1>1. T \subseteq Nat
  OBVIOUS
<1> HIDE DEF T
<1>2. PICK x \in T : \A y \in T : ~(y < x)
  BY <1>1, Least
<1> USE DEF T
<1>3. x \in Nat /\ x # 0 /\ x \notin S
  BY <1>2
<1>4. x - 1 \in Nat /\ x - 1 < x
  BY <1>3
<1>5. x - 1 \in S
  BY <1>2, <1>4
<1>6. (x - 1) + 1 \in S
  BY <1>4, <1>5
<1> QED
  BY <1>3, <1>6

\* g[i] is what KeepOnly keeps of the first i elements of s.
Kept(g, s, S, n) ==
    g = [i \in 0 .. n |-> IF i = 0 THEN <<>>
                          ELSE IF s[i] \in S THEN Append(g[i - 1], s[i])
                          ELSE g[i - 1]]

LEMMA KeptExists ==
    ASSUME NEW s, NEW S
    PROVE  \A n \in Nat : \E g : Kept(g, s, S, n)
<1> DEFINE N == {n \in Nat : \E g : Kept(g, s, S, n)}
<1>1. 0 \in N
  <2>1. Kept([i \in 0 .. 0 |-> <<>>], s, S, 0)
    BY DEF Kept
  <2> QED
    BY <2>1
<1>2. ASSUME NEW n \in Nat, n \in N
      PROVE  n + 1 \in N
  <2>1. PICK g : Kept(g, s, S, n)
    BY <1>2
  <2> DEFINE next == IF s[n + 1] \in S THEN Append(g[n], s[n + 1]) ELSE g[n]
             h == [i \in 0 .. n + 1 |-> IF i = n + 1 THEN next ELSE g[i]]
  <2>2. \A i \in 0 .. n : g[i] = IF i = 0 THEN <<>>
                               ELSE IF s[i] \in S THEN Append(g[i - 1], s[i]) ELSE g[i - 1]
    BY <2>1, Zenon DEF Kept
  <2>3. \A i \in 0 .. n : h[i] = g[i]
    OBVIOUS
  <2>4. h[n + 1] = next
    OBVIOUS
  <2> HIDE DEF h
  <2>5. ASSUME NEW i \in 0 .. n + 1
        PROVE  h[i] = IF i = 0 THEN <<>> ELSE IF s[i] \in S THEN Append(h[i - 1], s[i]) ELSE h[i - 1]
    <3>1. CASE i = n + 1
      <4>1. i # 0 /\ i - 1 = n /\ n \in 0 .. n
        BY <3>1
      <4> QED
        BY <3>1, <4>1, <2>3, <2>4
    <3>2. CASE i # n + 1
      <4>1. i \in 0 .. n /\ (i # 0 => i - 1 \in 0 .. n)
        BY <3>2
      <4> QED
        BY <4>1, <2>2, <2>3
    <3> QED
      BY <3>1, <3>2
  <2>6. Kept(h, s, S, n + 1)
    <3>1. h = [i \in 0 .. n + 1 |-> h[i]]
      BY DEF h
    <3> QED
      BY <2>5, <3>1 DEF Kept
  <2> QED
    BY <2>6
<1> HIDE DEF N
<1>3. \A n \in Nat : n \in N
  BY <1>1, <1>2, Induction
<1> QED
  BY <1>3 DEF N

Once(s) == \A i, k \in 1 .. Len(s) : i # k => s[i] # s[k]

\* What is kept are elements of the list that are in the set, each as often as
\* it is in the list.
LEMMA KeepOnlyKeeps ==
    ASSUME NEW T, NEW s \in Seq(T), NEW S
    PROVE  /\ KeepOnly(s, S) \in Seq(T)
           /\ \A i \in 1 .. Len(KeepOnly(s, S)) :
                 KeepOnly(s, S)[i] \in S /\ \E k \in 1 .. Len(s) : KeepOnly(s, S)[i] = s[k]
           /\ Once(s) => Once(KeepOnly(s, S))
<1>1. PICK g : Kept(g, s, S, Len(s)) /\ KeepOnly(s, S) = g[Len(s)]
  <2> DEFINE g == CHOOSE g : Kept(g, s, S, Len(s))
  <2>1. Kept(g, s, S, Len(s))
    <3>1. \E g0 : Kept(g0, s, S, Len(s))
      <4>1. Len(s) \in Nat
        OBVIOUS
      <4> QED
        BY <4>1, KeptExists, Zenon
    <3> QED
      BY <3>1, Zenon
  <2>2. KeepOnly(s, S) = g[Len(s)]
    BY Zenon DEF KeepOnly, Kept
  <2> QED
    BY <2>1, <2>2
<1>2. /\ g[0] = <<>>
      /\ \A i \in 1 .. Len(s) : g[i] = IF s[i] \in S THEN Append(g[i - 1], s[i]) ELSE g[i - 1]
  <2>1. \A i \in 0 .. Len(s) : g[i] = IF i = 0 THEN <<>>
                                    ELSE IF s[i] \in S THEN Append(g[i - 1], s[i]) ELSE g[i - 1]
    BY <1>1, Zenon DEF Kept
  <2> QED
    BY <2>1
<1> DEFINE From(t, n) == \A i \in 1 .. Len(t) : t[i] \in S /\ \E k \in 1 .. n : t[i] = s[k]
           N == {n \in Nat : n <= Len(s) => /\ g[n] \in Seq(T)
                                            /\ From(g[n], n)
                                            /\ Once(s) => Once(g[n])}
<1>3. 0 \in N
  <2>1. g[0] \in Seq(T) /\ Once(g[0])
    BY <1>2 DEF Once
  <2>2. From(g[0], 0)
    BY <1>2
  <2> QED
    BY <2>1, <2>2
<1>4. ASSUME NEW n \in Nat, n \in N, n + 1 <= Len(s)
      PROVE  /\ g[n + 1] \in Seq(T)
             /\ From(g[n + 1], n + 1)
             /\ Once(s) => Once(g[n + 1])
  <2> DEFINE t == g[n]
             e == s[n + 1]
  <2>1. /\ n + 1 \in 1 .. Len(s) /\ (n + 1) - 1 = n
        /\ t \in Seq(T) /\ From(t, n) /\ (Once(s) => Once(t)) /\ e \in T
        /\ \A k \in 1 .. n : k \in 1 .. n + 1 /\ k \in 1 .. Len(s) /\ k # n + 1
    BY <1>4
  <2>2. g[n + 1] = IF e \in S THEN Append(t, e) ELSE t
    BY <1>2, <2>1
  <2>3. From(t, n + 1)
    BY <2>1
  <2>4. CASE e \notin S
    BY <2>1, <2>2, <2>3, <2>4
  <2>5. CASE e \in S
    <3> DEFINE u == Append(t, e)
    <3> HIDE DEF t, e
    <3>1. /\ u \in Seq(T) /\ Len(u) = Len(t) + 1 /\ Len(t) \in Nat
          /\ u[Len(t) + 1] = e
          /\ \A i \in 1 .. Len(t) : u[i] = t[i]
      BY <2>1, AppendProperties
    <3> HIDE DEF u
    <3>2. \A i \in 1 .. Len(u) : i \in 1 .. Len(t) \/ i = Len(t) + 1
      BY <3>1
    <3>3. From(u, n + 1)
      <4>1. n + 1 \in 1 .. n + 1 /\ e = s[n + 1]
        BY DEF e
      <4> QED
        BY <2>3, <2>5, <3>1, <3>2, <4>1
    <3>4. ASSUME Once(s)
          PROVE  Once(u)
      <4>1. \A i \in 1 .. Len(t) : t[i] # e
        BY <2>1, <3>4 DEF Once, e
      <4> QED
        BY <2>1, <3>1, <3>2, <3>4, <4>1 DEF Once
    <3> QED
      BY <2>2, <2>5, <3>1, <3>3, <3>4 DEF u
  <2> QED
    BY <2>4, <2>5
<1>5. \A n \in Nat : n \in N => n + 1 \in N
  <2> HIDE DEF From
  <2>1. ASSUME NEW n \in Nat, n \in N
        PROVE  n + 1 \in N
    <3>1. n + 1 \in Nat
      OBVIOUS
    <3>2. n + 1 <= Len(s) => /\ g[n + 1] \in Seq(T)
                             /\ From(g[n + 1], n + 1)
                             /\ Once(s) => Once(g[n + 1])
      BY <1>4, <2>1
    <3> QED
      BY <3>1, <3>2, Zenon
  <2> QED
    BY <2>1
<1> HIDE DEF N
<1>6. Len(s) \in N /\ Len(s) \in Nat
  BY <1>3, <1>5, Induction
<1> QED
  BY <1>1, <1>6 DEF N

-----------------------------------------------------------------------------
\* LiteApp: the asynchronous work.
Increasing(s) == \A i, k \in 1 .. Len(s) : i < k => s[i] < s[k]
Before(s, t) == \A i \in 1 .. Len(s), k \in 1 .. Len(t) : s[i] < t[k]
UpTo(s, n) == \A i \in 1 .. Len(s) : s[i] <= n

\* Work that was begun, work that was taken and work that waits follow each
\* other in the order of dispatch, and only the device check has taken any.
WorkInv ==
    /\ works \in Nat
    /\ done \in Seq(Nat) /\ batch \in Seq(Nat) /\ workList \in Seq(Nat)
    /\ UpTo(done, works) /\ UpTo(batch, works) /\ UpTo(workList, works)
    /\ Increasing(done) /\ Increasing(batch) /\ Increasing(workList)
    /\ Before(done, batch) /\ Before(done, workList) /\ Before(batch, workList)
    /\ js # "working" => batch = <<>>

\* A number above all of an increasing sequence may be appended to it.
LEMMA AppendIncreasing ==
    ASSUME NEW s \in Seq(Nat), NEW n \in Nat, Increasing(s),
           \A i \in 1 .. Len(s) : s[i] < n
    PROVE  /\ Append(s, n) \in Seq(Nat) /\ Len(Append(s, n)) = Len(s) + 1
           /\ Append(s, n)[Len(s) + 1] = n
           /\ \A i \in 1 .. Len(s) : Append(s, n)[i] = s[i]
           /\ Increasing(Append(s, n))
<1>1. /\ Append(s, n) \in Seq(Nat) /\ Len(Append(s, n)) = Len(s) + 1
      /\ Append(s, n)[Len(s) + 1] = n
      /\ \A i \in 1 .. Len(s) : Append(s, n)[i] = s[i]
  BY AppendProperties
<1>2. Increasing(Append(s, n))
  BY <1>1 DEF Increasing
<1> QED
  BY <1>1, <1>2

\* Dispatched work is the last to wait.
LEMMA WorkAppended ==
    ASSUME WorkInv, AppendAsyncWork
    PROVE  WorkInv'
<1> DEFINE n == works + 1
           t == Append(workList, n)
<1>0. works' = n /\ workList' = t /\ UNCHANGED <<js, done, batch>>
  BY DEF AppendAsyncWork
<1>1. /\ n \in Nat /\ \A i \in 1 .. Len(workList) : workList[i] < n
      /\ workList \in Seq(Nat) /\ Increasing(workList)
  BY DEF WorkInv, UpTo
<1>2. /\ t \in Seq(Nat) /\ Len(t) = Len(workList) + 1 /\ t[Len(workList) + 1] = n
      /\ \A i \in 1 .. Len(workList) : t[i] = workList[i]
      /\ Increasing(t)
  BY <1>1, AppendIncreasing
<1> HIDE DEF t
<1>3. UpTo(done, n) /\ UpTo(batch, n)
  BY DEF WorkInv, UpTo
<1>4. UpTo(t, n)
  BY <1>1, <1>2 DEF UpTo
<1>5. Before(done, t) /\ Before(batch, t)
  <2>1. /\ Len(done) \in Nat /\ Len(batch) \in Nat /\ Len(workList) \in Nat
        /\ \A i \in 1 .. Len(done) : done[i] < n
        /\ \A i \in 1 .. Len(batch) : batch[i] < n
    BY DEF WorkInv, UpTo
  <2>2. ASSUME NEW k \in 1 .. Len(t)
        PROVE  (k \in 1 .. Len(workList) /\ t[k] = workList[k]) \/ t[k] = n
    BY <1>2, <2>1
  <2>3. Before(done, workList) /\ Before(batch, workList)
    BY DEF WorkInv
  <2> QED
    BY <2>1, <2>2, <2>3 DEF Before
<1> QED
  BY <1>0, <1>1, <1>2, <1>3, <1>4, <1>5 DEF WorkInv

\* The first work taken is the next to be begun.
LEMMA WorkBegun ==
    ASSUME WorkInv, BeginWork
    PROVE  WorkInv'
<1> DEFINE w == Head(batch)
           d == Append(done, w)
           b == Tail(batch)
<1>0. done' = d /\ batch' = b /\ UNCHANGED <<js, works, workList>> /\ js = "working"
  BY DEF BeginWork, workVars
<1>1. /\ batch \in Seq(Nat) /\ batch # <<>> /\ Len(batch) \in Nat \ {0}
      /\ w = batch[1] /\ w \in Nat
      /\ b \in Seq(Nat) /\ Len(b) = Len(batch) - 1 /\ \A i \in 1 .. Len(b) : b[i] = batch[i + 1]
  <2>1. batch \in Seq(Nat) /\ batch # <<>>
    BY DEF WorkInv, BeginWork
  <2> QED
    BY <2>1
<1>2. /\ d \in Seq(Nat) /\ Len(d) = Len(done) + 1 /\ d[Len(done) + 1] = w
      /\ \A i \in 1 .. Len(done) : d[i] = done[i]
      /\ Increasing(d)
  <2>1. done \in Seq(Nat) /\ Increasing(done) /\ \A i \in 1 .. Len(done) : done[i] < w
    BY <1>1 DEF WorkInv, Before
  <2> HIDE DEF w
  <2> QED
    BY <1>1, <2>1, AppendIncreasing
<1>3. Len(done) \in Nat
  BY DEF WorkInv
<1> HIDE DEF w, d, b
<1>4. Increasing(b) /\ UpTo(b, works) /\ Before(b, workList)
  <2>1. \A i \in 1 .. Len(b) : i \in Nat /\ i + 1 \in 1 .. Len(batch) /\ b[i] = batch[i + 1]
    BY <1>1
  <2>2. UpTo(b, works) /\ Before(b, workList)
    BY <2>1 DEF WorkInv, UpTo, Before
  <2>3. ASSUME NEW i \in 1 .. Len(b), NEW k \in 1 .. Len(b), i < k
        PROVE  b[i] < b[k]
    <3>1. i + 1 < k + 1
      BY <2>1, <2>3
    <3> QED
      BY <2>1, <3>1 DEF WorkInv, Increasing
  <2> QED
    BY <2>2, <2>3 DEF Increasing
<1>5. UpTo(d, works) /\ Before(d, workList)
  <2>1. ASSUME NEW i \in 1 .. Len(d)
        PROVE  (i \in 1 .. Len(done) /\ d[i] = done[i]) \/ d[i] = batch[1]
    BY <1>1, <1>2, <1>3
  <2>2. 1 \in 1 .. Len(batch)
    BY <1>1
  <2> QED
    BY <2>1, <2>2 DEF WorkInv, UpTo, Before
<1>6. Before(d, b)
  <2>1. \A k \in 1 .. Len(b) : k \in Nat /\ k + 1 \in 1 .. Len(batch) /\ 1 < k + 1 /\ b[k] = batch[k + 1]
    BY <1>1
  <2>2. ASSUME NEW i \in 1 .. Len(d), NEW k \in 1 .. Len(b)
        PROVE  d[i] < b[k]
    <3>1. CASE i \in 1 .. Len(done)
      BY <1>2, <2>1, <3>1 DEF WorkInv, Before
    <3>2. CASE i \notin 1 .. Len(done)
      <4>1. d[i] = batch[1] /\ 1 \in 1 .. Len(batch)
        BY <1>1, <1>2, <1>3, <3>2
      <4> QED
        BY <2>1, <4>1 DEF WorkInv, Increasing
    <3> QED
      BY <3>1, <3>2
  <2> QED
    BY <2>2 DEF Before
<1> QED
  BY <1>0, <1>1, <1>2, <1>4, <1>5, <1>6 DEF WorkInv

\* A callback takes all the work that waits, or none.
LEMMA WorkTaken ==
    ASSUME WorkInv, BeginCallback
    PROVE  WorkInv'
<1>1. js = "consuming" /\ batch = <<>> /\ UNCHANGED <<done, works>>
  BY DEF WorkInv, BeginCallback
<1>2. \/ js' = "working" /\ batch' = workList /\ workList' = <<>>
      \/ UNCHANGED <<batch, workList>>
  BY DEF BeginCallback, TakeWork
<1>3. CASE UNCHANGED <<batch, workList>>
  BY <1>1, <1>3 DEF WorkInv
<1>4. CASE js' = "working" /\ batch' = workList /\ workList' = <<>>
  <2>1. \A n : UpTo(<<>>, n)
    BY DEF UpTo
  <2>2. Increasing(<<>>) /\ Before(done, <<>>) /\ Before(workList, <<>>)
    BY DEF Increasing, Before
  <2> QED
    BY <1>1, <1>4, <2>1, <2>2 DEF WorkInv
<1> QED
  BY <1>2, <1>3, <1>4

\* Work is begun once and in the order of dispatch, whatever is dispatched by
\* which thread while a batch is being executed, and whenever exit clears it.
THEOREM WorkOrdered == Spec => []WorkInOrder
<1>1. Init => WorkInv
  BY DEF Init, WorkInv, UpTo, Increasing, Before
<1>2. WorkInv /\ [Next]_vars => WorkInv'
  <2> SUFFICES ASSUME WorkInv, [Next]_vars
               PROVE  WorkInv'
    OBVIOUS
  <2>1. ASSUME UNCHANGED <<works, done, batch, workList>>, batch = <<>> \/ js' = js
        PROVE  WorkInv'
    BY <2>1 DEF WorkInv
  <2>2. CASE Exit
    BY <2>1, <2>2 DEF Exit, workVars
  <2>3. CASE ClearAllAsyncWork
    <3>1. UNCHANGED <<works, done, batch, js>> /\ workList' = <<>>
      BY <2>3 DEF ClearAllAsyncWork
    <3>2. UpTo(<<>>, works) /\ Increasing(<<>>) /\ Before(done, <<>>) /\ Before(batch, <<>>)
      BY DEF UpTo, Increasing, Before
    <3> QED
      BY <3>1, <3>2 DEF WorkInv
  <2>4. CASE Stop \/ HideAndDestroy \/ Reset \/ Finish \/ SetInterrupt
    BY <2>1, <2>4
       DEF Stop, HideAndDestroy, Reset, Finish, SetInterrupt, workVars
  <2>5. CASE CreateAbility \/ Launch \/ Show \/ EndOfStartJsApp \/ InitTimer
    <3>1. batch = <<>> /\ UNCHANGED <<works, done, batch, workList>>
      BY <2>5 DEF WorkInv, CreateAbility, Launch, Show, UseAbility,
                  EndOfStartJsApp, InitTimer, workVars
    <3> QED
      BY <2>1, <3>1
  <2>6. CASE RunTimerTick \/ ReturnFromCallback \/ EndOfTick \/ EndOfThread
    <3>1. batch = <<>> /\ UNCHANGED <<works, done, batch, workList>>
      BY <2>6 DEF WorkInv, RunTimerTick, ReturnFromCallback, EndOfTick,
                  EndOfThread, workVars
    <3> QED
      BY <2>1, <3>1
  <2>7. CASE BeginCallback
    BY <2>7, WorkTaken
  <2>8. CASE BeginWork
    BY <2>8, WorkBegun
  <2>9. CASE AppendAsyncWork
    BY <2>9, WorkAppended
  <2>10. CASE \E n \in Natives : \/ \E p \in BOOLEAN, d \in Delays : StartTimerTask(n, p, d)
                                 \/ StopTimerTask(n)
    BY <2>1, <2>10
       DEF StartTimerTask, StopTimerTask, workVars
  <2>11. CASE TimePasses
    BY <2>1, <2>11 DEF TimePasses, workVars
  <2>12. CASE UNCHANGED vars
    BY <2>1, <2>12 DEF vars, workVars
  <2> QED
    BY <2>2, <2>3, <2>4, <2>5, <2>6, <2>7, <2>8, <2>9, <2>10, <2>11, <2>12
       DEF Next, MainSteps, JsSteps, Application
<1>3. WorkInv => WorkInOrder
  BY DEF WorkInv, Increasing, WorkInOrder
<1> QED
  BY <1>1, <1>2, <1>3, PTL DEF Spec

-----------------------------------------------------------------------------
\* LiteApp: the exit of an application that is at rest.  The ability is there
\* while exit may use it, isFinished keeps Stop from interrupting twice, and
\* the JS thread stays where it slept until it is told to end.
CalmInv ==
    calm =>
        /\ ~crashed
        /\ js = "none" => isFinished
        /\ main = "loop" /\ js \notin {"none", "boot"} => jsAbility
        /\ main # "loop" => js \in {"none", "ticking", "over"}
        /\ main \in {"clearing", "hiding", "resetting"} => jsAbility
        /\ main = "interrupting" => isFinished
        /\ main = "stop" => isFinished \/ jsAbility

\* While main stops the application, the JS thread can only end.
LEMMA JsAsleep ==
    ASSUME CalmInv, calm, main # "loop", JsSteps
    PROVE  EndOfThread
BY DEF CalmInv, JsSteps, JsMayStep, CreateAbility, Launch, Show,
       UseAbility, EndOfStartJsApp, InitTimer, RunTimerTick, BeginCallback,
       BeginWork, ReturnFromCallback, EndOfTick

\* The steps of the JS thread before exit find the ability that the first one
\* has made.
LEMMA JsAtWork ==
    ASSUME CalmInv, calm, main = "loop", JsSteps
    PROVE  /\ ~crashed' /\ UNCHANGED <<main, calm>>
           /\ js' \notin {"none", "boot"} /\ jsAbility'
<1> USE DEF CalmInv, JsMayStep, lifeVars
<1>1. CASE CreateAbility
  BY <1>1 DEF CreateAbility
<1>2. CASE Launch \/ Show
  BY <1>2 DEF Launch, Show, UseAbility
<1>3. CASE EndOfStartJsApp
  BY <1>3 DEF EndOfStartJsApp
<1>4. CASE InitTimer
  BY <1>4 DEF InitTimer
<1>7. CASE RunTimerTick
  BY <1>7 DEF RunTimerTick
<1>8. CASE ReturnFromCallback
  BY <1>8 DEF ReturnFromCallback
<1>9. CASE EndOfTick
  BY <1>9 DEF EndOfTick
<1>10. CASE EndOfThread
  BY <1>10 DEF EndOfThread
<1>5. CASE BeginCallback
  BY <1>5 DEF BeginCallback
<1>6. CASE BeginWork
  BY <1>6 DEF BeginWork
<1> QED
  BY <1>1, <1>2, <1>3, <1>4, <1>5, <1>6, <1>7, <1>8, <1>9, <1>10 DEF JsSteps

\* exit of an application at rest meets neither a null pointer nor a callback
\* in a destroyed engine, whatever timers run and work waits.
THEOREM CalmExit == Spec => []CalmExitIsClean
<1>1. Init => CalmInv
  BY DEF Init, CalmInv
<1>2. CalmInv /\ [Next]_vars => CalmInv'
  <2> SUFFICES ASSUME CalmInv, [Next]_vars, calm'
               PROVE  CalmInv'
    BY DEF CalmInv
  <2>0. calm
    BY DEF Next, Exit, MainSteps, Stop, ClearAllAsyncWork, HideAndDestroy,
           Reset, Finish, SetInterrupt, JsSteps, CreateAbility, Launch,
           Show, UseAbility, EndOfStartJsApp, InitTimer, RunTimerTick,
           BeginCallback, BeginWork, ReturnFromCallback, EndOfTick,
           EndOfThread, Application, StartTimerTask, StopTimerTask,
           AppendAsyncWork, TimePasses, vars
  <2>1. CASE Exit
    BY <2>0, <2>1 DEF Exit, lifeVars, CalmInv
  <2>2. CASE Stop \/ ClearAllAsyncWork
    BY <2>0, <2>2 DEF Stop, ClearAllAsyncWork, lifeVars, CalmInv
  <2>3. CASE HideAndDestroy
    <3>1. jsAbility /\ ~JsRuns
      BY <2>0, <2>3 DEF HideAndDestroy, JsRuns, CalmInv
    <3> QED
      BY <2>0, <2>3, <3>1 DEF HideAndDestroy, lifeVars, CalmInv
  <2>4. CASE Reset \/ Finish \/ SetInterrupt
    BY <2>0, <2>4 DEF Reset, Finish, SetInterrupt, CalmInv
  <2>5. CASE JsSteps /\ main = "loop"
    BY <2>0, <2>5, JsAtWork DEF CalmInv
  <2>6. CASE JsSteps /\ main # "loop"
    <3>1. EndOfThread
      BY <2>0, <2>6, JsAsleep
    <3> QED
      BY <2>0, <3>1 DEF EndOfThread, lifeVars, CalmInv
  <2>7. CASE Application \/ TimePasses
    BY <2>0, <2>7 DEF Application, StartTimerTask, StopTimerTask,
                      AppendAsyncWork, TimePasses, lifeVars, CalmInv
  <2>8. CASE UNCHANGED vars
    BY <2>0, <2>8 DEF vars, lifeVars, CalmInv
  <2> QED
    BY <2>1, <2>2, <2>3, <2>4, <2>5, <2>6, <2>7, <2>8 DEF Next, MainSteps
<1>3. CalmInv => CalmExitIsClean
  BY DEF CalmInv, CalmExitIsClean
<1> QED
  BY <1>1, <1>2, <1>3, PTL DEF Spec
-----------------------------------------------------------------------------
\* LiteApp: the timers.
Lists(s, t) == \E i \in 1 .. Len(s) : s[i] = t

\* The callback of timer t is queued and has not begun.
Pending(t) ==
    \E i \in 1 .. Len(callbackQueue) :
        callbackQueue[i] = t /\ (js = "consuming" \/ i < Len(callbackQueue))

Clock == [interval : Nat, passed : Nat, shotTimes : 0 .. 2]
TimerTypes ==
    /\ runningTimers \in Seq(Timers) /\ callbackQueue \in Seq(Timers)
    /\ clock \in [Timers -> Clock]
    /\ ran \in [Natives -> 0 .. 2] /\ late \in [Natives -> 0 .. 2]

\* A timer is listed once and queued once, and only a turn of the loop has
\* callbacks in the queue.
Queues ==
    /\ Once(runningTimers) /\ Once(callbackQueue)
    /\ callbackQueue # <<>> => js \in {"consuming", "calling", "working"}
    /\ js \in {"calling", "working"} => callbackQueue # <<>>
    /\ js \in {"none", "boot", "created", "launching", "shown", "arming"} =>
          \A t \in Own : ~Lists(runningTimers, t)

\* A timer that was never started is nowhere; one that was stopped is not
\* listed, and was called late or is still to be; a one-shot has a shot left,
\* or its callback pending, or was called.
Native(n) ==
    /\ clock[n] = NoClock =>
          ~Lists(runningTimers, n) /\ ~Pending(n) /\ ran[n] = 0 /\ n \notin stopped
    /\ Lists(runningTimers, n) => n \notin stopped
    /\ n \notin stopped => late[n] = 0
    /\ late[n] <= 1 /\ (Pending(n) /\ n \in stopped => late[n] = 0)
    /\ clock[n].shotTimes # Forever => ran[n] <= 1 /\ (Pending(n) => ran[n] = 0)
    /\ clock[n].shotTimes = 1 => ran[n] = 0 /\ ~Pending(n)

TimerInv == TimerTypes /\ Queues /\ \A n \in Natives : Native(n)

\* What a step leaves to a timer that it does not concern.
LEMMA NativeKept ==
    ASSUME NEW n, Native(n), clock'[n] = clock[n], ran'[n] = ran[n], late'[n] = late[n],
           n \in stopped' <=> n \in stopped,
           Lists(runningTimers, n)' => Lists(runningTimers, n),
           Pending(n)' => Pending(n)
    PROVE  Native(n)'
BY DEF Native

LEMMA ShotTyped ==
    ASSUME NEW c \in Clock, c.shotTimes # 0
    PROVE  Shot(c) \in Clock
<1>1. ASSUME NEW v \in 0 .. 2
      PROVE  [c EXCEPT !.passed = 0, !.shotTimes = v] \in Clock
  BY DEF Clock
<1> DEFINE v == IF c.shotTimes = 2 THEN 2 ELSE c.shotTimes - 1
<1>2. v \in 0 .. 2
  BY DEF Clock
<1>3. Shot(c) = [c EXCEPT !.passed = 0, !.shotTimes = v]
  BY DEF Shot, Forever
<1> HIDE DEF v
<1> QED
  BY <1>1, <1>2, <1>3, Zenon

\* The tick queues every timer that is due, once, and counts its shot.
LEMMA Ticked ==
    ASSUME TimerInv, RunTimerTick
    PROVE  TimerInv'
<1> DEFINE S == {t \in Timers : IsDue(t)}
           q == KeepOnly(runningTimers, S)
<1>0. \A t : t \in ToSet(runningTimers) <=> Lists(runningTimers, t)
  <2>1. DOMAIN runningTimers = 1 .. Len(runningTimers)
    BY DEF TimerInv, TimerTypes
  <2> QED
    BY <2>1 DEF Lists, ToSet
<1>1. /\ callbackQueue' = callbackQueue \o q
      /\ clock' = [t \in Timers |-> IF t \in ToSet(runningTimers) /\ IsDue(t)
                                        THEN Shot(clock[t]) ELSE clock[t]]
      /\ js = "ticking" /\ js' = "consuming"
      /\ UNCHANGED <<runningTimers, stopped, ran, late>>
  BY DEF RunTimerTick
<1>2. callbackQueue = <<>>
  BY <1>1 DEF TimerInv, Queues
<1>3. /\ q \in Seq(Timers) /\ Once(q)
      /\ \A i \in 1 .. Len(q) : q[i] \in S /\ Lists(runningTimers, q[i])
  <2>1. runningTimers \in Seq(Timers) /\ Once(runningTimers)
    BY DEF TimerInv, TimerTypes, Queues
  <2> HIDE DEF S
  <2> QED
    BY <2>1, KeepOnlyKeeps DEF Lists
<1> HIDE DEF q
<1>4. callbackQueue' = q
  BY <1>1, <1>2, <1>3
<1>5. TimerTypes'
  <2>1. \A t \in Timers : clock[t] \in Clock
    BY DEF TimerInv, TimerTypes
  <2>2. ASSUME NEW t \in Timers, IsDue(t)
        PROVE  Shot(clock[t]) \in Clock
    <3>1. clock[t] \in Clock /\ clock[t].shotTimes # 0
      BY <2>1, <2>2 DEF IsDue
    <3> QED
      BY <3>1, ShotTyped, Zenon
  <2> DEFINE after(t) == IF t \in ToSet(runningTimers) /\ IsDue(t)
                         THEN Shot(clock[t]) ELSE clock[t]
  <2>3. clock' \in [Timers -> Clock]
    <3>1. \A t \in Timers : after(t) \in Clock
      BY <2>1, <2>2
    <3>2. clock' = [t \in Timers |-> after(t)]
      BY <1>1
    <3> HIDE DEF after
    <3> QED
      BY <3>1, <3>2
  <2> QED
    BY <1>1, <1>3, <1>4, <2>3 DEF TimerInv, TimerTypes
<1>6. Queues'
  BY <1>1, <1>3, <1>4 DEF TimerInv, Queues
<1>7. ASSUME NEW n \in Natives
      PROVE  Native(n)'
  <2>1. ~Pending(n)
    BY <1>2 DEF Pending
  <2>2. n \in Timers /\ Native(n) /\ clock[n] \in Clock
        /\ ran[n] \in 0 .. 2
    BY DEF Timers, TimerInv, TimerTypes
  <2>3. CASE Lists(runningTimers, n) /\ IsDue(n)
    <3>1. n \in ToSet(runningTimers)
      BY <1>0, <2>3
    <3>2. clock'[n] = Shot(clock[n])
      BY <1>1, <2>2, <2>3, <3>1
    <3>3. clock[n].interval # 0 /\ clock[n].shotTimes # 0
      BY <2>3 DEF IsDue
    <3>4. clock'[n].interval # 0
          /\ clock'[n].shotTimes = IF clock[n].shotTimes = 2 THEN 2 ELSE clock[n].shotTimes - 1
      BY <2>2, <3>2, <3>3 DEF Clock, Shot, Forever
    <3>5. clock'[n] # NoClock
      BY <3>4 DEF NoClock
    <3>6. n \notin stopped' /\ late'[n] = 0 /\ ran'[n] = ran[n]
      BY <1>1, <2>2, <2>3 DEF Native
    <3>7. clock'[n].shotTimes # 1 /\ (clock'[n].shotTimes # 2 => ran[n] = 0)
      BY <2>2, <3>3, <3>4 DEF Clock, Native, Forever
    <3>8. Lists(runningTimers, n)' => n \notin stopped'
      BY <3>6
    <3>9. (ran'[n] <= 1 /\ (clock'[n].shotTimes # 2 => ran'[n] = 0)) \/ clock'[n].shotTimes = 2
      BY <3>6, <3>7
    <3> HIDE <2>3
    <3> QED
      BY <3>5, <3>6, <3>7, <3>8, <3>9 DEF Native, Forever
  <2>4. CASE ~(Lists(runningTimers, n) /\ IsDue(n))
    <3>1. clock'[n] = clock[n]
      BY <1>0, <1>1, <2>2, <2>4
    <3>2. ~Pending(n)'
      BY <1>3, <1>4, <2>4 DEF Pending
    <3>3. /\ ran'[n] = ran[n] /\ late'[n] = late[n] /\ stopped' = stopped
          /\ Lists(runningTimers, n)' => Lists(runningTimers, n)
      BY <1>1
    <3> QED
      BY <2>2, <3>1, <3>2, <3>3, NativeKept
  <2> QED
    BY <2>3, <2>4
<1> QED
  BY <1>5, <1>6, <1>7 DEF TimerInv

\* A step that leaves the timers alone, and the JS thread where it is or
\* between two turns of its loop.
LEMMA TimersKept ==
    ASSUME TimerInv, UNCHANGED <<runningTimers, clock, callbackQueue, stopped, ran, late>>,
           \/ js' = js
           \/ /\ callbackQueue = <<>> /\ js' \notin {"calling", "working"}
              /\ \/ js' \notin {"none", "boot", "created", "launching", "shown", "arming"}
                 \/ js \in {"none", "boot", "created", "launching", "shown", "arming"}
    PROVE  TimerInv'
<1>1. TimerTypes'
  BY DEF TimerInv, TimerTypes
<1>2. Queues'
  BY DEF TimerInv, Queues
<1>3. ASSUME NEW n \in Natives
      PROVE  Native(n)'
  <2>1. Pending(n)' => Pending(n)
    BY DEF Pending
  <2> QED
    BY <2>1, NativeKept DEF TimerInv
<1> QED
  BY <1>1, <1>2, <1>3 DEF TimerInv

\* A callback is pending until it begins; it is the only one of its timer.
LEMMA Called ==
    ASSUME TimerInv, BeginCallback
    PROVE  TimerInv'
<1> DEFINE m == Len(callbackQueue)
           t == callbackQueue[m]
<1>1. /\ callbackQueue \in Seq(Timers) /\ callbackQueue # <<>> /\ Once(callbackQueue)
      /\ m \in 1 .. m /\ t \in Timers /\ Last(callbackQueue) = t
  BY DEF BeginCallback, TimerInv, TimerTypes, Queues, Last
<1>2. /\ js = "consuming" /\ js' \in {"working", "calling"}
      /\ UNCHANGED <<runningTimers, clock, callbackQueue, stopped>>
      /\ ran' = [n \in Natives |-> IF n = t THEN Up(ran[n]) ELSE ran[n]]
      /\ late' = [n \in Natives |-> IF n = t /\ n \in stopped THEN Up(late[n]) ELSE late[n]]
  BY <1>1 DEF BeginCallback
<1> HIDE DEF t
<1>3. \A n \in Natives : ran[n] \in 0 .. 2 /\ late[n] \in 0 .. 2
  BY DEF TimerInv, TimerTypes
<1>4. \A k \in 0 .. 2 : Up(k) \in 0 .. 2
  BY DEF Up
<1>5. ran' \in [Natives -> 0 .. 2] /\ late' \in [Natives -> 0 .. 2]
  BY <1>2, <1>3, <1>4
<1>6. TimerTypes' /\ Queues'
  BY <1>1, <1>2, <1>5 DEF TimerInv, TimerTypes, Queues
<1>7. ASSUME NEW n \in Natives
      PROVE  Native(n)'
  <2>1. Native(n) /\ ran[n] \in 0 .. 2 /\ late[n] \in 0 .. 2
    BY <1>3 DEF TimerInv
  <2>2. Pending(n)' => Pending(n)
    BY <1>2 DEF Pending
  <2>3. CASE n # t
    BY <1>2, <2>1, <2>2, <2>3, NativeKept
  <2>4. CASE n = t
    <3>1. Pending(n)
      BY <1>1, <1>2, <2>4 DEF Pending, t
    <3>2. ~Pending(n)'
      BY <1>1, <1>2, <2>4 DEF Pending, Once, t
    <3>3. ran'[n] = Up(ran[n])
          /\ late'[n] = IF n \in stopped THEN Up(late[n]) ELSE late[n]
      BY <1>2, <2>4
    <3> QED
      BY <1>2, <2>1, <3>1, <3>2, <3>3 DEF Native, Up
  <2> QED
    BY <2>3, <2>4
<1> QED
  BY <1>6, <1>7 DEF TimerInv

\* The callback that returns is no longer pending.
LEMMA Returned ==
    ASSUME TimerInv, ReturnFromCallback
    PROVE  TimerInv'
<1> DEFINE q == callbackQueue
           f == SubSeq(q, 1, Len(q) - 1)
<1>1. q \in Seq(Timers) /\ q # <<>> /\ Once(q) /\ js \in {"calling", "working"}
  BY DEF ReturnFromCallback, TimerInv, TimerTypes, Queues
<1>2. /\ f \in Seq(Timers) /\ Len(f) = Len(q) - 1 /\ Len(q) \in Nat
      /\ \A i \in 1 .. Len(f) : f[i] = q[i] /\ i \in 1 .. Len(q) /\ i < Len(q)
  <2>1. Len(q) \in Nat \ {0}
    BY <1>1
  <2>2. /\ f \in Seq(Timers) /\ Len(f) = Len(q) - 1
        /\ \A i \in 1 .. Len(f) : f[i] = q[i]
    <3> DEFINE k == Len(q) - 1
    <3>1. k \in Nat /\ \A i \in 1 .. k : q[i] \in Timers
      BY <1>1, <2>1
    <3> HIDE DEF k
    <3> DEFINE g == SubSeq(q, 1, k)
    <3>2. g \in Seq(Timers)
      BY <3>1, SubSeqProperties
    <3>3. Len(g) = k /\ \A i \in 1 .. k : g[i] = q[i]
      BY <3>1
    <3>4. f = g
      BY DEF k
    <3> HIDE DEF f, g
    <3> QED
      BY <3>2, <3>3, <3>4 DEF k
  <2> HIDE DEF f
  <2> QED
    BY <2>1, <2>2
<1>3. callbackQueue' = f /\ js' = "consuming" /\ UNCHANGED <<runningTimers, clock, stopped, ran, late>>
  BY DEF ReturnFromCallback, Front, timerVars
<1> HIDE DEF f
<1>4. Once(f)
  BY <1>1, <1>2 DEF Once
<1>5. TimerTypes' /\ Queues'
  BY <1>2, <1>3, <1>4 DEF TimerInv, TimerTypes, Queues
<1>6. ASSUME NEW n \in Natives
      PROVE  Native(n)'
  <2>1. Pending(n)' => Pending(n)
    BY <1>2, <1>3 DEF Pending
  <2> QED
    BY <1>3, <2>1, NativeKept DEF TimerInv
<1> QED
  BY <1>5, <1>6 DEF TimerInv

\* The timers that an application has, with those that TimerTaskHandler adds.
LEMMA ListAppended ==
    ASSUME NEW T, NEW s \in Seq(T), Once(s), NEW e \in T, ~Lists(s, e)
    PROVE  /\ Append(s, e) \in Seq(T) /\ Once(Append(s, e))
           /\ \A t : Lists(Append(s, e), t) => Lists(s, t) \/ t = e
<1> DEFINE u == Append(s, e)
<1>1. /\ u \in Seq(T) /\ Len(u) = Len(s) + 1 /\ Len(s) \in Nat
      /\ u[Len(s) + 1] = e
      /\ \A i \in 1 .. Len(s) : u[i] = s[i]
  BY AppendProperties
<1> HIDE DEF u
<1>2. \A i \in 1 .. Len(u) : i \in 1 .. Len(s) \/ i = Len(s) + 1
  BY <1>1
<1>3. Once(u)
  BY <1>1, <1>2 DEF Once, Lists
<1>4. \A t : Lists(u, t) => Lists(s, t) \/ t = e
  BY <1>1, <1>2 DEF Lists
<1> QED
  BY <1>1, <1>3, <1>4 DEF u

LEMMA Started ==
    ASSUME TimerInv, NEW n \in Natives, NEW p \in BOOLEAN, NEW d \in Delays,
           StartTimerTask(n, p, d)
    PROVE  TimerInv'
<1>1. /\ runningTimers' = Append(runningTimers, n)
      /\ clock' = [clock EXCEPT ![n] = [interval |-> d, passed |-> 0,
                                        shotTimes |-> IF p THEN 2 ELSE 1]]
      /\ clock[n] = NoClock /\ UNCHANGED <<js, callbackQueue, stopped, ran, late>>
  BY DEF StartTimerTask, Forever
<1>2. Native(n) /\ n \in Timers /\ n \notin Own /\ d \in Nat
  BY BoundsAssumption DEF TimerInv, Timers
<1>3. /\ Append(runningTimers, n) \in Seq(Timers) /\ Once(Append(runningTimers, n))
      /\ \A t : Lists(Append(runningTimers, n), t) => Lists(runningTimers, t) \/ t = n
  BY <1>1, <1>2, ListAppended DEF TimerInv, TimerTypes, Queues, Native
<1>4. TimerTypes'
  <2>1. clock' \in [Timers -> Clock]
    BY <1>1, <1>2 DEF TimerInv, TimerTypes, Clock
  <2> QED
    BY <1>1, <1>3, <2>1 DEF TimerInv, TimerTypes
<1>5. Queues'
  BY <1>1, <1>2, <1>3 DEF TimerInv, Queues
<1>6. ASSUME NEW k \in Natives
      PROVE  Native(k)'
  <2>1. Native(k) /\ k \in Timers /\ clock \in [Timers -> Clock]
    BY DEF TimerInv, TimerTypes, Timers
  <2>2. Pending(k)' <=> Pending(k)
    BY <1>1 DEF Pending
  <2>3. CASE k # n
    BY <1>1, <1>3, <2>1, <2>2, <2>3, NativeKept
  <2>4. CASE k = n
    <3>1. ran[k] = 0 /\ ~Pending(k) /\ k \notin stopped /\ late[k] = 0
      BY <1>1, <2>1, <2>4 DEF Native
    <3>2. clock'[k].shotTimes \in {1, 2} /\ clock'[k] # NoClock
      BY <1>1, <2>1, <2>4 DEF NoClock
    <3> QED
      BY <1>1, <2>2, <3>1, <3>2 DEF Native, Forever
  <2> QED
    BY <2>3, <2>4
<1> QED
  BY <1>4, <1>5, <1>6 DEF TimerInv

\* The callback of a timer that is stopped may be pending.
LEMMA Stopped ==
    ASSUME TimerInv, NEW n \in Natives, StopTimerTask(n)
    PROVE  TimerInv'
<1> DEFINE others == Timers \ {n}
           r == KeepOnly(runningTimers, others)
<1>1. /\ runningTimers' = r /\ stopped' = stopped \cup {n} /\ clock[n] # NoClock /\ n \notin stopped
      /\ UNCHANGED <<js, callbackQueue, clock, ran, late>>
  BY DEF StopTimerTask, RemoveCppTimer
<1>2. /\ r \in Seq(Timers) /\ Once(r)
      /\ \A i \in 1 .. Len(r) : r[i] # n /\ Lists(runningTimers, r[i])
  <2>1. runningTimers \in Seq(Timers) /\ Once(runningTimers)
    BY DEF TimerInv, TimerTypes, Queues
  <2>2. /\ r \in Seq(Timers) /\ Once(r)
        /\ \A i \in 1 .. Len(r) :
              r[i] \in others /\ \E k \in 1 .. Len(runningTimers) : r[i] = runningTimers[k]
    <3> HIDE DEF others
    <3> QED
      BY <2>1, KeepOnlyKeeps
  <2> HIDE DEF r
  <2> QED
    BY <2>2 DEF Lists
<1> HIDE DEF r
<1>3. \A t : Lists(r, t) => Lists(runningTimers, t) /\ t # n
  BY <1>2 DEF Lists
<1>4. TimerTypes' /\ Queues'
  BY <1>1, <1>2, <1>3 DEF TimerInv, TimerTypes, Queues
<1>5. ASSUME NEW k \in Natives
      PROVE  Native(k)'
  <2>1. Native(k)
    BY DEF TimerInv
  <2>2. Pending(k)' <=> Pending(k)
    BY <1>1 DEF Pending
  <2>3. Lists(runningTimers, k)' => Lists(runningTimers, k) /\ k # n
    BY <1>1, <1>3
  <2>4. CASE k # n
    BY <1>1, <2>1, <2>2, <2>3, <2>4, NativeKept
  <2>5. CASE k = n
    BY <1>1, <2>1, <2>2, <2>3, <2>5 DEF Native
  <2> QED
    BY <2>4, <2>5
<1> QED
  BY <1>4, <1>5 DEF TimerInv

\* The three timers of TimerTaskHandler are started once.
LEMMA OwnStarted ==
    ASSUME TimerInv, InitTimer
    PROVE  TimerInv'
<1>1. /\ runningTimers' = runningTimers \o <<"task", "device", "js">>
      /\ clock' = [t \in Timers |->
                     IF t \in Own THEN [interval |-> OwnInterval[t], passed |-> 0, shotTimes |-> 2]
                     ELSE clock[t]]
      /\ js = "arming" /\ js' = "ticking"
      /\ UNCHANGED <<callbackQueue, stopped, ran, late>>
  BY DEF InitTimer, Forever
<1>2. /\ runningTimers \in Seq(Timers) /\ Once(runningTimers)
      /\ \A t \in Own : ~Lists(runningTimers, t)
      /\ callbackQueue = <<>>
  BY <1>1 DEF TimerInv, TimerTypes, Queues
<1>3. {"task", "device", "js"} = Own /\ Own \subseteq Timers
  BY DEF Own, Timers
<1> DEFINE a == Append(runningTimers, "task")
           b == Append(a, "device")
           c == Append(b, "js")
<1>4. a \in Seq(Timers) /\ Once(a) /\ \A t : Lists(a, t) => Lists(runningTimers, t) \/ t = "task"
  BY <1>2, <1>3, ListAppended
<1> HIDE DEF a
<1>5. b \in Seq(Timers) /\ Once(b) /\ \A t : Lists(b, t) => Lists(a, t) \/ t = "device"
  <2>1. ~Lists(a, "device") /\ "device" \in Timers
    BY <1>2, <1>3, <1>4
  <2> QED
    BY <1>4, <2>1, ListAppended
<1> HIDE DEF b
<1>6. c \in Seq(Timers) /\ Once(c) /\ \A t : Lists(c, t) => Lists(b, t) \/ t = "js"
  <2>1. ~Lists(b, "js") /\ "js" \in Timers
    BY <1>2, <1>3, <1>4, <1>5
  <2> QED
    BY <1>5, <2>1, ListAppended
<1>7. runningTimers' = c
  BY <1>1, <1>2, <1>3 DEF a, b
<1> HIDE DEF c
<1>8. TimerTypes'
  <2>1. \A t \in Own : OwnInterval[t] \in Nat
    BY BoundsAssumption DEF Own, OwnInterval
  <2>2. clock' \in [Timers -> Clock]
    BY <1>1, <2>1 DEF TimerInv, TimerTypes, Clock
  <2> QED
    BY <1>1, <1>6, <1>7, <2>2 DEF TimerInv, TimerTypes
<1>9. Queues'
  BY <1>1, <1>6, <1>7 DEF TimerInv, Queues
<1>10. ASSUME NEW n \in Natives
       PROVE  Native(n)'
  <2>1. Native(n) /\ n \in Timers /\ n \notin Own
    BY BoundsAssumption DEF TimerInv, Timers
  <2>2. clock'[n] = clock[n]
    BY <1>1, <2>1
  <2>3. Lists(runningTimers, n)' => Lists(runningTimers, n)
    BY <1>3, <1>4, <1>5, <1>6, <1>7, <2>1
  <2>4. ~Pending(n)'
    BY <1>1, <1>2 DEF Pending
  <2> QED
    BY <1>1, <2>1, <2>2, <2>3, <2>4, NativeKept
<1> QED
  BY <1>8, <1>9, <1>10 DEF TimerInv

\* Time changes only what has passed.
LEMMA Passed ==
    ASSUME TimerInv, TimePasses
    PROVE  TimerInv'
<1> DEFINE after(t) == [clock[t] EXCEPT !.passed =
                          IF clock[t].passed < clock[t].interval /\ t \in ToSet(runningTimers)
                          THEN clock[t].passed + 1 ELSE clock[t].passed]
<1>1. /\ clock' = [t \in Timers |-> after(t)]
      /\ UNCHANGED <<runningTimers, callbackQueue, stopped, ran, late, js>>
  BY DEF TimePasses
<1>2. ASSUME NEW t \in Timers
      PROVE  /\ clock'[t] \in Clock /\ clock'[t].shotTimes = clock[t].shotTimes
             /\ clock'[t].interval = clock[t].interval
             /\ clock'[t] = NoClock => clock[t] = NoClock
  <2>1. clock[t] \in Clock
    BY DEF TimerInv, TimerTypes
  <2> DEFINE v == IF clock[t].passed < clock[t].interval /\ t \in ToSet(runningTimers)
                  THEN clock[t].passed + 1 ELSE clock[t].passed
  <2>2. v \in Nat /\ (v # clock[t].passed => v > 0)
    BY <2>1 DEF Clock
  <2>3. clock'[t] = [clock[t] EXCEPT !.passed = v]
    BY <1>1
  <2> HIDE DEF v
  <2>4. clock'[t] \in Clock /\ clock'[t].shotTimes = clock[t].shotTimes
        /\ clock'[t].interval = clock[t].interval /\ clock'[t].passed = v
    BY <2>1, <2>2, <2>3 DEF Clock
  <2>5. ASSUME clock'[t] = NoClock
        PROVE  clock[t] = NoClock
    <3>1. v = 0 /\ clock[t].passed = 0
      BY <2>2, <2>4, <2>5 DEF NoClock
    <3>2. [clock[t] EXCEPT !.passed = 0] = clock[t]
      BY <2>1, <3>1 DEF Clock
    <3> QED
      BY <2>3, <2>5, <3>1, <3>2
  <2> QED
    BY <2>4, <2>5
<1>3. clock' \in [Timers -> Clock]
  <2> HIDE DEF after
  <2> QED
    BY <1>1, <1>2
<1>4. TimerTypes' /\ Queues'
  BY <1>1, <1>3 DEF TimerInv, TimerTypes, Queues
<1>5. ASSUME NEW n \in Natives
      PROVE  Native(n)'
  <2>1. Native(n) /\ n \in Timers
    BY DEF TimerInv, Timers
  <2>2. Pending(n)' <=> Pending(n)
    BY <1>1 DEF Pending
  <2> QED
    BY <1>1, <1>2, <2>1, <2>2 DEF Native
<1> QED
  BY <1>4, <1>5 DEF TimerInv

\* No timer calls back more often than it was asked to: a one-shot once,
\* however long it is kept, and one that was stopped at most once more,
\* whatever the application starts and stops in its callbacks.
THEOREM NoExtra == Spec => []NoExtraCallback
<1>1. Init => TimerInv
  <2> SUFFICES ASSUME Init PROVE TimerInv
    OBVIOUS
  <2>1. NoClock \in Clock
    BY DEF NoClock, Clock
  <2>2. TimerTypes
    BY <2>1 DEF Init, TimerTypes
  <2>3. Queues
    BY DEF Init, Queues, Once, Lists
  <2>4. \A n \in Natives : Native(n)
    BY DEF Init, Timers, NoClock, Forever, Native, Lists, Pending
  <2> QED
    BY <2>2, <2>3, <2>4 DEF TimerInv
<1>2. TimerInv /\ [Next]_vars => TimerInv'
  <2> SUFFICES ASSUME TimerInv, [Next]_vars
               PROVE  TimerInv'
    OBVIOUS
  <2> USE DEF timerVars, lifeVars
  <2>1. CASE Exit \/ MainSteps
    BY <2>1, TimersKept
       DEF Exit, MainSteps, Stop, ClearAllAsyncWork, HideAndDestroy, Reset,
           Finish, SetInterrupt
  <2>2. CASE CreateAbility \/ Launch \/ Show \/ EndOfStartJsApp
    <3>1. callbackQueue = <<>>
      BY <2>2 DEF TimerInv, Queues, CreateAbility, Launch, Show, UseAbility,
                  EndOfStartJsApp
    <3> QED
      BY <2>2, <3>1, TimersKept
         DEF CreateAbility, Launch, Show, UseAbility, EndOfStartJsApp
  <2>3. CASE EndOfTick \/ EndOfThread
    <3>1. callbackQueue = <<>>
      BY <2>3 DEF TimerInv, Queues, EndOfTick, EndOfThread
    <3> QED
      BY <2>3, <3>1, TimersKept DEF EndOfTick, EndOfThread
  <2>4. CASE BeginWork \/ AppendAsyncWork
    BY <2>4, TimersKept DEF BeginWork, AppendAsyncWork
  <2>5. CASE InitTimer
    BY <2>5, OwnStarted
  <2>6. CASE RunTimerTick
    BY <2>6, Ticked
  <2>7. CASE BeginCallback
    BY <2>7, Called
  <2>8. CASE ReturnFromCallback
    BY <2>8, Returned
  <2>9. ASSUME NEW n \in Natives, NEW p \in BOOLEAN, NEW d \in Delays, StartTimerTask(n, p, d)
        PROVE  TimerInv'
    BY <2>9, Started
  <2>10. ASSUME NEW n \in Natives, StopTimerTask(n)
         PROVE  TimerInv'
    BY <2>10, Stopped
  <2>11. CASE TimePasses
    BY <2>11, Passed
  <2>12. CASE UNCHANGED vars
    BY <2>12, TimersKept DEF vars
  <2> QED
    BY <2>1, <2>2, <2>3, <2>4, <2>5, <2>6, <2>7, <2>8, <2>9, <2>10, <2>11, <2>12
       DEF Next, JsSteps, Application
<1>3. TimerInv => NoExtraCallback
  BY DEF TimerInv, Native, NoExtraCallback
<1> QED
  BY <1>1, <1>2, <1>3, PTL DEF Spec
=============================================================================
