---------------------------- MODULE LaunchProofs ----------------------------
(***************************************************************************)
(* Proofs about the start of the previewer.                                *)
(*                                                                         *)
(* The first part is about StartParameters, for every command line and     *)
(* whatever the strings on it are: the map of the parser holds the last    *)
(* occurrence of every option read (Parsed), so that asking for an option  *)
(* gives what the command line means (Understood); every check then settles*)
(* one field of the configuration and leaves the others (Settled, Legal).  *)
(*                                                                         *)
(* The second part is about RichLaunch, for every set of colour modes,     *)
(* every set of commands sent early, and with or without a failing         *)
(* creation.                                                               *)
(***************************************************************************)
EXTENDS RichLaunch, StartParameters, SequenceTheorems, TLAPS

-----------------------------------------------------------------------------
\* The configuration of the previewer.

\* Where o was given for the last time among the first n tokens.
LastIn(o, p, n) == p \in 1 .. n /\ argv[p] = o /\ \A q \in p + 1 .. n : argv[q] # o

LineOK ==
    /\ argv \in Seq(STRING)
    /\ previewer \in {"rich", "thin"}
    /\ next \in 1 .. Len(argv) + 1
    /\ checked \in 0 .. 25
    /\ phase \in {"parsing", "checking", "shown", "invalid", "started"}

\* The map holds the tokens read so far.
Parsed ==
    phase = "parsing" =>
        /\ checked = 0 /\ config = Defaults
        /\ \A o \in Options : \A p \in 1 .. next - 1 : argv[p] = o => IsSet(o)
        /\ \A o \in DOMAIN argsMap :
              /\ o \in Options
              /\ \E p \in 1 .. next - 1 : LastIn(o, p, next - 1) /\ argsMap[o] = TakenAt(p).args

\* The options that some check asks Value for although they may not be set.
Asked == {"-p", "-device", "-url", "-lws"}
Understood ==
    phase \in {"checking", "started"} =>
        /\ \A o \in Options : Given(o) => IsSet(o)
        /\ \A o \in Options \ Asked : IsSet(o) => Given(o)
        /\ \A o \in Singles : Value(o) = Meant(o, Empty)

-----------------------------------------------------------------------------
LEMMA SinglesAreOptions == \A o \in Singles : o \in Options /\ Arity[o] = 1
  BY DEF Singles, Options, Flags, Pairs, Arity

LEMMA ArityOfOptions == \A o \in Options : Arity[o] \in 0 .. 2
  BY DEF Arity

\* How many tokens an option takes.
LEMMA Taken ==
  ASSUME LineOK, NEW p \in 1 .. Len(argv), argv[p] \in Options
  PROVE  /\ TakenAt(p).used \in 0 .. 2
         /\ p + TakenAt(p).used <= Len(argv)
         /\ \A j \in p + 1 .. p + TakenAt(p).used : argv[j] \in Values
<1> DEFINE n == Arity[argv[p]]
           Fits(k) == /\ p + k <= Len(argv)
                      /\ \A j \in 1 .. k : ~Dashed(p + j)
                      /\ k = n \/ p + k = Len(argv) \/ Dashed(p + k + 1)
           K == CHOOSE k \in 0 .. n : Fits(k)
<1>1. Len(argv) \in Nat /\ p \in Nat /\ n \in 0 .. 2
  BY LenProperties, ArityOfOptions DEF LineOK
<1>2. \E k \in 0 .. n : Fits(k)
  <2>1. CASE n = 0 \/ p = Len(argv) \/ Dashed(p + 1)
    <3>1. 0 \in 0 .. n /\ Fits(0)
      BY <1>1, <2>1
    <3> QED
      BY <3>1
  <2>2. CASE /\ n # 0 /\ p # Len(argv) /\ ~Dashed(p + 1)
             /\ n = 1 \/ p + 1 = Len(argv) \/ Dashed(p + 2)
    <3>1. 1 \in 0 .. n /\ Fits(1)
      BY <1>1, <2>2
    <3> QED
      BY <3>1
  <2>3. CASE n = 2 /\ p # Len(argv) /\ p + 1 # Len(argv) /\ ~Dashed(p + 1) /\ ~Dashed(p + 2)
    <3>1. 2 \in 0 .. n /\ Fits(2)
      BY <1>1, <2>3
    <3> QED
      BY <3>1
  <2> QED
    BY <1>1, <2>1, <2>2, <2>3
<1>3. K \in 0 .. n /\ Fits(K)
  BY <1>2
<1>4. TakenAt(p).used = K
  BY DEF TakenAt
<1> HIDE DEF K, n, Fits
<1>6. K \in 0 .. 2
  BY <1>1, <1>3
<1> USE DEF Fits
<1>5. ASSUME NEW j \in p + 1 .. p + K
      PROVE  argv[j] \in Values
  <2>1. j - p \in 1 .. K /\ p + (j - p) = j
    BY <1>1, <1>6
  <2> QED
    BY <1>3, <2>1 DEF Dashed
<1> QED
  BY <1>3, <1>4, <1>5, <1>6

LEMMA EmptyLength == Len(<<>>) = 0 /\ 0 # 1
  OBVIOUS

\* The sequences that an option of one argument takes.
LEMMA NoneTaken ==
  ASSUME NEW S, NEW s \in Seq(S), NEW p \in 1 .. Len(s), NEW v, NEW k, k = 0
  PROVE  \A a : a = SubSeq(s, p + 1, p + k) \o (IF k < 1 THEN <<v>> ELSE <<>>)
                    => a # <<>> /\ a[1] = v
<1> DEFINE t == SubSeq(s, p + 1, p + 0)
           u == <<v>>
<1>1. t = <<>>
  <2>1. p \in Int /\ p + 0 < p + 1
    BY LenProperties
  <2> QED
    BY <2>1, SubSeqEmpty
<1>2. u \in Seq({v}) /\ u[1] = v /\ Len(u) = 1
  OBVIOUS
<1> HIDE DEF t, u
<1>3. t \o u = u
  BY <1>1, <1>2, ConcatEmptySeq
<1>4. u # <<>>
  BY <1>2, EmptyLength, Zenon
<1>5. SubSeq(s, p + 1, p + k) \o (IF k < 1 THEN u ELSE <<>>) = t \o u
  BY DEF t
<1>6. k < 1
  OBVIOUS
<1> QED
  BY <1>3, <1>4, <1>5, <1>2, <1>6, Zenon DEF u

LEMMA OneTaken ==
  ASSUME NEW S, NEW s \in Seq(S), NEW p \in 1 .. Len(s), p # Len(s)
  PROVE  LET a == SubSeq(s, p + 1, p + 1) \o <<>> IN a # <<>> /\ a[1] = s[p + 1]
<1> DEFINE t == SubSeq(s, p + 1, p + 1)
           k == p + 1
           v == s[k]
<1>1. k \in 1 .. Len(s) /\ p + 1 = k
  BY LenProperties
<1>2. t = SubSeq(s, k, k)
  OBVIOUS
<1> HIDE DEF t, k, v
<1>3. t \in Seq(S) /\ Len(t) = 1 /\ t[1] = s[k]
  BY <1>1, <1>2, LenProperties, SubSeqProperties
<1>4. t \o <<>> = t
  BY <1>3
<1>5. t # <<>>
  BY <1>3, EmptyLength, Zenon
<1> QED
  BY <1>1, <1>3, <1>4, <1>5 DEF t

\* What an option of one argument takes is what it means.
LEMMA TakenIsMeant ==
  ASSUME LineOK, NEW o \in Singles, NEW p, LastIn(o, p, Len(argv))
  PROVE  /\ TakenAt(p).args # <<>>
         /\ TakenAt(p).args[1] = Meant(o, Empty)
<1> DEFINE Fits(k) == /\ p + k <= Len(argv)
                      /\ \A j \in 1 .. k : ~Dashed(p + j)
                      /\ k = 1 \/ p + k = Len(argv) \/ Dashed(p + k + 1)
           K == CHOOSE k \in 0 .. 1 : Fits(k)
           e == Empty
           A == SubSeq(argv, p + 1, p + K) \o (IF K < 1 THEN <<e>> ELSE <<>>)
<1>1. Len(argv) \in Nat /\ p \in 1 .. Len(argv) /\ argv[p] = o
  BY LenProperties DEF LineOK, LastIn
<1>2. TakenAt(p).args = A
  BY <1>1, SinglesAreOptions DEF TakenAt
<1>3. Given(o)
  BY <1>1 DEF Given
<1>4. Meant(o, Empty) = IF p = Len(argv) \/ Dashed(p + 1) THEN Empty ELSE argv[p + 1]
  <2> DEFINE Q == CHOOSE r \in 1 .. Len(argv) :
                      argv[r] = o /\ \A q \in r + 1 .. Len(argv) : argv[q] # o
  <2>1. Q \in 1 .. Len(argv) /\ argv[Q] = o /\ \A q \in Q + 1 .. Len(argv) : argv[q] # o
    BY <1>1 DEF LastIn
  <2>2. Meant(o, Empty) = IF Q = Len(argv) \/ Dashed(Q + 1) THEN Empty ELSE argv[Q + 1]
    BY <1>3 DEF Meant
  <2> HIDE DEF Q
  <2>3. Q = p
    BY <1>1, <2>1 DEF LastIn
  <2> QED
    BY <2>2, <2>3
<1>5. CASE p = Len(argv) \/ Dashed(p + 1)
  <2>1. Fits(0) /\ ~Fits(1)
    BY <1>1, <1>5
  <2>2. K = 0
    BY <2>1
  <2> HIDE DEF K
  <2>3. argv \in Seq(STRING) /\ p \in 1 .. Len(argv)
    BY <1>1 DEF LineOK
  <2>5. ASSUME NEW v
        PROVE  \A a : a = SubSeq(argv, p + 1, p + K) \o (IF K < 1 THEN <<v>> ELSE <<>>)
                          => a # <<>> /\ a[1] = v
    BY <2>2, <2>3, NoneTaken
  <2>6. A # <<>> /\ A[1] = e
    <3> HIDE DEF e
    <3>1. \A a : a = SubSeq(argv, p + 1, p + K) \o (IF K < 1 THEN <<e>> ELSE <<>>)
                    => a # <<>> /\ a[1] = e
      BY <2>5
    <3>2. A = SubSeq(argv, p + 1, p + K) \o (IF K < 1 THEN <<e>> ELSE <<>>)
      OBVIOUS
    <3> HIDE DEF A
    <3> QED
      BY <3>1, <3>2
  <2>4. TakenAt(p).args # <<>> /\ TakenAt(p).args[1] = Empty
    BY <1>2, <2>6, Zenon
  <2> QED
    BY <1>4, <1>5, <2>4, Zenon
<1>6. CASE ~(p = Len(argv) \/ Dashed(p + 1))
  <2>1. Fits(1) /\ ~Fits(0)
    BY <1>1, <1>6
  <2>2. K = 1
    BY <2>1
  <2> HIDE DEF K
  <2>3. TakenAt(p).args = SubSeq(argv, p + 1, p + 1) \o <<>>
    BY <1>2, <2>2
  <2>4. TakenAt(p).args # <<>> /\ TakenAt(p).args[1] = argv[p + 1]
    BY <1>1, <1>6, <2>3, OneTaken, Zenon DEF LineOK
  <2> QED
    BY <1>4, <1>6, <2>4, Zenon
<1> QED
  BY <1>5, <1>6

-----------------------------------------------------------------------------
LEMMA TwentyFiveChecks == Len(Checks) = 25
  BY DEF Checks

\* A check that is carried out, and whether it passes.
LEMMA CheckMade ==
  ASSUME LineOK, IsCommandValid
  PROVE  /\ phase = "checking" /\ checked \in 0 .. 24 /\ checked + 1 \in 1 .. 25
         /\ \/ phase' = "invalid" /\ checked' = checked
            \/ phase' = "checking" /\ checked' = checked + 1
<1>1. phase = "checking" /\ checked < Len(Checks)
  BY DEF IsCommandValid
<1>2. \/ phase' = "invalid" /\ checked' = checked
      \/ phase' = phase /\ checked' = checked + 1
  BY DEF IsCommandValid
<1>3. checked \in 0 .. 25 /\ checked < 25
  BY <1>1, TwentyFiveChecks DEF LineOK
<1> QED
  BY <1>1, <1>2, <1>3

\* The entries of a map after others were put over it.
LEMMA WithProperties ==
  ASSUME NEW f, NEW g
  PROVE  /\ DOMAIN With(f, g) = DOMAIN f \cup DOMAIN g
         /\ \A x \in DOMAIN g : With(f, g)[x] = g[x]
         /\ \A x \in DOMAIN f \ DOMAIN g : With(f, g)[x] = f[x]
  BY DEF With

\* What the command line means does not depend on how much of it was read.
LEMMA MeaningKept ==
  ASSUME argv' = argv
  PROVE  /\ \A o : Given(o)' <=> Given(o)
         /\ \A o, d : Meant(o, d)' = Meant(o, d)
<1>1. ASSUME NEW o PROVE Given(o)' <=> Given(o)
  BY DEF Given
<1>2. ASSUME NEW o, NEW d PROVE Meant(o, d)' = Meant(o, d)
  BY DEF Meant, Given, Dashed
<1> QED
  BY <1>1, <1>2

LEMMA TakenKept ==
  ASSUME argv' = argv, NEW p PROVE TakenAt(p)' = TakenAt(p)
  BY DEF TakenAt, Dashed

LEMMA LineStart == StartInit => LineOK /\ Parsed /\ Understood
<1> SUFFICES ASSUME StartInit PROVE LineOK /\ Parsed /\ Understood
  OBVIOUS
<1>1. argv \in Seq(STRING)
  BY LinesAssumption DEF StartInit
<1>2. Len(argv) \in Nat
  BY <1>1, LenProperties
<1>3. LineOK
  BY <1>1, <1>2 DEF StartInit, LineOK
<1>4. DOMAIN argsMap = {}
  BY DEF StartInit
<1>5. Parsed
  BY <1>4 DEF StartInit, Parsed
<1> QED
  BY <1>3, <1>5 DEF StartInit, Understood

LEMMA LineStep == LineOK /\ [StartNext]_startVars => LineOK'
<1> SUFFICES ASSUME LineOK, [StartNext]_startVars PROVE LineOK'
  OBVIOUS
<1> USE DEF LineOK
<1>0. Len(argv) \in Nat
  BY LenProperties
<1>1. CASE ParseToken
  <2>1. CASE argv[next] \in Options
    <3> DEFINE u == TakenAt(next).used
    <3>1. u \in 0 .. 2 /\ next + u <= Len(argv)
      BY <1>0, <1>1, <2>1, Taken DEF ParseToken
    <3>2. next' = next + 1 + u
      BY <1>1, <2>1 DEF ParseToken
    <3> HIDE DEF u
    <3>3. next' \in 1 .. Len(argv) + 1
      BY <1>0, <3>1, <3>2
    <3> QED
      BY <1>1, <3>3 DEF ParseToken
  <2>2. CASE argv[next] \notin Options
    BY <1>0, <1>1, <2>2 DEF ParseToken
  <2> QED
    BY <2>1, <2>2
<1>2. CASE \/ RefuseLength \/ ProcessCommand \/ StartRich \/ StartThin
           \/ Decided \/ UNCHANGED startVars
  BY <1>2 DEF RefuseLength, ProcessCommand, StartRich, StartThin, Decided, startVars
<1>3. CASE IsCommandValid
  <2>1. checked' \in {checked, checked + 1} /\ checked < 25 /\ phase' \in {phase, "invalid"}
    BY <1>3, CheckMade
  <2>2. UNCHANGED <<previewer, argv, next>>
    BY <1>3 DEF IsCommandValid
  <2> QED
    BY <2>1, <2>2
<1> QED
  BY <1>1, <1>2, <1>3 DEF StartNext

\* A token read is in the map, the last occurrence of an option over the ones
\* before it; the values that it takes are no options.
LEMMA ParsedStep == LineOK /\ Parsed /\ [StartNext]_startVars => Parsed'
<1> SUFFICES ASSUME LineOK, Parsed, [StartNext]_startVars, phase' = "parsing" PROVE Parsed'
  BY DEF Parsed
<1>0. Len(argv) \in Nat /\ next \in 1 .. Len(argv) + 1
  BY LenProperties DEF LineOK
<1>1. CASE ParseToken
  <2>0. /\ phase = "parsing" /\ next <= Len(argv)
        /\ argv' = argv /\ checked' = checked /\ config' = config
    BY <1>1 DEF ParseToken
  <2>1. \A p : TakenAt(p)' = TakenAt(p)
    BY <2>0, TakenKept
  <2>2. CASE argv[next] \in Options
    <3> DEFINE u == TakenAt(next).used
               o == argv[next]
    <3>1. /\ u \in 0 .. 2 /\ next + u <= Len(argv)
          /\ \A j \in next + 1 .. next + u : argv[j] \in Values
      BY <1>0, <2>0, <2>2, Taken
    <3>2. next' = next + 1 + u /\ argsMap' = With(argsMap, [x \in {o} |-> TakenAt(next).args])
      BY <1>1, <2>2 DEF ParseToken
    <3>3. \A j \in next + 1 .. next + u : argv[j] \notin Options
      BY <3>1, OptionsAssumption
    <3>4. /\ DOMAIN argsMap' = DOMAIN argsMap \cup {o}
          /\ argsMap'[o] = TakenAt(next).args
          /\ \A x \in DOMAIN argsMap \ {o} : argsMap'[x] = argsMap[x]
      <4> DEFINE g == [x \in {o} |-> TakenAt(next).args]
      <4>1. DOMAIN g = {o} /\ g[o] = TakenAt(next).args
        OBVIOUS
      <4>2. argsMap' = With(argsMap, g)
        BY <3>2
      <4> HIDE DEF g, o
      <4> QED
        BY <4>1, <4>2 DEF With
    <3> HIDE DEF u
    <3>6. ASSUME NEW x \in Options, NEW p \in 1 .. next' - 1, argv[p] = x
          PROVE  x \in DOMAIN argsMap'
      <4>1. p \in 1 .. next - 1 \/ p = next
        BY <1>0, <3>1, <3>2, <3>3, <3>6
      <4> QED
        BY <2>0, <3>4, <3>6, <4>1 DEF Parsed, IsSet
    <3>7. ASSUME NEW x \in DOMAIN argsMap'
          PROVE  /\ x \in Options
                 /\ \E p \in 1 .. next' - 1 : /\ p \in 1 .. next' - 1 /\ argv[p] = x
                                              /\ \A q \in p + 1 .. next' - 1 : argv[q] # x
                                              /\ argsMap'[x] = TakenAt(p).args
      <4>1. CASE x = o
        <5>1. next \in 1 .. next' - 1
          BY <1>0, <3>1, <3>2
        <5>2. ASSUME NEW q \in next + 1 .. next' - 1 PROVE argv[q] # o
          <6>1. q \in next + 1 .. next + u
            BY <1>0, <3>1, <3>2
          <6> QED
            BY <2>2, <3>3, <6>1
        <5> QED
          BY <2>2, <3>4, <4>1, <5>1, <5>2
      <4>2. CASE x # o
        <5>1. x \in DOMAIN argsMap /\ argsMap'[x] = argsMap[x]
          BY <3>4, <4>2
        <5>2. PICK p \in 1 .. next - 1 : LastIn(x, p, next - 1) /\ argsMap[x] = TakenAt(p).args
          BY <2>0, <5>1 DEF Parsed
        <5>3. x \in Options
          BY <2>0, <5>1 DEF Parsed
        <5>4. p \in 1 .. next' - 1
          BY <1>0, <3>1, <3>2
        <5>5. ASSUME NEW q \in p + 1 .. next' - 1 PROVE argv[q] # x
          <6>1. q \in p + 1 .. next - 1 \/ q = next \/ q \in next + 1 .. next + u
            BY <1>0, <3>1, <3>2
          <6> QED
            BY <3>3, <4>2, <5>2, <5>3, <6>1 DEF LastIn
        <5>6. argv[p] = x
          BY <5>2 DEF LastIn
        <5> QED
          BY <5>1, <5>2, <5>3, <5>4, <5>5, <5>6
      <4> QED
        BY <4>1, <4>2
    <3> QED
      BY <2>0, <2>1, <3>6, <3>7 DEF Parsed, IsSet, LastIn
  <2>3. CASE argv[next] \notin Options
    <3>1. next' = next + 1 /\ argsMap' = argsMap
      BY <1>1, <2>3 DEF ParseToken
    <3>2. ASSUME NEW x \in Options, NEW p \in 1 .. next' - 1, argv[p] = x
          PROVE  x \in DOMAIN argsMap'
      <4>1. p \in 1 .. next - 1
        BY <1>0, <2>3, <3>1, <3>2
      <4> QED
        BY <2>0, <3>1, <3>2, <4>1 DEF Parsed, IsSet
    <3>3. ASSUME NEW x \in DOMAIN argsMap'
          PROVE  /\ x \in Options
                 /\ \E p \in 1 .. next' - 1 : /\ p \in 1 .. next' - 1 /\ argv[p] = x
                                              /\ \A q \in p + 1 .. next' - 1 : argv[q] # x
                                              /\ argsMap'[x] = TakenAt(p).args
      <4>1. PICK p \in 1 .. next - 1 : LastIn(x, p, next - 1) /\ argsMap[x] = TakenAt(p).args
        BY <2>0, <3>1 DEF Parsed
      <4>2. x \in Options
        BY <2>0, <3>1 DEF Parsed
      <4>3. p \in 1 .. next' - 1 /\ argv[p] = x
        BY <1>0, <3>1, <4>1 DEF LastIn
      <4>4. ASSUME NEW q \in p + 1 .. next' - 1 PROVE argv[q] # x
        <5>1. q \in p + 1 .. next - 1 \/ q = next
          BY <1>0, <3>1
        <5> QED
          BY <2>3, <4>1, <4>2, <5>1 DEF LastIn
      <4> QED
        BY <3>1, <4>1, <4>2, <4>3, <4>4
    <3> QED
      BY <2>0, <2>1, <3>2, <3>3 DEF Parsed, IsSet, LastIn
  <2> QED
    BY <2>2, <2>3
<1>2. CASE RefuseLength \/ ProcessCommand \/ StartRich \/ StartThin \/ Decided
  BY <1>2 DEF RefuseLength, ProcessCommand, StartRich, StartThin, Decided, startVars
<1>3. CASE IsCommandValid
  BY <1>3 DEF IsCommandValid
<1>4. CASE UNCHANGED startVars
  <2>1. \A p : TakenAt(p)' = TakenAt(p)
    BY <1>4, TakenKept DEF startVars
  <2> QED
    BY <1>4, <2>1 DEF startVars, Parsed, IsSet, LastIn
<1> QED
  BY <1>1, <1>2, <1>3, <1>4 DEF StartNext

-----------------------------------------------------------------------------
\* The checks ask for no other options.
LEMMA AsksOnly == \A i \in 1 .. 25 : Checks[i].asks \subseteq Asked
<1>1. /\ IsDebugPortValid.asks \subseteq Asked
     /\ IsAppPathValid.asks \subseteq Asked
     /\ IsAppNameValid.asks \subseteq Asked
     /\ IsResolutionValid.asks \subseteq Asked
     /\ IsConfigPathValid.asks \subseteq Asked
     /\ IsJsHeapValid.asks \subseteq Asked
     /\ IsJsHeapFlagValid.asks \subseteq Asked
     /\ IsScreenShapeValid.asks \subseteq Asked
     /\ IsDeviceValid.asks \subseteq Asked
  BY DEF IsDebugPortValid, IsAppPathValid, IsAppNameValid, IsResolutionValid,
         IsConfigPathValid, IsJsHeapValid, IsJsHeapFlagValid, IsScreenShapeValid,
         IsDeviceValid,
         OneOf, Optional, Check, Asked
<1>2. /\ IsUrlValid.asks \subseteq Asked
     /\ IsRefreshValid.asks \subseteq Asked
     /\ IsCardValid.asks \subseteq Asked
     /\ IsProjectIDValid.asks \subseteq Asked
     /\ IsColorModeValid.asks \subseteq Asked
     /\ IsOrientationValid.asks \subseteq Asked
     /\ IsWebSocketPortValid.asks \subseteq Asked
     /\ IsAceVersionValid.asks \subseteq Asked
  BY DEF IsUrlValid, IsRefreshValid, IsCardValid, IsProjectIDValid,
         IsColorModeValid, IsOrientationValid, IsWebSocketPortValid,
         IsAceVersionValid,
         OneOf, Optional, Check, Asked
<1>3. /\ IsScreenModeValid.asks \subseteq Asked
     /\ IsAppResourcePathValid.asks \subseteq Asked
     /\ IsProjectModelValid.asks \subseteq Asked
     /\ IsPagesValid.asks \subseteq Asked
     /\ IsContainerSdkPathValid.asks \subseteq Asked
     /\ IsComponentModeValid.asks \subseteq Asked
     /\ IsAbilityPathValid.asks \subseteq Asked
     /\ IsStaticCardValid.asks \subseteq Asked
  BY DEF IsScreenModeValid, IsAppResourcePathValid, IsProjectModelValid,
         IsPagesValid, IsContainerSdkPathValid, IsComponentModeValid,
         IsAbilityPathValid, IsStaticCardValid,
         OneOf, Optional, Check, Asked
<1> QED
  BY <1>1, <1>2, <1>3 DEF Checks

\* Asking for an option that was not given makes it set, with the value "".
LEMMA AskedValues ==
  ASSUME IsCommandValid
  PROVE  /\ \A o : IsSet(o)' <=> IsSet(o) \/ o \in Checks[checked + 1].asks
         /\ \A o : Value(o)' = Value(o)
<1> DEFINE c == Checks[checked + 1]
           g == [o \in c.asks |-> <<>>]
           none == <<>>
<1>1. argsMap' = With(g, argsMap)
  BY DEF IsCommandValid
<1>2. DOMAIN g = c.asks /\ \A o \in c.asks : g[o] = none
  OBVIOUS
<1> HIDE DEF g, c, none
<1>3. /\ DOMAIN argsMap' = DOMAIN argsMap \cup c.asks
      /\ \A o \in DOMAIN argsMap : argsMap'[o] = argsMap[o]
      /\ \A o \in c.asks \ DOMAIN argsMap : argsMap'[o] = none
  BY <1>1, <1>2 DEF With
<1>4. ASSUME NEW o PROVE IsSet(o)' <=> IsSet(o) \/ o \in c.asks
  BY <1>3 DEF IsSet
<1>5. ASSUME NEW o PROVE Value(o)' = Value(o)
  <2>1. CASE o \in DOMAIN argsMap
    BY <1>3, <2>1 DEF Value, IsSet
  <2>2. CASE o \notin DOMAIN argsMap /\ o \in c.asks
    BY <1>3, <2>2 DEF Value, IsSet, none
  <2>3. CASE o \notin DOMAIN argsMap /\ o \notin c.asks
    BY <1>3, <2>3 DEF Value, IsSet
  <2> QED
    BY <2>1, <2>2, <2>3
<1> QED
  BY <1>4, <1>5 DEF c

\* The whole line was read: what is set was given, or is one of the options
\* that are asked for, and the value of an option is what it means.
LEMMA UnderstoodStep ==
  LineOK /\ Parsed /\ Understood /\ [StartNext]_startVars => Understood'
<1> SUFFICES ASSUME LineOK, Parsed, Understood, [StartNext]_startVars,
                    phase' \in {"checking", "started"}
             PROVE  Understood'
  BY DEF Understood
<1>0. argv' = argv
  BY DEF StartNext, ParseToken, RefuseLength, ProcessCommand, IsCommandValid, StartRich,
         StartThin, Decided, startVars
<1>a. (\A o : Given(o)' <=> Given(o)) /\ \A o, d : Meant(o, d)' = Meant(o, d)
  BY <1>0, MeaningKept
<1>1. CASE ParseToken \/ RefuseLength
  BY <1>1 DEF ParseToken, RefuseLength
<1>2. CASE ProcessCommand
  <2>0. phase = "parsing" /\ argsMap' = argsMap /\ next - 1 = Len(argv)
    <3>1. Len(argv) \in Nat
      BY LenProperties DEF LineOK
    <3> QED
      BY <1>2, <3>1 DEF ProcessCommand, LineOK
  <2>1. ASSUME NEW o \in Options, Given(o) PROVE IsSet(o)
    BY <2>0, <2>1 DEF Parsed, Given
  <2>2. ASSUME NEW o, IsSet(o)
        PROVE  /\ o \in Options
               /\ \E p \in 1 .. Len(argv) :
                     LastIn(o, p, Len(argv)) /\ argsMap[o] = TakenAt(p).args
    BY <2>0, <2>2 DEF Parsed, IsSet
  <2>3. ASSUME NEW o, IsSet(o) PROVE Given(o)
    BY <2>2, <2>3 DEF Given, LastIn
  <2>4. ASSUME NEW o \in Singles PROVE Value(o) = Meant(o, Empty)
    <3>1. CASE IsSet(o)
      <4>1. PICK p \in 1 .. Len(argv) : LastIn(o, p, Len(argv)) /\ argsMap[o] = TakenAt(p).args
        BY <2>2, <3>1
      <4>2. argsMap[o] # <<>> /\ argsMap[o][1] = Meant(o, Empty)
        BY <4>1, TakenIsMeant
      <4> QED
        BY <3>1, <4>2, Zenon DEF Value
    <3>2. CASE ~IsSet(o)
      <4>1. ~Given(o)
        BY <2>1, <3>2, SinglesAreOptions
      <4> QED
        BY <3>2, <4>1 DEF Value, Meant
    <3> QED
      BY <3>1, <3>2
  <2>5. (\A o : IsSet(o)' <=> IsSet(o)) /\ \A o : Value(o)' = Value(o)
    BY <2>0 DEF IsSet, Value
  <2> QED
    BY <1>a, <2>1, <2>3, <2>4, <2>5 DEF Understood
<1>3. CASE IsCommandValid
  <2>1. phase = "checking" /\ checked + 1 \in 1 .. 25
    BY <1>3, CheckMade
  <2>2. Checks[checked + 1].asks \subseteq Asked
    BY <2>1, AsksOnly
  <2> HIDE DEF Asked
  <2> QED
    BY <1>3, <1>a, <2>1, <2>2, AskedValues DEF Understood
<1>4. CASE StartRich \/ StartThin \/ Decided \/ UNCHANGED startVars
  <2>1. argsMap' = argsMap /\ phase \in {"checking", "started"}
    BY <1>4 DEF StartRich, StartThin, Decided, startVars
  <2>2. (\A o : IsSet(o)' <=> IsSet(o)) /\ \A o : Value(o)' = Value(o)
    BY <2>1 DEF IsSet, Value
  <2> QED
    BY <1>a, <2>1, <2>2 DEF Understood
<1> QED
  BY <1>1, <1>2, <1>3, <1>4 DEF StartNext

-----------------------------------------------------------------------------
\* The number of the check that assigns a field.
CheckOf == [
    appName |-> 3, orignal |-> 4, compression |-> 4, configPath |-> 5, jsHeapSize |-> 6,
    isSendJSHeap |-> 7, screenShape |-> 8, deviceType |-> 9, urlPath |-> 10,
    isRegionRefresh |-> 11, isCardDisplay |-> 12, projectID |-> 13, screenMode |-> 18,
    appResourcePath |-> 19, projectModel |-> 20, pages |-> 21, containerSdkPath |-> 22,
    isComponentMode |-> 23, abilityPath |-> 24, staticCard |-> 25]

\* What the command line means for each field that has a default.
Intended == [
    appName          |-> Meant("-n", "undefined"),
    configPath       |-> Meant("-f", Empty),
    jsHeapSize       |-> IF Given("-hs") THEN Atoi[Meant("-hs", Empty)] ELSE MAX_JSHEAPSIZE,
    isSendJSHeap     |-> Meant("-hf", "true") = "true",
    screenShape      |-> Meant("-shape", "circle"),
    deviceType       |-> Meant("-device", Empty),
    urlPath          |-> Meant("-url", Empty),
    isRegionRefresh  |-> Meant("-refresh", "full") = "region",
    isCardDisplay    |-> /\ Meant("-card", "false") = "true"
                         /\ Meant("-device", Empty) \in cardDisplayDevices,
    projectID        |-> Meant("-projectID", Empty),
    screenMode       |-> Meant("-sm", "dynamic"),
    appResourcePath  |-> Meant("-arp", Empty),
    projectModel     |-> Meant("-pm", "FA"),
    pages            |-> Meant("-pages", "main_pages"),
    containerSdkPath |-> Meant("-hsp", Empty),
    isComponentMode  |-> Meant("-cpm", "false") = "true",
    staticCard       |-> Meant("-staticCard", "false") = "true"]

\* A field has its default until its check has passed, and then its meaning.
Settled ==
    phase \in {"checking", "started"} =>
        /\ DOMAIN CheckOf \subseteq DOMAIN config
        /\ \A f \in DOMAIN Intended :
              config[f] = IF checked >= CheckOf[f] THEN Intended[f] ELSE Defaults[f]

\* What the checks passed say of the values.
Legal ==
    phase \in {"checking", "started"} =>
        /\ checked >= 1 => Atoi[Meant("-p", Empty)] \in {0} \cup Ports
        /\ checked >= 4 => /\ \A o \in Pairs : Given(o)
                           /\ config.orignal \in Resolutions \X Resolutions
                           /\ config.compression \in Resolutions \X Resolutions
        /\ checked >= 6 /\ Given("-hs") => Atoi[Meant("-hs", Empty)] \in HeapSizes
        /\ checked >= 10 => Meant("-url", Empty) # Empty
        /\ checked >= 16 => Atoi[Meant("-lws", Empty)] \in {0} \cup Ports
        /\ checked >= 24 /\ Given("-d") /\ Meant("-device", Empty) \notin liteDevice
               => config.abilityPath # Empty

LEMMA IntendedKept == ASSUME argv' = argv PROVE Intended' = Intended
  BY DEF Intended, Meant, Given, Dashed

LEMMA FieldNames ==
  /\ DOMAIN Intended \subseteq DOMAIN CheckOf
  /\ DOMAIN CheckOf = DOMAIN Defaults
  BY DEF Intended, CheckOf, Defaults

\* Every field is assigned by one check.
LEMMA AssignsOnly == \A i \in 1 .. 25 : \A f \in DOMAIN Checks[i].assigns : CheckOf[f] = i
<1>1. /\ DOMAIN IsDebugPortValid.assigns \subseteq {}
     /\ DOMAIN IsAppPathValid.assigns \subseteq {}
     /\ DOMAIN IsAppNameValid.assigns \subseteq {"appName"}
     /\ DOMAIN IsResolutionValid.assigns \subseteq {"orignal", "compression"}
     /\ DOMAIN IsConfigPathValid.assigns \subseteq {"configPath"}
     /\ DOMAIN IsJsHeapValid.assigns \subseteq {"jsHeapSize"}
     /\ DOMAIN IsJsHeapFlagValid.assigns \subseteq {"isSendJSHeap"}
     /\ DOMAIN IsScreenShapeValid.assigns \subseteq {"screenShape"}
     /\ DOMAIN IsDeviceValid.assigns \subseteq {"deviceType"}
  BY DEF IsDebugPortValid, IsAppPathValid, IsAppNameValid, IsResolutionValid,
         IsConfigPathValid, IsJsHeapValid, IsJsHeapFlagValid, IsScreenShapeValid, IsDeviceValid,
         OneOf, Optional, Check, Nothing
<1>2. /\ DOMAIN IsUrlValid.assigns \subseteq {"urlPath"}
     /\ DOMAIN IsRefreshValid.assigns \subseteq {"isRegionRefresh"}
     /\ DOMAIN IsCardValid.assigns \subseteq {"isCardDisplay"}
     /\ DOMAIN IsProjectIDValid.assigns \subseteq {"projectID"}
     /\ DOMAIN IsColorModeValid.assigns \subseteq {}
     /\ DOMAIN IsOrientationValid.assigns \subseteq {}
     /\ DOMAIN IsWebSocketPortValid.assigns \subseteq {}
     /\ DOMAIN IsAceVersionValid.assigns \subseteq {}
  BY DEF IsUrlValid, IsRefreshValid, IsCardValid, IsProjectIDValid, IsColorModeValid,
         IsOrientationValid, IsWebSocketPortValid, IsAceVersionValid,
         OneOf, Optional, Check, Nothing
<1>3. /\ DOMAIN IsScreenModeValid.assigns \subseteq {"screenMode"}
     /\ DOMAIN IsAppResourcePathValid.assigns \subseteq {"appResourcePath"}
     /\ DOMAIN IsProjectModelValid.assigns \subseteq {"projectModel"}
     /\ DOMAIN IsPagesValid.assigns \subseteq {"pages"}
     /\ DOMAIN IsContainerSdkPathValid.assigns \subseteq {"containerSdkPath"}
     /\ DOMAIN IsComponentModeValid.assigns \subseteq {"isComponentMode"}
     /\ DOMAIN IsStaticCardValid.assigns \subseteq {"staticCard"}
  BY DEF IsScreenModeValid, IsAppResourcePathValid, IsProjectModelValid, IsPagesValid,
         IsContainerSdkPathValid, IsComponentModeValid, IsStaticCardValid,
         OneOf, Optional, Check, Nothing
<1>4. DOMAIN IsAbilityPathValid.assigns \subseteq {"abilityPath"}
  <2>1. IsAbilityPathValid.assigns \in {Nothing, [abilityPath |-> Value("-abp")]}
    BY DEF IsAbilityPathValid, Check
  <2> QED
    BY <2>1 DEF Nothing
<1> QED
  BY <1>1, <1>2, <1>3, <1>4 DEF Checks, CheckOf

\* So a check that passes leaves the other fields alone.
LEMMA Frame ==
  ASSUME IsCommandValid, checked \in 0 .. 24
  PROVE  /\ DOMAIN config \subseteq DOMAIN config'
         /\ \A f \in DOMAIN config : CheckOf[f] # checked + 1 => config'[f] = config[f]
<1> DEFINE g == Checks[checked + 1].assigns
<1>1. config' = With(config, g)
  BY DEF IsCommandValid
<1>2. \A f \in DOMAIN g : CheckOf[f] = checked + 1
  BY AssignsOnly
<1> HIDE DEF g
<1> QED
  BY <1>1, <1>2 DEF With

\* A default matters only for an option that was not given.
LEMMA MeantOr ==
  ASSUME NEW o, NEW d
  PROVE  Meant(o, d) = IF Given(o) THEN Meant(o, Empty) ELSE d
  BY DEF Meant

\* What the checks of the usual form assign when they pass.
LEMMA OptionalAssigns ==
  ASSUME NEW o, NEW legal, NEW a, Optional(o, legal, a).ok
  PROVE  /\ IsSet(o) => legal
         /\ Optional(o, legal, a).assigns = IF IsSet(o) THEN a ELSE Nothing
  BY DEF Optional, Check

LEMMA WithNothing ==
  ASSUME NEW c, NEW f \in DOMAIN c PROVE With(c, Nothing)[f] = c[f]
  BY DEF With, Nothing

\* An option that was not given leaves the field as it is.
LEMMA GivenAssigns ==
  ASSUME Understood, phase = "checking", NEW o \in Singles \ Asked,
         NEW f \in DOMAIN config, NEW a, NEW s, s = IF IsSet(o) THEN a ELSE Nothing
  PROVE  With(config, s)[f] = IF Given(o) THEN With(config, a)[f] ELSE config[f]
<1>1. IsSet(o) <=> Given(o)
  BY SinglesAreOptions DEF Understood
<1>2. CASE IsSet(o)
  BY <1>1, <1>2
<1>3. CASE ~IsSet(o)
  BY <1>1, <1>3 DEF With, Nothing
<1> QED
  BY <1>2, <1>3

\* A check that passes gives its field the value that the command line means.
LEMMA FieldStep ==
  ASSUME LineOK, Understood, Settled, IsCommandValid, phase' = "checking",
         NEW f \in DOMAIN Intended, CheckOf[f] = checked + 1
  PROVE  config'[f] = Intended[f]
<1> DEFINE c == Checks[checked + 1]
<1>1. /\ phase = "checking" /\ checked \in 0 .. 24
      /\ c.ok /\ config' = With(config, c.assigns)
  <2>1. config' = With(config, c.assigns) /\ (c.ok \/ phase' = "invalid")
    BY DEF IsCommandValid
  <2> QED
    BY <2>1, CheckMade
<1>2. \A o \in Singles : Value(o) = Meant(o, Empty)
  BY <1>1 DEF Understood
<1>3. f \in DOMAIN config /\ config[f] = Defaults[f]
  BY <1>1, FieldNames DEF Settled
<1>4. CASE f = "appName"
  <2>1. checked = 2 /\ config[f] = "undefined"
    BY <1>1, <1>3, <1>4 DEF CheckOf, Defaults
  <2>2. c = IsAppNameValid
    BY <2>1 DEF Checks
  <2> DEFINE a == [appName |-> Value("-n")]
  <2>3. c.assigns = IF IsSet("-n") THEN a ELSE Nothing
    BY <1>1, <2>2, OptionalAssigns DEF IsAppNameValid, OneOf
  <2> HIDE DEF c
  <2>4. With(config, c.assigns)[f] = IF Given("-n") THEN With(config, a)[f] ELSE config[f]
    BY <1>1, <1>3, <2>3, GivenAssigns DEF Singles, Asked
  <2>5. Value("-n") = Meant("-n", Empty)
    BY <1>2 DEF Singles
  <2>6. With(config, a)[f] = Value("-n")
    BY <1>4 DEF With
  <2> QED
    BY <1>1, <1>4, <2>1, <2>4, <2>5, <2>6, MeantOr DEF Intended
<1>5. CASE f = "configPath"
  <2>1. checked = 4 /\ config[f] = Empty
    BY <1>1, <1>3, <1>5 DEF CheckOf, Defaults
  <2>2. c = IsConfigPathValid
    BY <2>1 DEF Checks
  <2> DEFINE a == [configPath |-> Value("-f")]
  <2>3. c.assigns = IF IsSet("-f") THEN a ELSE Nothing
    BY <1>1, <2>2, OptionalAssigns DEF IsConfigPathValid, OneOf
  <2> HIDE DEF c
  <2>4. With(config, c.assigns)[f] = IF Given("-f") THEN With(config, a)[f] ELSE config[f]
    BY <1>1, <1>3, <2>3, GivenAssigns DEF Singles, Asked
  <2>5. Value("-f") = Meant("-f", Empty)
    BY <1>2 DEF Singles
  <2>6. With(config, a)[f] = Value("-f")
    BY <1>5 DEF With
  <2> QED
    BY <1>1, <1>5, <2>1, <2>4, <2>5, <2>6, MeantOr DEF Intended
<1>6. CASE f = "jsHeapSize"
  <2>1. checked = 5 /\ config[f] = MAX_JSHEAPSIZE
    BY <1>1, <1>3, <1>6 DEF CheckOf, Defaults
  <2>2. c = IsJsHeapValid
    BY <2>1 DEF Checks
  <2> DEFINE a == [jsHeapSize |-> Atoi[Value("-hs")]]
  <2>3. c.assigns = IF IsSet("-hs") THEN a ELSE Nothing
    BY <1>1, <2>2, OptionalAssigns DEF IsJsHeapValid
  <2> HIDE DEF c
  <2>4. With(config, c.assigns)[f] = IF Given("-hs") THEN With(config, a)[f] ELSE config[f]
    BY <1>1, <1>3, <2>3, GivenAssigns DEF Singles, Asked
  <2>5. Value("-hs") = Meant("-hs", Empty)
    BY <1>2 DEF Singles
  <2>6. With(config, a)[f] = Atoi[Value("-hs")]
    BY <1>6, <1>3, <2>1 DEF With, Nothing
  <2> QED
    BY <1>1, <1>6, <2>1, <2>4, <2>5, <2>6 DEF Intended
<1>7. CASE f = "isSendJSHeap"
  <2>1. checked = 6 /\ config[f] = TRUE
    BY <1>1, <1>3, <1>7 DEF CheckOf, Defaults
  <2>2. c = IsJsHeapFlagValid
    BY <2>1 DEF Checks
  <2> DEFINE a == [isSendJSHeap |-> Value("-hf") = "true"]
  <2>3. c.assigns = IF IsSet("-hf") THEN a ELSE Nothing
    BY <1>1, <2>2, OptionalAssigns DEF IsJsHeapFlagValid, OneOf
  <2> HIDE DEF c
  <2>4. With(config, c.assigns)[f] = IF Given("-hf") THEN With(config, a)[f] ELSE config[f]
    BY <1>1, <1>3, <2>3, GivenAssigns DEF Singles, Asked
  <2>5. Value("-hf") = Meant("-hf", Empty)
    BY <1>2 DEF Singles
  <2>6. With(config, a)[f] = (Value("-hf") = "true")
    BY <1>7, <1>3, <2>1 DEF With, Nothing
  <2>7. Meant("-hf", "true") = IF Given("-hf") THEN Value("-hf") ELSE "true"
    BY <2>5, MeantOr
  <2>8. config'[f] = (Meant("-hf", "true") = "true")
    BY <1>1, <2>1, <2>4, <2>6, <2>7
  <2> QED
    BY <1>7, <2>8 DEF Intended
<1>8. CASE f = "screenShape"
  <2>1. checked = 7 /\ config[f] = "circle"
    BY <1>1, <1>3, <1>8 DEF CheckOf, Defaults
  <2>2. c = IsScreenShapeValid
    BY <2>1 DEF Checks
  <2> DEFINE a == [screenShape |-> Value("-shape")]
  <2>3. c.assigns = IF IsSet("-shape") THEN a ELSE Nothing
    BY <1>1, <2>2, OptionalAssigns DEF IsScreenShapeValid, OneOf
  <2> HIDE DEF c
  <2>4. With(config, c.assigns)[f] = IF Given("-shape") THEN With(config, a)[f] ELSE config[f]
    BY <1>1, <1>3, <2>3, GivenAssigns DEF Singles, Asked
  <2>5. Value("-shape") = Meant("-shape", Empty)
    BY <1>2 DEF Singles
  <2>6. With(config, a)[f] = Value("-shape")
    BY <1>8 DEF With
  <2> QED
    BY <1>1, <1>8, <2>1, <2>4, <2>5, <2>6, MeantOr DEF Intended
<1>9. CASE f = "deviceType"
  <2>1. checked = 8 /\ config[f] = "liteWearable"
    BY <1>1, <1>3, <1>9 DEF CheckOf, Defaults
  <2>2. c = IsDeviceValid
    BY <2>1 DEF Checks
  <2>3. c.assigns = [deviceType |-> Value("-device")]
    <3> DEFINE ok == IsSet("-device") => Value("-device") \in supportedDevices
    <3>1. IsDeviceValid.ok = ok
      BY Zenon DEF IsDeviceValid, Check
    <3>2. IsDeviceValid.assigns = IF ok THEN [deviceType |-> Value("-device")] ELSE Nothing
      BY Zenon DEF IsDeviceValid, Check
    <3> HIDE DEF ok
    <3> QED
      BY <1>1, <2>2, <3>1, <3>2
  <2> HIDE DEF c
  <2>4. With(config, c.assigns)[f] = Value("-device")
    BY <1>9, <2>3 DEF With
  <2>5. Value("-device") = Meant("-device", Empty)
    BY <1>2 DEF Singles
  <2> QED
    BY <1>1, <1>9, <2>4, <2>5 DEF Intended
<1>10. CASE f = "urlPath"
  <2>1. checked = 9 /\ config[f] = Empty
    BY <1>1, <1>3, <1>10 DEF CheckOf, Defaults
  <2>2. c = IsUrlValid
    BY <2>1 DEF Checks
  <2>3. c.assigns = [urlPath |-> Value("-url")]
    BY <1>1, <2>2 DEF IsUrlValid, Check
  <2> HIDE DEF c
  <2>4. With(config, c.assigns)[f] = Value("-url")
    BY <1>10, <2>3 DEF With
  <2>5. Value("-url") = Meant("-url", Empty)
    BY <1>2 DEF Singles
  <2> QED
    BY <1>1, <1>10, <2>4, <2>5 DEF Intended
<1>11. CASE f = "isRegionRefresh"
  <2>1. checked = 10 /\ config[f] = FALSE
    BY <1>1, <1>3, <1>11 DEF CheckOf, Defaults
  <2>2. c = IsRefreshValid
    BY <2>1 DEF Checks
  <2> DEFINE a == IF Value("-refresh") = "region" THEN [isRegionRefresh |-> TRUE] ELSE Nothing
  <2>3. c.assigns = IF IsSet("-refresh") THEN a ELSE Nothing
    BY <1>1, <2>2, OptionalAssigns DEF IsRefreshValid, OneOf
  <2> HIDE DEF c
  <2>4. With(config, c.assigns)[f] = IF Given("-refresh") THEN With(config, a)[f] ELSE config[f]
    BY <1>1, <1>3, <2>3, GivenAssigns DEF Singles, Asked
  <2>5. Value("-refresh") = Meant("-refresh", Empty)
    BY <1>2 DEF Singles
  <2>6. With(config, a)[f] = (Value("-refresh") = "region")
    <3>1. CASE (Value("-refresh") = "region")
      BY <1>11, <3>1 DEF With
    <3>2. CASE ~(Value("-refresh") = "region")
      <4>1. a = Nothing
        BY <3>2, Zenon
      <4>2. With(config, a)[f] = FALSE
        BY <1>3, <2>1, <4>1, WithNothing, Zenon
      <4> QED
        BY <3>2, <4>2, Zenon
    <3> QED
      BY <3>1, <3>2, Zenon
  <2>7. Meant("-refresh", "full") = IF Given("-refresh") THEN Value("-refresh") ELSE "full"
    BY <2>5, MeantOr
  <2>8. config'[f] = (Meant("-refresh", "full") = "region")
    BY <1>1, <2>1, <2>4, <2>6, <2>7
  <2> QED
    BY <1>11, <2>8 DEF Intended
<1>12. CASE f = "isCardDisplay"
  <2>1. checked = 11 /\ config[f] = FALSE
    BY <1>1, <1>3, <1>12 DEF CheckOf, Defaults
  <2>2. c = IsCardValid
    BY <2>1 DEF Checks
  <2> DEFINE a == IF config.deviceType \in cardDisplayDevices /\ Value("-card") = "true"
                  THEN [isCardDisplay |-> TRUE] ELSE Nothing
  <2>3. c.assigns = IF IsSet("-card") THEN a ELSE Nothing
    BY <1>1, <2>2, OptionalAssigns DEF IsCardValid, OneOf
  <2> HIDE DEF c
  <2>4. With(config, c.assigns)[f] = IF Given("-card") THEN With(config, a)[f] ELSE config[f]
    BY <1>1, <1>3, <2>3, GivenAssigns DEF Singles, Asked
  <2>5. Value("-card") = Meant("-card", Empty)
    BY <1>2 DEF Singles
  <2>6. With(config, a)[f] = (config.deviceType \in cardDisplayDevices /\ Value("-card") = "true")
    <3>1. CASE (config.deviceType \in cardDisplayDevices /\ Value("-card") = "true")
      BY <1>12, <3>1 DEF With
    <3>2. CASE ~(config.deviceType \in cardDisplayDevices /\ Value("-card") = "true")
      <4>1. a = Nothing
        BY <3>2, Zenon
      <4>2. With(config, a)[f] = FALSE
        BY <1>3, <2>1, <4>1, WithNothing, Zenon
      <4> QED
        BY <3>2, <4>2, Zenon
    <3> QED
      BY <3>1, <3>2, Zenon
  <2>7. Meant("-card", "false") = IF Given("-card") THEN Value("-card") ELSE "false"
    BY <2>5, MeantOr
  <2>8. config.deviceType = Meant("-device", Empty)
    BY <1>1, <2>1 DEF Settled, Intended, CheckOf
  <2>9. config'[f] = (/\ Meant("-card", "false") = "true"
                      /\ Meant("-device", Empty) \in cardDisplayDevices)
    BY <1>1, <2>1, <2>4, <2>6, <2>7, <2>8
  <2>10. Intended["isCardDisplay"] = (/\ Meant("-card", "false") = "true"
                                      /\ Meant("-device", Empty) \in cardDisplayDevices)
    BY DEF Intended
  <2> QED
    BY <1>12, <2>9, <2>10, Zenon
<1>13. CASE f = "projectID"
  <2>1. checked = 12 /\ config[f] = Empty
    BY <1>1, <1>3, <1>13 DEF CheckOf, Defaults
  <2>2. c = IsProjectIDValid
    BY <2>1 DEF Checks
  <2> DEFINE a == [projectID |-> Value("-projectID")]
  <2>3. c.assigns = IF IsSet("-projectID") THEN a ELSE Nothing
    BY <2>2 DEF IsProjectIDValid, Check
  <2> HIDE DEF c
  <2>4. With(config, c.assigns)[f] = IF Given("-projectID") THEN With(config, a)[f] ELSE config[f]
    BY <1>1, <1>3, <2>3, GivenAssigns DEF Singles, Asked
  <2>5. Value("-projectID") = Meant("-projectID", Empty)
    BY <1>2 DEF Singles
  <2>6. With(config, a)[f] = Value("-projectID")
    BY <1>13 DEF With
  <2> QED
    BY <1>1, <1>13, <2>1, <2>4, <2>5, <2>6, MeantOr DEF Intended
<1>14. CASE f = "screenMode"
  <2>1. checked = 17 /\ config[f] = "dynamic"
    BY <1>1, <1>3, <1>14 DEF CheckOf, Defaults
  <2>2. c = IsScreenModeValid
    BY <2>1 DEF Checks
  <2> DEFINE a == [screenMode |-> Value("-sm")]
  <2>3. c.assigns = IF IsSet("-sm") THEN a ELSE Nothing
    BY <1>1, <2>2, OptionalAssigns DEF IsScreenModeValid, OneOf
  <2> HIDE DEF c
  <2>4. With(config, c.assigns)[f] = IF Given("-sm") THEN With(config, a)[f] ELSE config[f]
    BY <1>1, <1>3, <2>3, GivenAssigns DEF Singles, Asked
  <2>5. Value("-sm") = Meant("-sm", Empty)
    BY <1>2 DEF Singles
  <2>6. With(config, a)[f] = Value("-sm")
    BY <1>14 DEF With
  <2> QED
    BY <1>1, <1>14, <2>1, <2>4, <2>5, <2>6, MeantOr DEF Intended
<1>15. CASE f = "appResourcePath"
  <2>1. checked = 18 /\ config[f] = Empty
    BY <1>1, <1>3, <1>15 DEF CheckOf, Defaults
  <2>2. c = IsAppResourcePathValid
    BY <2>1 DEF Checks
  <2> DEFINE a == [appResourcePath |-> Value("-arp")]
  <2>3. c.assigns = IF IsSet("-arp") THEN a ELSE Nothing
    BY <1>1, <2>2, OptionalAssigns DEF IsAppResourcePathValid, OneOf
  <2> HIDE DEF c
  <2>4. With(config, c.assigns)[f] = IF Given("-arp") THEN With(config, a)[f] ELSE config[f]
    BY <1>1, <1>3, <2>3, GivenAssigns DEF Singles, Asked
  <2>5. Value("-arp") = Meant("-arp", Empty)
    BY <1>2 DEF Singles
  <2>6. With(config, a)[f] = Value("-arp")
    BY <1>15 DEF With
  <2> QED
    BY <1>1, <1>15, <2>1, <2>4, <2>5, <2>6, MeantOr DEF Intended
<1>16. CASE f = "projectModel"
  <2>1. checked = 19 /\ config[f] = "FA"
    BY <1>1, <1>3, <1>16 DEF CheckOf, Defaults
  <2>2. c = IsProjectModelValid
    BY <2>1 DEF Checks
  <2> DEFINE a == [projectModel |-> Value("-pm")]
  <2>3. c.assigns = IF IsSet("-pm") THEN a ELSE Nothing
    BY <1>1, <2>2, OptionalAssigns DEF IsProjectModelValid, OneOf
  <2> HIDE DEF c
  <2>4. With(config, c.assigns)[f] = IF Given("-pm") THEN With(config, a)[f] ELSE config[f]
    BY <1>1, <1>3, <2>3, GivenAssigns DEF Singles, Asked
  <2>5. Value("-pm") = Meant("-pm", Empty)
    BY <1>2 DEF Singles
  <2>6. With(config, a)[f] = Value("-pm")
    BY <1>16 DEF With
  <2> QED
    BY <1>1, <1>16, <2>1, <2>4, <2>5, <2>6, MeantOr DEF Intended
<1>17. CASE f = "pages"
  <2>1. checked = 20 /\ config[f] = "main_pages"
    BY <1>1, <1>3, <1>17 DEF CheckOf, Defaults
  <2>2. c = IsPagesValid
    BY <2>1 DEF Checks
  <2> DEFINE a == [pages |-> Value("-pages")]
  <2>3. c.assigns = IF IsSet("-pages") THEN a ELSE Nothing
    BY <2>2 DEF IsPagesValid, Check
  <2> HIDE DEF c
  <2>4. With(config, c.assigns)[f] = IF Given("-pages") THEN With(config, a)[f] ELSE config[f]
    BY <1>1, <1>3, <2>3, GivenAssigns DEF Singles, Asked
  <2>5. Value("-pages") = Meant("-pages", Empty)
    BY <1>2 DEF Singles
  <2>6. With(config, a)[f] = Value("-pages")
    BY <1>17 DEF With
  <2> QED
    BY <1>1, <1>17, <2>1, <2>4, <2>5, <2>6, MeantOr DEF Intended
<1>18. CASE f = "containerSdkPath"
  <2>1. checked = 21 /\ config[f] = Empty
    BY <1>1, <1>3, <1>18 DEF CheckOf, Defaults
  <2>2. c = IsContainerSdkPathValid
    BY <2>1 DEF Checks
  <2> DEFINE a == [containerSdkPath |-> Value("-hsp")]
  <2>3. c.assigns = IF IsSet("-hsp") THEN a ELSE Nothing
    BY <1>1, <2>2, OptionalAssigns DEF IsContainerSdkPathValid, OneOf
  <2> HIDE DEF c
  <2>4. With(config, c.assigns)[f] = IF Given("-hsp") THEN With(config, a)[f] ELSE config[f]
    BY <1>1, <1>3, <2>3, GivenAssigns DEF Singles, Asked
  <2>5. Value("-hsp") = Meant("-hsp", Empty)
    BY <1>2 DEF Singles
  <2>6. With(config, a)[f] = Value("-hsp")
    BY <1>18 DEF With
  <2> QED
    BY <1>1, <1>18, <2>1, <2>4, <2>5, <2>6, MeantOr DEF Intended
<1>19. CASE f = "isComponentMode"
  <2>1. checked = 22 /\ config[f] = FALSE
    BY <1>1, <1>3, <1>19 DEF CheckOf, Defaults
  <2>2. c = IsComponentModeValid
    BY <2>1 DEF Checks
  <2> DEFINE a == [isComponentMode |-> Value("-cpm") = "true"]
  <2>3. c.assigns = IF IsSet("-cpm") THEN a ELSE Nothing
    BY <1>1, <2>2, OptionalAssigns DEF IsComponentModeValid, OneOf
  <2> HIDE DEF c
  <2>4. With(config, c.assigns)[f] = IF Given("-cpm") THEN With(config, a)[f] ELSE config[f]
    BY <1>1, <1>3, <2>3, GivenAssigns DEF Singles, Asked
  <2>5. Value("-cpm") = Meant("-cpm", Empty)
    BY <1>2 DEF Singles
  <2>6. With(config, a)[f] = (Value("-cpm") = "true")
    BY <1>19, <1>3, <2>1 DEF With, Nothing
  <2>7. Meant("-cpm", "false") = IF Given("-cpm") THEN Value("-cpm") ELSE "false"
    BY <2>5, MeantOr
  <2>8. config'[f] = (Meant("-cpm", "false") = "true")
    BY <1>1, <2>1, <2>4, <2>6, <2>7
  <2> QED
    BY <1>19, <2>8 DEF Intended
<1>20. CASE f = "staticCard"
  <2>1. checked = 24 /\ config[f] = FALSE
    BY <1>1, <1>3, <1>20 DEF CheckOf, Defaults
  <2>2. c = IsStaticCardValid
    BY <2>1 DEF Checks
  <2> DEFINE a == IF Value("-staticCard") = "true" THEN [staticCard |-> TRUE] ELSE Nothing
  <2>3. c.assigns = IF IsSet("-staticCard") THEN a ELSE Nothing
    BY <1>1, <2>2, OptionalAssigns DEF IsStaticCardValid, OneOf
  <2> HIDE DEF c
  <2>4. With(config, c.assigns)[f] = IF Given("-staticCard") THEN With(config, a)[f] ELSE config[f]
    BY <1>1, <1>3, <2>3, GivenAssigns DEF Singles, Asked
  <2>5. Value("-staticCard") = Meant("-staticCard", Empty)
    BY <1>2 DEF Singles
  <2>6. With(config, a)[f] = (Value("-staticCard") = "true")
    <3>1. CASE (Value("-staticCard") = "true")
      BY <1>20, <3>1 DEF With
    <3>2. CASE ~(Value("-staticCard") = "true")
      <4>1. a = Nothing
        BY <3>2, Zenon
      <4>2. With(config, a)[f] = FALSE
        BY <1>3, <2>1, <4>1, WithNothing, Zenon
      <4> QED
        BY <3>2, <4>2, Zenon
    <3> QED
      BY <3>1, <3>2, Zenon
  <2>7. Meant("-staticCard", "false") = IF Given("-staticCard") THEN Value("-staticCard") ELSE "false"
    BY <2>5, MeantOr
  <2>8. config'[f] = (Meant("-staticCard", "false") = "true")
    BY <1>1, <2>1, <2>4, <2>6, <2>7
  <2> QED
    BY <1>20, <2>8 DEF Intended
<1> QED
  BY <1>4, <1>5, <1>6, <1>7, <1>8, <1>9, <1>10, <1>11, <1>12, <1>13,
     <1>14, <1>15, <1>16, <1>17, <1>18, <1>19, <1>20 DEF Intended

LEMMA CheckNumbers == \A f \in DOMAIN CheckOf : CheckOf[f] \in 3 .. 25
  BY DEF CheckOf

LEMMA LineFixed == [StartNext]_startVars => argv' = argv
  BY DEF StartNext, ParseToken, RefuseLength, ProcessCommand, IsCommandValid, StartRich,
         StartThin, Decided, startVars

LEMMA SettledStep ==
  LineOK /\ Parsed /\ Understood /\ Settled /\ [StartNext]_startVars => Settled'
<1> SUFFICES ASSUME LineOK, Parsed, Understood, Settled, [StartNext]_startVars,
                    phase' \in {"checking", "started"}
             PROVE  /\ DOMAIN CheckOf \subseteq DOMAIN config'
                    /\ \A f \in DOMAIN Intended :
                          config'[f] = IF checked' >= CheckOf[f] THEN Intended[f] ELSE Defaults[f]
  <2>1. [StartNext]_startVars => Intended' = Intended
    BY LineFixed, IntendedKept
  <2> QED
    BY <2>1 DEF Settled
<1>1. CASE ParseToken \/ RefuseLength
  BY <1>1 DEF ParseToken, RefuseLength, Parsed
<1>2. CASE ProcessCommand
  <2>1. config' = Defaults /\ checked' = 0
    BY <1>2 DEF ProcessCommand, Parsed
  <2> QED
    BY <2>1, FieldNames, CheckNumbers
<1>3. CASE IsCommandValid
  <2>1. phase = "checking" /\ phase' = "checking" /\ checked \in 0 .. 24 /\ checked' = checked + 1
    BY <1>3, CheckMade
  <2>2. DOMAIN CheckOf \subseteq DOMAIN config'
    BY <1>3, <2>1, Frame DEF Settled
  <2>3. ASSUME NEW f \in DOMAIN Intended
        PROVE  config'[f] = IF checked' >= CheckOf[f] THEN Intended[f] ELSE Defaults[f]
    <3>1. CheckOf[f] \in 3 .. 25 /\ f \in DOMAIN config
      BY <2>1, FieldNames, CheckNumbers DEF Settled
    <3>2. config[f] = IF checked >= CheckOf[f] THEN Intended[f] ELSE Defaults[f]
      BY <2>1 DEF Settled
    <3>3. CASE CheckOf[f] = checked + 1
      <4>1. config'[f] = Intended[f]
        BY <1>3, <2>1, <3>3, FieldStep
      <4> QED
        BY <2>1, <3>3, <4>1
    <3>4. CASE CheckOf[f] # checked + 1
      <4>1. config'[f] = config[f]
        BY <1>3, <2>1, <3>1, <3>4, Frame
      <4>2. checked' >= CheckOf[f] <=> checked >= CheckOf[f]
        BY <2>1, <3>1, <3>4
      <4> QED
        BY <3>2, <4>1, <4>2
    <3> QED
      BY <3>3, <3>4
  <2> QED
    BY <2>2, <2>3
<1>4. CASE StartRich \/ StartThin \/ Decided \/ UNCHANGED startVars
  <2>1. config' = config /\ checked' = checked /\ phase \in {"checking", "started"}
    BY <1>4 DEF StartRich, StartThin, Decided, startVars
  <2> QED
    BY <2>1 DEF Settled
<1> QED
  BY <1>1, <1>2, <1>3, <1>4 DEF StartNext

\* What a check that passes says of the values it looks at.
LEMMA CheckSays ==
  ASSUME LineOK, Understood, Settled, IsCommandValid, phase' = "checking"
  PROVE  /\ checked = 0 => Atoi[Meant("-p", Empty)] \in {0} \cup Ports
         /\ checked = 3 => /\ \A o \in Pairs : Given(o)
                           /\ config'.orignal \in Resolutions \X Resolutions
                           /\ config'.compression \in Resolutions \X Resolutions
         /\ checked = 5 /\ Given("-hs") => Atoi[Meant("-hs", Empty)] \in HeapSizes
         /\ checked = 9 => Meant("-url", Empty) # Empty
         /\ checked = 15 => Atoi[Meant("-lws", Empty)] \in {0} \cup Ports
         /\ checked = 23 /\ Given("-d") /\ Meant("-device", Empty) \notin liteDevice
               => config'.abilityPath # Empty
<1> DEFINE c == Checks[checked + 1]
<1>1. /\ phase = "checking" /\ checked \in 0 .. 24
      /\ c.ok /\ config' = With(config, c.assigns)
  <2>1. config' = With(config, c.assigns) /\ (c.ok \/ phase' = "invalid")
    BY DEF IsCommandValid
  <2> QED
    BY <2>1, CheckMade
<1>2. /\ \A o \in Options : Given(o) => IsSet(o)
      /\ \A o \in Options \ Asked : IsSet(o) => Given(o)
      /\ \A o \in Singles : Value(o) = Meant(o, Empty)
  BY <1>1 DEF Understood
<1>3. \A o \in Options : ~Given(o) => Atoi[Meant(o, Empty)] = 0
  BY ValuesAssumption, MeantOr
<1>4. ASSUME checked = 0 PROVE Atoi[Meant("-p", Empty)] \in {0} \cup Ports
  <2>1. c = IsDebugPortValid
    BY <1>4 DEF Checks
  <2>2. IsDebugPortValid.ok = (IsSet("-p") => IsNumber(Value("-p"), Ports))
    BY Zenon DEF IsDebugPortValid, Check
  <2>3. IsSet("-p") => Atoi[Value("-p")] \in Ports
    BY <1>1, <2>1, <2>2 DEF IsNumber
  <2> QED
    BY <1>2, <1>3, <2>3 DEF Options, Singles
<1>5. ASSUME checked = 3
      PROVE  /\ \A o \in Pairs : Given(o)
             /\ config'.orignal \in Resolutions \X Resolutions
             /\ config'.compression \in Resolutions \X Resolutions
  <2> DEFINE ok == \A o \in Pairs : IsSet(o) /\ IsResolutionArgValid(o)
  <2>1. c = IsResolutionValid
    BY <1>5 DEF Checks
  <2>2. IsResolutionValid.ok = ok
    BY Zenon DEF IsResolutionValid, Check
  <2>3. IsResolutionValid.assigns =
            IF ok THEN [orignal |-> SizeOf("-or"), compression |-> SizeOf("-cr")] ELSE Nothing
    BY Zenon DEF IsResolutionValid, Check
  <2>4. ok
    BY <1>1, <2>1, <2>2
  <2>5. ASSUME NEW o \in Pairs PROVE SizeOf(o) \in Resolutions \X Resolutions
    <3>1. \A i \in 1 .. 2 : Atoi[argsMap[o][i]] \in Resolutions
      BY <2>4 DEF IsResolutionArgValid, IsNumber
    <3>2. SizeOf(o) = <<Atoi[argsMap[o][1]], Atoi[argsMap[o][2]]>>
      BY DEF SizeOf
    <3> QED
      BY <3>1, <3>2
  <2>6. config'.orignal = SizeOf("-or") /\ config'.compression = SizeOf("-cr")
    <3> HIDE DEF ok, c
    <3> QED
      BY <1>1, <2>1, <2>3, <2>4 DEF With
  <2>7. "-or" \in Pairs /\ "-cr" \in Pairs /\ \A o \in Pairs : o \in Options \ Asked
    BY DEF Pairs, Options, Asked
  <2> QED
    BY <1>2, <2>4, <2>5, <2>6, <2>7
<1>6. ASSUME checked = 5, Given("-hs") PROVE Atoi[Meant("-hs", Empty)] \in HeapSizes
  <2>1. c = IsJsHeapValid
    BY <1>6 DEF Checks
  <2>2. "-hs" \in Singles /\ "-hs" \in Options
    BY DEF Options, Singles
  <2>3. IsSet("-hs") => IsNumber(Value("-hs"), HeapSizes)
    BY <1>1, <2>1, OptionalAssigns DEF IsJsHeapValid
  <2> QED
    BY <1>2, <1>6, <2>2, <2>3 DEF IsNumber
<1>7. ASSUME checked = 9 PROVE Meant("-url", Empty) # Empty
  <2>1. c = IsUrlValid
    BY <1>7 DEF Checks
  <2>2. IsUrlValid.ok = (Value("-url") # Empty)
    BY Zenon DEF IsUrlValid, Check
  <2> QED
    BY <1>1, <1>2, <2>1, <2>2 DEF Singles
<1>8. ASSUME checked = 15 PROVE Atoi[Meant("-lws", Empty)] \in {0} \cup Ports
  <2>1. c = IsWebSocketPortValid
    BY <1>8 DEF Checks
  <2>2. IsWebSocketPortValid.ok = (IsSet("-lws") => IsNumber(Value("-lws"), Ports))
    BY Zenon DEF IsWebSocketPortValid, Check
  <2>3. IsSet("-lws") => Atoi[Value("-lws")] \in Ports
    BY <1>1, <2>1, <2>2 DEF IsNumber
  <2> QED
    BY <1>2, <1>3, <2>3 DEF Options, Singles
<1>9. ASSUME checked = 23, Given("-d"), Meant("-device", Empty) \notin liteDevice
      PROVE  config'.abilityPath # Empty
  <2> DEFINE needed == IsSet("-d") /\ config.deviceType \notin liteDevice
             ok == needed => IsSet("-abp") /\ Value("-abp") # Empty
  <2>1. c = IsAbilityPathValid
    BY <1>9 DEF Checks
  <2>2. IsAbilityPathValid.ok = ok
    BY Zenon DEF IsAbilityPathValid, Check
  <2>3. IsAbilityPathValid.assigns =
            IF needed /\ ok THEN [abilityPath |-> Value("-abp")] ELSE Nothing
    BY Zenon DEF IsAbilityPathValid, Check
  <2>4. config.deviceType = Meant("-device", Empty)
    BY <1>1, <1>9 DEF Settled, Intended, CheckOf
  <2>5. needed
    BY <1>2, <1>9, <2>4 DEF Options, Flags
  <2>6. ok
    BY <1>1, <2>1, <2>2
  <2> HIDE DEF needed, c
  <2> QED
    BY <1>1, <2>1, <2>3, <2>5, <2>6 DEF With
<1> QED
  BY <1>4, <1>5, <1>6, <1>7, <1>8, <1>9

\* What the checks passed say stays true: the values do not change.
LEMMA LegalStep ==
  LineOK /\ Parsed /\ Understood /\ Settled /\ Legal /\ [StartNext]_startVars => Legal'
<1> SUFFICES ASSUME LineOK, Parsed, Understood, Settled, Legal, [StartNext]_startVars,
                    phase' \in {"checking", "started"}
             PROVE  Legal'
  BY DEF Legal
<1>a. (\A o : Given(o)' <=> Given(o)) /\ \A o, d : Meant(o, d)' = Meant(o, d)
  BY LineFixed, MeaningKept
<1>1. CASE ParseToken \/ RefuseLength
  BY <1>1 DEF ParseToken, RefuseLength, Parsed
<1>2. CASE ProcessCommand
  <2>1. checked' = 0
    BY <1>2 DEF ProcessCommand, Parsed
  <2> QED
    BY <2>1 DEF Legal
<1>3. CASE IsCommandValid
  <2>1. phase = "checking" /\ phase' = "checking" /\ checked \in 0 .. 24 /\ checked' = checked + 1
    BY <1>3, CheckMade
  <2>2. /\ checked # 3 => /\ config'.orignal = config.orignal
                          /\ config'.compression = config.compression
        /\ checked # 23 => config'.abilityPath = config.abilityPath
    BY <1>3, <2>1, Frame DEF Settled, CheckOf
  <2>3. checked' >= 1 => Atoi[Meant("-p", Empty)] \in {0} \cup Ports
    BY <1>3, <2>1, CheckSays DEF Legal
  <2>4. checked' >= 4 => /\ \A o \in Pairs : Given(o)
                         /\ config'.orignal \in Resolutions \X Resolutions
                         /\ config'.compression \in Resolutions \X Resolutions
    BY <1>3, <2>1, <2>2, CheckSays DEF Legal
  <2>5. checked' >= 6 /\ Given("-hs") => Atoi[Meant("-hs", Empty)] \in HeapSizes
    BY <1>3, <2>1, CheckSays DEF Legal
  <2>6. checked' >= 10 => Meant("-url", Empty) # Empty
    BY <1>3, <2>1, CheckSays DEF Legal
  <2>7. checked' >= 16 => Atoi[Meant("-lws", Empty)] \in {0} \cup Ports
    BY <1>3, <2>1, CheckSays DEF Legal
  <2>8. checked' >= 24 /\ Given("-d") /\ Meant("-device", Empty) \notin liteDevice
           => config'.abilityPath # Empty
    BY <1>3, <2>1, <2>2, CheckSays DEF Legal
  <2> QED
    BY <1>a, <2>3, <2>4, <2>5, <2>6, <2>7, <2>8 DEF Legal
<1>4. CASE StartRich \/ StartThin \/ Decided \/ UNCHANGED startVars
  <2>1. config' = config /\ checked' = checked /\ phase \in {"checking", "started"}
    BY <1>4 DEF StartRich, StartThin, Decided, startVars
  <2> QED
    BY <1>a, <2>1 DEF Legal
<1> QED
  BY <1>1, <1>2, <1>3, <1>4 DEF StartNext

\* The program starts when all the checks have passed.
AllChecked == phase = "started" => checked = 25

StartInv == LineOK /\ Parsed /\ Understood /\ Settled /\ Legal /\ AllChecked

\* An option of one argument and its default.
LEMMA ValueOrMeant ==
  ASSUME Understood, phase = "checking"
  PROVE  /\ \A o \in Singles \ Asked : \A d : ValueOr(o, d) = Meant(o, d)
         /\ \A o \in Singles : ValueOr(o, Empty) = Meant(o, Empty)
<1>1. ASSUME NEW o \in Singles PROVE Value(o) = Meant(o, Empty)
  BY DEF Understood
<1>2. ASSUME NEW o \in Singles \ Asked, NEW d PROVE ValueOr(o, d) = Meant(o, d)
  <2>1. IsSet(o) <=> Given(o)
    BY SinglesAreOptions DEF Understood
  <2> QED
    BY <1>1, <2>1, MeantOr DEF ValueOr
<1>3. ASSUME NEW o \in Singles PROVE ValueOr(o, Empty) = Meant(o, Empty)
  BY <1>1 DEF ValueOr, Value
<1> QED
  BY <1>2, <1>3

LEMMA SmallRemainder ==
  ASSUME NEW w \in Nat \ {0}, NEW n \in Nat, n < w PROVE (n % w) = n
<1>1. n = 0 * w + n
  OBVIOUS
<1> QED
  BY <1>1

\* What main hands on.
LEMMA HandsOn ==
  ASSUME StartInv, StartRich \/ StartThin
  PROVE  StartsWhatWasGiven'
<1>1. phase = "checking" /\ checked = 25
  BY TwentyFiveChecks DEF StartRich, StartThin
<1>2. /\ Understood /\ Legal
      /\ \A o : Given(o)' <=> Given(o)
      /\ \A o, d : Meant(o, d)' = Meant(o, d)
  <2>1. argv' = argv
    BY DEF StartRich, StartThin
  <2> QED
    BY <2>1, MeaningKept DEF StartInv
<1>3. (IsSet("-s") <=> Given("-s")) /\ (IsSet("-d") <=> Given("-d"))
  BY <1>1, <1>2 DEF Understood, Options, Flags, Singles, Asked
<1>4. /\ ValueOr("-lws", Empty) = Meant("-lws", Empty)
      /\ ValueOr("-p", Empty) = Meant("-p", Empty)
      /\ Value("-j") = Meant("-j", Empty)
      /\ ValueOr("-l", "zh_CN") = Meant("-l", "zh_CN")
      /\ ValueOr("-cm", Empty) = Meant("-cm", Empty)
  <2>1. Value("-j") = Meant("-j", Empty)
    BY <1>1, <1>2 DEF Understood, Singles
  <2> QED
    BY <1>1, <1>2, <2>1, ValueOrMeant DEF Singles, Asked
<1>5. Atoi[Meant("-lws", Empty)] \in {0} \cup Ports /\ Atoi[Meant("-p", Empty)] \in {0} \cup Ports
  BY <1>1, <1>2 DEF Legal
<1>6. ASSUME NEW n \in {0} \cup Ports PROVE (n % PortWidth) = n
  <2>1. PortWidth \in Nat \ {0} /\ n \in Nat /\ n < PortWidth
    BY SMT DEF Ports, PortWidth
  <2> QED
    BY <2>1, SmallRemainder
<1>7. /\ CommonApp.serves <=> Given("-s")
      /\ CommonApp.isDebug <=> Given("-d")
      /\ CommonApp.pipePort = Atoi[Meant("-lws", Empty)]
      /\ CommonApp.debugPort = IF Given("-d") THEN Atoi[Meant("-p", Empty)] ELSE 0
      /\ CommonApp.jsAppPath = Meant("-j", Empty)
  <2>1. /\ CommonApp.serves = IsSet("-s") /\ CommonApp.isDebug = IsSet("-d")
        /\ CommonApp.pipePort = Atoi[ValueOr("-lws", Empty)]
        /\ CommonApp.jsAppPath = Value("-j")
        /\ CommonApp.debugPort = IF IsSet("-d") THEN (Atoi[ValueOr("-p", Empty)] % PortWidth) ELSE 0
    BY DEF CommonApp
  <2>2. (CommonApp.serves <=> Given("-s")) /\ (CommonApp.isDebug <=> Given("-d"))
    BY <1>3, <2>1, Zenon
  <2>3. CommonApp.pipePort = Atoi[Meant("-lws", Empty)] /\ CommonApp.jsAppPath = Meant("-j", Empty)
    BY <1>4, <2>1, Zenon
  <2>4. CommonApp.debugPort = IF Given("-d") THEN Atoi[Meant("-p", Empty)] ELSE 0
    <3>1. (Atoi[ValueOr("-p", Empty)] % PortWidth) = Atoi[Meant("-p", Empty)]
      BY <1>4, <1>5, <1>6, Zenon
    <3>2. CASE Given("-d")
      BY <1>3, <2>1, <3>1, <3>2, Zenon
    <3>3. CASE ~Given("-d")
      BY <1>3, <2>1, <3>3, Zenon
    <3> QED
      BY <3>2, <3>3, Zenon
  <2> QED
    BY <2>2, <2>3, <2>4, Zenon
<1>8. /\ app'.serves = CommonApp.serves
      /\ app'.isDebug = CommonApp.isDebug
      /\ app'.pipePort = CommonApp.pipePort
      /\ app'.debugPort = CommonApp.debugPort
      /\ app'.jsAppPath = CommonApp.jsAppPath
  BY DEF StartRich, StartThin, With, CommonApp
<1>9. previewer' = "rich" => /\ app'.language = Meant("-l", "zh_CN")
                             /\ app'.colorMode = Meant("-cm", Empty)
                             /\ app'.inspectorTimer <=> ~Given("-d")
  BY <1>3, <1>4 DEF StartRich, StartThin, With
<1> QED
  BY <1>2, <1>5, <1>7, <1>8, <1>9 DEF StartsWhatWasGiven

LEMMA StartInvariant == StartSpec => [](StartInv /\ StartsWhatWasGiven)
<1>1. StartInit => StartInv /\ StartsWhatWasGiven
  <2>1. StartInit => Settled /\ Legal /\ AllChecked /\ StartsWhatWasGiven
    BY DEF StartInit, Settled, Legal, AllChecked, StartsWhatWasGiven
  <2> QED
    BY <2>1, LineStart DEF StartInv
<1>2. StartInv /\ StartsWhatWasGiven /\ [StartNext]_startVars => (StartInv /\ StartsWhatWasGiven)'
  <2> SUFFICES ASSUME StartInv, StartsWhatWasGiven, [StartNext]_startVars
               PROVE  StartInv' /\ StartsWhatWasGiven'
    OBVIOUS
  <2>1. LineOK' /\ Parsed' /\ Understood' /\ Settled' /\ Legal'
    BY LineStep, ParsedStep, UnderstoodStep, SettledStep, LegalStep DEF StartInv
  <2>2. CASE StartRich \/ StartThin
    <3>1. AllChecked'
      BY <2>2, TwentyFiveChecks DEF StartRich, StartThin, AllChecked
    <3> QED
      BY <2>1, <2>2, <3>1, HandsOn DEF StartInv
  <2>3. CASE ParseToken \/ RefuseLength \/ ProcessCommand \/ IsCommandValid
    <3>1. phase' # "started"
      BY <2>3 DEF ParseToken, RefuseLength, ProcessCommand, IsCommandValid
    <3> QED
      BY <2>1, <3>1 DEF StartInv, AllChecked, StartsWhatWasGiven
  <2>4. CASE Decided \/ UNCHANGED startVars
    <3>1. UNCHANGED startVars
      BY <2>4 DEF Decided
    <3>2. (\A o : Given(o)' <=> Given(o)) /\ \A o, d : Meant(o, d)' = Meant(o, d)
      BY <3>1, MeaningKept DEF startVars
    <3>3. StartsWhatWasGiven'
      BY <3>1, <3>2 DEF startVars, StartsWhatWasGiven
    <3>4. AllChecked'
      BY <3>1 DEF startVars, StartInv, AllChecked
    <3> QED
      BY <2>1, <3>3, <3>4 DEF StartInv
  <2> QED
    BY <2>2, <2>3, <2>4 DEF StartNext
<1> QED
  BY <1>1, <1>2, PTL DEF StartSpec

\* Whatever the command line, a program that starts has the configuration that
\* it means, and every field is legal (CommandParser, ConfigurationMeansArguments).
THEOREM Configured == StartSpec => []ConfigurationMeansArguments
<1>1. StartInv => ConfigurationMeansArguments
  <2> SUFFICES ASSUME StartInv, phase = "started" PROVE ConfigurationMeansArguments
    BY DEF ConfigurationMeansArguments
  <2>1. checked = 25 /\ Settled /\ Legal
    BY DEF StartInv, AllChecked
  <2>2. \A f \in DOMAIN Intended : config[f] = Intended[f]
    BY <2>1, FieldNames, CheckNumbers DEF Settled
  <2>3. /\ config.jsHeapSize = IF Given("-hs") THEN Atoi[Meant("-hs", Empty)] ELSE MAX_JSHEAPSIZE
        /\ config.isSendJSHeap = (Meant("-hf", "true") = "true")
        /\ config.deviceType = Meant("-device", Empty)
        /\ config.screenShape = Meant("-shape", "circle")
        /\ config.appName = Meant("-n", "undefined")
        /\ config.urlPath = Meant("-url", Empty)
        /\ config.configPath = Meant("-f", Empty)
        /\ config.isRegionRefresh = (Meant("-refresh", "full") = "region")
    BY <2>2 DEF Intended
  <2>4. /\ config.projectID = Meant("-projectID", Empty)
        /\ config.screenMode = Meant("-sm", "dynamic")
        /\ config.appResourcePath = Meant("-arp", Empty)
        /\ config.projectModel = Meant("-pm", "FA")
        /\ config.pages = Meant("-pages", "main_pages")
        /\ config.containerSdkPath = Meant("-hsp", Empty)
        /\ config.isComponentMode = (Meant("-cpm", "false") = "true")
        /\ config.staticCard = (Meant("-staticCard", "false") = "true")
    BY <2>2 DEF Intended
  <2>5. config.isCardDisplay <=> /\ Meant("-card", "false") = "true"
                                 /\ Meant("-device", Empty) \in cardDisplayDevices
    BY <2>2 DEF Intended
  <2>6. config.jsHeapSize \in HeapSizes
    <3>1. MAX_JSHEAPSIZE \in HeapSizes
      <4>1. MIN_JSHEAPSIZE \in Int /\ MAX_JSHEAPSIZE \in Int /\ MIN_JSHEAPSIZE <= MAX_JSHEAPSIZE
        BY SMT DEF MIN_JSHEAPSIZE, MAX_JSHEAPSIZE
      <4> QED
        BY <4>1 DEF HeapSizes
    <3>2. Given("-hs") => Atoi[Meant("-hs", Empty)] \in HeapSizes
      BY <2>1 DEF Legal
    <3> QED
      BY <2>3, <3>1, <3>2
  <2>7. /\ \A o \in Pairs : Given(o)
        /\ {config.orignal, config.compression} \subseteq Resolutions \X Resolutions
        /\ config.urlPath # Empty
        /\ Given("-d") /\ config.deviceType \notin liteDevice => config.abilityPath # Empty
    BY <2>1, <2>3 DEF Legal
  <2> QED
    BY <2>3, <2>4, <2>5, <2>6, <2>7, Zenon DEF ConfigurationMeansArguments
<1> QED
  BY <1>1, StartInvariant, PTL

\* Whatever the command line, the program serves, debugs and listens exactly as
\* it was told: asking for an option never counts as having it (CommandParser,
\* StartsWhatWasGiven).
THEOREM OnlyWhatWasGiven == StartSpec => []StartsWhatWasGiven
  BY StartInvariant, PTL

-----------------------------------------------------------------------------
\* The life of the rich previewer.


\* Once the pointer is assigned it stays, until the command thread leaves.
AbilityKept ==
    /\ Serving /\ ~failed /\ main \in {"SetWindow", "InitEnv", "loop"}
           => ability = "live"
    /\ cmd = "document" => ability = "live"

\* Nothing stops the application before the exit command was received.
StopAfterExit == ~Serving \/ isStop \/ main = "linger" => isInterrupt

IInv ==
    /\ TypeOK
    /\ AbilityKept
    /\ StopAfterExit
    /\ InspectorSafe
    /\ NoCrashInService

\* Where the application is while it waits for Stop, and when exit can come.
LateStop ==
    /\ main \in {"SetJsAppArgs", "CreateInstance", "publish", "SetWindow", "InitEnv", "loop"}
           => ~isFinished
    /\ "exit" \notin early /\ isInterrupt => main \in {"loop", "linger"}
    /\ LateStopMeansStopped

\* There is no ability before it is published, nor ever after a failed creation.
FailedForGood ==
    /\ ability = "none" \/ main \in {"SetWindow", "InitEnv", "loop", "linger"}
    /\ failed => main \in {"loop", "linger"} /\ ability = "none"

\* The arguments hold the stored mode, or that of a document.
DocumentMode == foreign \/ colorMode = aceMode

\* The places that hold the colour mode agree one after the other, first while
\* the ability is created and then while a command is carried out.
ModesFollow ==
    "ColorMode" \notin early =>
        /\ cmd \in {"ColorModeChanged", "notify"} => main \in {"loop", "linger"}
        /\ main \in {"CreateInstance", "publish"} => aceMode = colorMode
        /\ main = "publish" => aceMode = shownMode
        /\ main \in {"SetWindow", "InitEnv"} =>
              DocumentMode /\ (cmd # "document" => aceMode = shownMode)
        /\ main = "loop" /\ ~failed =>
              /\ cmd = "ColorModeChanged" => arg = colorMode
              /\ cmd = "notify" => aceMode = colorMode
              /\ cmd = "document" => DocumentMode
              /\ cmd \in {"signal", "read", "tick", "while"} =>
                    DocumentMode /\ aceMode = shownMode

LateInv == LateStop /\ FailedForGood /\ ModesFollow

-----------------------------------------------------------------------------
\* Every variable keeps the values that its C++ type and its role allow.
THEOREM TypeCorrect == Spec => []TypeOK
<1> USE DEF MainStates, CmdStates, habits, life, stopVars, modeVars, wsVars, vars
<1>1. Init => TypeOK
  <2>1. Init => FlagsOK
    BY Zenon DEF Init, FlagsOK
  <2> QED
    BY <2>1, ModesAssumption DEF Init, TypeOK, ModesOK
<1>2. TypeOK /\ [Next]_vars => TypeOK'
  <2> SUFFICES ASSUME TypeOK, [Next]_vars
               PROVE  TypeOK'
    OBVIOUS
  <2> USE DEF TypeOK, MainAt, CmdAt, CallAbility
  <2>1. CASE MainStep
    <3> USE DEF MainStep, InitJsApp, InitAll, Arm, SetJsAppArgs, CreateInstance,
                CreateInstanceFails, Publish, SetWindow, InitEnv, RunTasks,
                FinishStart, ReturnFromMain
    <3>1. FlagsOK'
      BY <2>1, Zenon DEF FlagsOK
    <3> QED
      BY <2>1, <3>1, ModesAssumption DEF ModesOK
  <2>2. CASE SendPixmap
    <3>1. FlagsOK'
      BY <2>2, Zenon DEF SendPixmap, FlagsOK
    <3> QED
      BY <2>2, <3>1 DEF SendPixmap, ModesOK
  <2>3. CASE CmdStep
    <3> USE DEF CmdStep, SendWebsocketStartupSignal, ReadNothing, ExitCommand,
                InspectorJSONTree, ColorModeCommand, ColorModeChanged,
                OnConfigurationChanged, LoadDocument, ShowDocument, RunTimerTick,
                NotifyInspectorChanged, IsInterrupt, Stop, Interrupt
    <3>1. FlagsOK'
      BY <2>3, Zenon DEF FlagsOK
    <3>2. ModesOK'
      BY <2>3 DEF ModesOK
    <3>3. signals' \in Nat /\ ability' \in {"none", "live"} /\ main' \in MainStates
      BY <2>3
    <3>4. process' \in {"running", "exited", "crashed"} /\ cmd' \in CmdStates
      BY <2>3
    <3>5. early' = early
      BY <2>3
    <3> QED
      BY <3>1, <3>2, <3>3, <3>4, <3>5
  <2>4. CASE UNCHANGED vars
    BY <2>4 DEF FlagsOK, ModesOK
  <2> QED
    BY <2>1, <2>2, <2>3, <2>4 DEF Next, Terminated
<1>3. QED
  BY <1>1, <1>2, PTL DEF Spec

-----------------------------------------------------------------------------
\* The strengthening of LaunchSafety: the pointer is cleared by the command
\* thread alone, and only once it has left its loop for good.
LEMMA Invariance == Spec => []IInv
<1> DEFINE Inv == AbilityKept /\ StopAfterExit /\ InspectorSafe /\ NoCrashInService
<1>1. Init => Inv
  BY DEF Init, AbilityKept, StopAfterExit, InspectorSafe, NoCrashInService, Serving
<1>2. TypeOK /\ Inv /\ [Next]_vars => Inv'
  <2> SUFFICES ASSUME TypeOK, Inv, [Next]_vars
               PROVE  Inv'
    OBVIOUS
  <2> USE DEF AbilityKept, StopAfterExit, InspectorSafe, NoCrashInService, Serving,
              MainAt, CmdAt, CallAbility, habits, life, stopVars, modeVars, wsVars, vars
  <2>1. CASE InitJsApp
    BY <2>1 DEF InitJsApp, TypeOK, FlagsOK
  <2>2. CASE InitAll
    BY <2>2 DEF InitAll, TypeOK, FlagsOK
  <2>3. CASE Arm
    BY <2>3 DEF Arm, TypeOK, FlagsOK
  <2>4. CASE SetJsAppArgs
    BY <2>4 DEF SetJsAppArgs, TypeOK, FlagsOK
  <2>5. CASE CreateInstance
    BY <2>5 DEF CreateInstance, TypeOK, FlagsOK
  <2>6. CASE CreateInstanceFails
    BY <2>6 DEF CreateInstanceFails, TypeOK, FlagsOK
  <2>7. CASE Publish
    BY <2>7 DEF Publish, TypeOK, FlagsOK
  <2>8. CASE SetWindow
    BY <2>8 DEF SetWindow, TypeOK, FlagsOK
  <2>9. CASE InitEnv
    BY <2>9 DEF InitEnv, TypeOK, FlagsOK
  <2>10. CASE RunTasks
    BY <2>10 DEF RunTasks, TypeOK, FlagsOK
  <2>11. CASE FinishStart
    BY <2>11 DEF FinishStart, TypeOK, FlagsOK
  <2>12. CASE ReturnFromMain
    BY <2>12 DEF ReturnFromMain, TypeOK, FlagsOK
  <2>13. CASE SendPixmap
    BY <2>13 DEF SendPixmap, TypeOK, FlagsOK
  <2>14. CASE SendWebsocketStartupSignal
    BY <2>14 DEF SendWebsocketStartupSignal, TypeOK, FlagsOK
  <2>15. CASE ReadNothing
    BY <2>15 DEF ReadNothing, TypeOK, FlagsOK
  <2>16. CASE ExitCommand
    BY <2>16 DEF ExitCommand, Sent, TypeOK, FlagsOK
  <2>17. CASE InspectorJSONTree
    BY <2>17 DEF InspectorJSONTree, Sent, TypeOK, FlagsOK
  <2>18. CASE ColorModeChanged
    BY <2>18 DEF ColorModeChanged, TypeOK, FlagsOK
  <2>19. CASE OnConfigurationChanged
    BY <2>19 DEF OnConfigurationChanged, TypeOK, FlagsOK
  <2>20. CASE RunTimerTick
    BY <2>20 DEF RunTimerTick, TypeOK, FlagsOK
  <2>21. CASE NotifyInspectorChanged
    BY <2>21 DEF NotifyInspectorChanged, TypeOK, FlagsOK
  <2>22. CASE IsInterrupt
    BY <2>22 DEF IsInterrupt, TypeOK, FlagsOK
  <2>23. CASE Stop
    BY <2>23 DEF Stop, TypeOK, FlagsOK
  <2>24. CASE Interrupt
    BY <2>24 DEF Interrupt, TypeOK, FlagsOK
  <2>25. ASSUME NEW m \in Modes, ColorModeCommand(m)
        PROVE  Inv'
    BY <2>25 DEF ColorModeCommand
  <2>27. ASSUME NEW m \in Modes, LoadDocument(m)
        PROVE  Inv'
    BY <2>27 DEF LoadDocument, TypeOK, FlagsOK
  <2>28. CASE ShowDocument
    BY <2>28 DEF ShowDocument, TypeOK, FlagsOK
  <2>26. CASE UNCHANGED vars
    BY <2>26
  <2> QED
    BY <2>1, <2>2, <2>3, <2>4, <2>5, <2>6, <2>7, <2>8, <2>9, <2>10,
       <2>11, <2>12, <2>13, <2>14, <2>15, <2>16, <2>17, <2>18, <2>19,
       <2>20, <2>21, <2>22, <2>23, <2>24, <2>25, <2>26, <2>27, <2>28
       DEF Next, MainStep, CmdStep, Terminated
<1>3. TypeOK /\ Inv => IInv
  BY DEF IInv
<1>4. QED
  BY <1>1, <1>2, <1>3, TypeCorrect, PTL DEF Spec

\* While commands are served after a successful launch no call meets a null
\* ability, and the inspector timer never does.
THEOREM LaunchSafety == Spec => [](NoCrashInService /\ InspectorSafe)
<1>1. IInv => NoCrashInService /\ InspectorSafe
  BY DEF IInv
<1> QED
  BY <1>1, Invariance, PTL

-----------------------------------------------------------------------------
\* The IDE is told of the image server at most once and never before the server
\* was started: the flag and the count move together on the command thread.
THEOREM StartupSignal == Spec => []SignalOnce
<1> DEFINE Inv == /\ signals = IF isFirstWsSend THEN 0 ELSE 1
                  /\ signals = 1 => listening
<1>1. Init => Inv
  BY DEF Init
<1>2. TypeOK /\ Inv /\ [Next]_vars => Inv'
  <2> SUFFICES ASSUME TypeOK, Inv, [Next]_vars
               PROVE  Inv'
    OBVIOUS
  <2>1. CASE SendWebsocketStartupSignal
    BY <2>1 DEF SendWebsocketStartupSignal
  <2>2. CASE InitAll
    BY <2>2 DEF InitAll
  <2>3. ASSUME UNCHANGED wsVars
        PROVE  Inv'
    BY <2>3 DEF wsVars
  <2>4. ASSUME NEW m \in Modes, ColorModeCommand(m)
        PROVE  UNCHANGED wsVars
    BY <2>4 DEF ColorModeCommand
  <2>6. ASSUME NEW m \in Modes, LoadDocument(m)
        PROVE  UNCHANGED wsVars
    BY <2>6 DEF LoadDocument
  <2>5. \/ SendWebsocketStartupSignal \/ InitAll \/ UNCHANGED wsVars
    BY <2>4, <2>6 DEF Next, MainStep, CmdStep, Terminated, vars, wsVars,
         InitJsApp, Arm, SetJsAppArgs, CreateInstance, CreateInstanceFails,
         Publish, SetWindow, InitEnv, RunTasks, FinishStart, ReturnFromMain,
         SendPixmap, ReadNothing, ExitCommand, InspectorJSONTree,
         ColorModeChanged, OnConfigurationChanged, ShowDocument, RunTimerTick,
         NotifyInspectorChanged, IsInterrupt, Stop, Interrupt
  <2> QED
    BY <2>1, <2>2, <2>3, <2>5
<1>3. Inv => SignalOnce
  BY DEF SignalOnce
<1>4. QED
  BY <1>1, <1>2, <1>3, TypeCorrect, PTL DEF Spec

-----------------------------------------------------------------------------
\* The strengthening of the two theorems on an IDE that waits for the page: the
\* main thread does not leave a state in which exit or a mode could come, but
\* through its loop.
LEMMA LateInvariance == Spec => []LateInv
<1>1. Init => LateInv
  BY DEF Init, LateInv, LateStop, FailedForGood, ModesFollow, DocumentMode,
         LateStopMeansStopped,
         StoppedMeansStopped
<1>2. IInv /\ LateInv /\ [Next]_vars => LateInv'
  <2> SUFFICES ASSUME IInv, LateInv, [Next]_vars
               PROVE  LateInv'
    OBVIOUS
  <2> USE DEF IInv, TypeOK, LateInv, LateStop, FailedForGood, ModesFollow, DocumentMode,
              LateStopMeansStopped, StoppedMeansStopped, AbilityKept, StopAfterExit,
              Serving, MainAt, CmdAt, CallAbility, habits, life, stopVars, modeVars, wsVars, vars
  <2>1. CASE InitJsApp
    BY <2>1 DEF InitJsApp, FlagsOK
  <2>2. CASE InitAll
    BY <2>2 DEF InitAll, FlagsOK
  <2>3. CASE Arm
    BY <2>3 DEF Arm, FlagsOK
  <2>4. CASE SetJsAppArgs
    BY <2>4 DEF SetJsAppArgs, FlagsOK
  <2>5. CASE CreateInstance
    BY <2>5 DEF CreateInstance, FlagsOK
  <2>6. CASE CreateInstanceFails
    BY <2>6 DEF CreateInstanceFails, FlagsOK
  <2>7. CASE Publish
    BY <2>7 DEF Publish, FlagsOK
  <2>8. CASE SetWindow
    BY <2>8 DEF SetWindow, FlagsOK
  <2>9. CASE InitEnv
    BY <2>9 DEF InitEnv, FlagsOK
  <2>10. CASE RunTasks
    BY <2>10 DEF RunTasks, FlagsOK
  <2>11. CASE FinishStart
    BY <2>11 DEF FinishStart, FlagsOK
  <2>12. CASE ReturnFromMain
    BY <2>12 DEF ReturnFromMain, FlagsOK
  <2>13. CASE SendPixmap
    BY <2>13 DEF SendPixmap, FlagsOK
  <2>14. CASE SendWebsocketStartupSignal
    BY <2>14 DEF SendWebsocketStartupSignal, FlagsOK
  <2>15. CASE ReadNothing
    BY <2>15 DEF ReadNothing, FlagsOK
  <2>16. CASE ExitCommand
    BY <2>16 DEF ExitCommand, Sent, FlagsOK
  <2>17. CASE InspectorJSONTree
    BY <2>17 DEF InspectorJSONTree, Sent, FlagsOK
  <2>18. CASE ColorModeChanged
    BY <2>18 DEF ColorModeChanged, FlagsOK
  <2>19. CASE OnConfigurationChanged
    BY <2>19 DEF OnConfigurationChanged, FlagsOK
  <2>20. CASE RunTimerTick
    BY <2>20 DEF RunTimerTick, FlagsOK
  <2>21. CASE NotifyInspectorChanged
    BY <2>21 DEF NotifyInspectorChanged, FlagsOK
  <2>22. CASE IsInterrupt
    BY <2>22 DEF IsInterrupt, FlagsOK
  <2>23. CASE Stop
    BY <2>23 DEF Stop, FlagsOK
  <2>24. CASE Interrupt
    BY <2>24 DEF Interrupt, FlagsOK
  <2>25. ASSUME NEW m \in Modes, ColorModeCommand(m)
        PROVE  LateInv'
    BY <2>25 DEF ColorModeCommand, Sent, FlagsOK
  <2>27. ASSUME NEW m \in Modes, LoadDocument(m)
        PROVE  LateInv'
    BY <2>27 DEF LoadDocument, FlagsOK
  <2>28. CASE ShowDocument
    BY <2>28 DEF ShowDocument, FlagsOK
  <2>26. CASE UNCHANGED vars
    BY <2>26
  <2> QED
    BY <2>1, <2>2, <2>3, <2>4, <2>5, <2>6, <2>7, <2>8, <2>9, <2>10,
       <2>11, <2>12, <2>13, <2>14, <2>15, <2>16, <2>17, <2>18, <2>19,
       <2>20, <2>21, <2>22, <2>23, <2>24, <2>25, <2>26, <2>27, <2>28
       DEF Next, MainStep, CmdStep, Terminated
<1>3. QED
  BY <1>1, <1>2, Invariance, PTL DEF Spec

\* For an IDE that sends exit only to an application that runs, JsApp::Stop is
\* over only when the application has left its main loop: isFinished is cleared
\* before the loop and set after it.
THEOREM LateStopWaits == Spec => []LateStopMeansStopped
<1>1. LateInv => LateStopMeansStopped
  BY DEF LateInv, LateStop
<1> QED
  BY <1>1, LateInvariance, PTL

\* For an IDE that changes the mode only of a page that is shown, the arguments
\* and the page agree between two commands, whatever documents are loaded, and
\* the stored mode with them when documents come in the stored mode.
THEOREM ModesAgree == Spec => []LateColorModesAgree
<1>1. IInv /\ LateInv => LateColorModesAgree
  BY DEF LateInv, ModesFollow, DocumentMode, FailedForGood, LateColorModesAgree, ColorModesAgree
<1> QED
  BY <1>1, Invariance, LateInvariance, PTL
=============================================================================
