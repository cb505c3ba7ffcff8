------------------------ MODULE CommandSessionProofs ------------------------
(***************************************************************************)
(* Proofs about CommandSession for every set of messages, configuration    *)
(* files and setups, and any number of messages.                           *)
(***************************************************************************)
EXTENDS CommandSession, SequenceTheorems, TLAPS

\* What LANGUAGE may be set to, and may be.
Languages == IF IsLiteDevice THEN liteSupportedLanguages ELSE richSupportedLanguages
Possible == IF IsLiteDevice THEN Languages ELSE Languages \cup {setup.language}
CommandTypes == {"set", "get", "action"}
Results == {"true", "value", "offline", "tree", "rich languages", "lite languages"}

\* What a command may assign, and what the values may be.
InRange(f) ==
    /\ \A type \in DOMAIN Ranges \cap DOMAIN f : f[type] \in Ranges[type]
    /\ "LANGUAGE" \in DOMAIN f => f["LANGUAGE"] \in Possible
    /\ "orientation" \in DOMAIN f => f["orientation"] \in {"portrait", "landscape"}
    /\ DOMAIN f \subseteq DOMAIN InitialData

\* A handler that passes assigns values in their range, and no handler answers
\* the way CheckAndRun and the factory refuse.
Acceptable(h) == h.result \in Results /\ (h.ok => InRange(h.assigns))
Sound(c) == \A t \in CommandTypes : Acceptable(c[t])

\* The one handler that answers what the engine says calls the engine only.
Asks(h) == h.result = "engine" /\ h.assigns = Nothing /\ h.calls = <<"MemoryRefresh">> /\ h.named

-----------------------------------------------------------------------------
\* The constructors of handlers: what assigns nothing is in range.
LEMMA Handlers ==
    /\ InRange(Nothing)
    /\ Acceptable(Default)
    /\ \A r \in Results : Acceptable(Answers(r))
    /\ \A ok, assigns, called :
          (ok => InRange(assigns)) => Acceptable(Does(ok, assigns, called))
<1>1. InRange(Nothing)
  BY DEF InRange, Nothing
<1>2. Acceptable(Default)
  BY <1>1 DEF Acceptable, Default, Results
<1>3. ASSUME NEW r \in Results
      PROVE  Acceptable(Answers(r))
  <2>1. /\ DOMAIN Default = {"ok", "assigns", "calls", "result", "named"}
        /\ Default.assigns = Nothing
    BY DEF Default
  <2>2. Answers(r).result = r /\ Answers(r).assigns = Nothing
    BY <2>1 DEF Answers
  <2> QED
    BY <1>1, <2>2 DEF Acceptable
<1>4. ASSUME NEW ok, NEW assigns, NEW called, ok => InRange(assigns)
      PROVE  Acceptable(Does(ok, assigns, called))
  BY <1>4 DEF Acceptable, Does, Results
<1> QED
  BY <1>1, <1>2, <1>3, <1>4

\* A command that overrides one handler is as sound as that handler.
LEMMA OneHandler ==
    ASSUME NEW h, Acceptable(h)
    PROVE  Sound(OnSet(h)) /\ Sound(OnGet(h)) /\ Sound(OnAction(h))
BY Handlers DEF Sound, CommandTypes, OnSet, OnGet, OnAction

\* SetData stores a value in its range or nothing.
LEMMA SetDataInRange ==
    ASSUME NEW type \in DOMAIN Ranges, NEW n
    PROVE  InRange(SetData(type, n))
<1>1. type \in DOMAIN InitialData /\ type # "LANGUAGE" /\ type # "orientation"
  BY DEF Ranges, InitialData
<1> QED
  BY <1>1, Handlers DEF SetData, IsValid, Only, InRange

\* A command that reads and stores a value of SharedData is sound, whatever its
\* check lets pass.
LEMMA SharedSound ==
    ASSUME NEW type \in DOMAIN Ranges, NEW ok, NEW n
    PROVE  Sound(Shared(type, ok, n))
<1>1. Acceptable(Does(ok, SetData(type, n), <<>>))
  BY SetDataInRange, Handlers
<1>2. Acceptable(Answers("value"))
  BY Handlers DEF Results
<1> QED
  BY <1>1, <1>2, Handlers DEF Sound, CommandTypes, Shared

\* A handler that is suppressed while the screen is static is as sound as the
\* handler.
LEMMA UnlessStaticAcceptable ==
    ASSUME NEW h, Acceptable(h)
    PROVE  Acceptable(UnlessStatic(h))
<1>1. [Default EXCEPT !.ok = h.ok].result = "true"
      /\ [Default EXCEPT !.ok = h.ok].assigns = Nothing
  BY DEF Default
<1> QED
  BY <1>1, Handlers DEF UnlessStatic, Acceptable, Results

\* A handler that assigns nothing is sound, whatever it checks and calls.
LEMMA CallsOnly ==
    ASSUME NEW ok, NEW called
    PROVE  /\ Sound(OnSet(Does(ok, Nothing, called)))
           /\ Sound(OnAction(Does(ok, Nothing, called)))
           /\ Sound(OnAction(UnlessStatic(Does(ok, Nothing, called))))
BY Handlers, OneHandler, UnlessStaticAcceptable

\* The commands for events and pages store nothing.
LEMMA EventCommands ==
    ASSUME NEW a
    PROVE  /\ Sound(TouchPressCommand(a)) /\ Sound(TouchReleaseCommand)
           /\ Sound(TouchMoveCommand(a)) /\ Sound(MouseWheelCommand(a))
           /\ Sound(KeyPressCommand(a)) /\ Sound(PointEventCommand(a))
           /\ Sound(ExitCommand) /\ Sound(BackClickedCommand)
           /\ Sound(ResolutionSwitchCommand(a)) /\ Sound(FontSelectCommand(a))
           /\ Sound(LoadDocumentCommand(a))
           /\ Sound(ReloadRuntimePageCommand(a)) /\ Sound(DistributedCommunicationsCommand(a))
<1>1. Sound(TouchPressCommand(a))
  BY CallsOnly DEF TouchPressCommand
<1>2. Sound(TouchReleaseCommand)
  BY CallsOnly DEF TouchReleaseCommand
<1>3. Sound(TouchMoveCommand(a))
  BY CallsOnly DEF TouchMoveCommand
<1>4. Sound(MouseWheelCommand(a))
  BY CallsOnly DEF MouseWheelCommand
<1>5. Sound(KeyPressCommand(a))
  BY CallsOnly DEF KeyPressCommand
<1>6. Sound(PointEventCommand(a))
  BY CallsOnly DEF PointEventCommand
<1>7. Sound(ExitCommand) /\ Sound(BackClickedCommand)
  BY CallsOnly DEF ExitCommand, BackClickedCommand
<1>8. Sound(ResolutionSwitchCommand(a))
  BY CallsOnly DEF ResolutionSwitchCommand
<1>9. Sound(FontSelectCommand(a))
  BY CallsOnly DEF FontSelectCommand
<1>10. Sound(LoadDocumentCommand(a))
  BY CallsOnly DEF LoadDocumentCommand
<1>11. Sound(ReloadRuntimePageCommand(a))
  BY CallsOnly DEF ReloadRuntimePageCommand
<1>12. Sound(DistributedCommunicationsCommand(a))
  BY CallsOnly DEF DistributedCommunicationsCommand
<1> QED
  BY <1>1, <1>2, <1>3, <1>4, <1>5, <1>6, <1>7, <1>8, <1>9, <1>10, <1>11, <1>12

\* The commands with a value of SharedData store it in its range or not at all.
LEMMA ValueCommands ==
    ASSUME NEW a
    PROVE  /\ Sound(PowerCommand(a)) /\ Sound(BarometerCommand(a)) /\ Sound(LocationCommand(a))
           /\ Sound(KeepScreenOnStateCommand(a)) /\ Sound(WearingStateCommand(a))
           /\ Sound(BrightnessModeCommand(a)) /\ Sound(ChargeModeCommand(a))
           /\ Sound(BrightnessCommand(a)) /\ Sound(HeartRateCommand(a))
           /\ Sound(StepCountCommand(a))
<1>1. {"BATTERY_LEVEL", "PRESSURE_VALUE", "LATITUDE", "LONGITUDE", "KEEP_SCREEN_ON",
       "WEARING_STATE", "BRIGHTNESS_MODE", "BATTERY_STATUS", "BRIGHTNESS_VALUE",
       "HEARTBEAT_VALUE", "SUMSTEP_VALUE"} \subseteq DOMAIN Ranges
  BY DEF Ranges
<1>2. Sound(PowerCommand(a)) /\ Sound(BarometerCommand(a))
  BY <1>1, SharedSound DEF PowerCommand, BarometerCommand
<1>3. Sound(KeepScreenOnStateCommand(a)) /\ Sound(WearingStateCommand(a))
  BY <1>1, SharedSound DEF KeepScreenOnStateCommand, WearingStateCommand
<1>4. Sound(BrightnessModeCommand(a)) /\ Sound(ChargeModeCommand(a))
  BY <1>1, SharedSound DEF BrightnessModeCommand, ChargeModeCommand, Byte
<1>5. Sound(BrightnessCommand(a)) /\ Sound(HeartRateCommand(a))
  BY <1>1, SharedSound DEF BrightnessCommand, HeartRateCommand, Byte
<1>6. Sound(StepCountCommand(a))
  BY <1>1, SharedSound DEF StepCountCommand
<1>7. Sound(LocationCommand(a))
  <2> DEFINE ok == /\ Has(a, {"latitude", "longitude"}, {"real", "realstring"})
                   /\ IsValid("LATITUDE", Num(a, "latitude"))
                   /\ IsValid("LONGITUDE", Num(a, "longitude"))
             one == SetData("LATITUDE", Num(a, "latitude"))
             both == Over(SetData("LONGITUDE", Num(a, "longitude")), one)
             base == Shared("LATITUDE", ok, Num(a, "latitude"))
  <2>1. InRange(both)
    <3>1. InRange(one) /\ InRange(SetData("LONGITUDE", Num(a, "longitude")))
      BY <1>1, SetDataInRange
    <3> HIDE DEF one
    <3> QED
      BY <3>1 DEF InRange, Over
  <2>2. LocationCommand(a) = [base EXCEPT !.set.assigns = both]
    BY DEF LocationCommand, Shared, Does
  <2>3. Sound(base)
    BY <1>1, SharedSound
  <2>4. /\ LocationCommand(a)["set"].result = "true"
        /\ LocationCommand(a)["set"].assigns = both
        /\ LocationCommand(a)["get"] = base["get"]
        /\ LocationCommand(a)["action"] = base["action"]
    <3> HIDE DEF ok, both
    <3> QED
      BY <2>2 DEF Shared, Does
  <2> HIDE DEF both, base
  <2> QED
    BY <2>1, <2>3, <2>4 DEF Sound, Acceptable, CommandTypes, Results
<1> QED
  BY <1>2, <1>3, <1>4, <1>5, <1>6, <1>7

\* The remaining commands: what they store is what their check has compared.
LEMMA OtherCommands ==
    ASSUME NEW a
    PROVE  /\ Sound(OrientationCommand(a)) /\ Sound(ColorModeCommand(a))
           /\ Sound(LanguageCommand(a)) /\ Sound(DropFrameCommand(a))
           /\ Sound(VolumeCommand) /\ Sound(SupportedLanguagesCommand)
           /\ Sound(InspectorJSONTree) /\ Sound(InspectorDefault)
           /\ Sound(OnSet(Default)) /\ Sound(OnGet(Default))
<1>1. Sound(OnSet(Default)) /\ Sound(OnGet(Default))
  BY Handlers, OneHandler
<1>2. ASSUME NEW m, NEW key \in {"orientation", "colorMode"}, NEW choices, NEW call,
             key = "orientation" => choices = {"portrait", "landscape"}
      PROVE  Sound(Change(a, m, key, choices, call))
  <2>1. key \in DOMAIN InitialData /\ key \notin DOMAIN Ranges /\ key # "LANGUAGE"
    BY DEF InitialData, Ranges
  <2>2. Text(a, m) \in choices => InRange(Only(key, Text(a, m)))
    BY <1>2, <2>1 DEF InRange, Only
  <2> QED
    BY <2>2, Handlers, OneHandler DEF Change
<1>3. Sound(OrientationCommand(a)) /\ Sound(ColorModeCommand(a))
  BY <1>2 DEF OrientationCommand, ColorModeCommand
<1>4. Sound(LanguageCommand(a))
  <2>1. "LANGUAGE" \in DOMAIN InitialData /\ "LANGUAGE" \notin DOMAIN Ranges
    BY DEF InitialData, Ranges
  <2>2. Text(a, "Language") \in Languages => InRange(Only("LANGUAGE", Text(a, "Language")))
    BY <2>1 DEF InRange, Only, Possible
  <2>3. Acceptable(LanguageCommand(a)["set"])
    BY <2>2, Handlers DEF LanguageCommand, Languages
  <2>4. Acceptable(Answers("value")) /\ Acceptable(Default)
    BY Handlers DEF Results
  <2>5. /\ LanguageCommand(a)["get"] = Answers("value")
        /\ LanguageCommand(a)["action"] = Default
    BY DEF LanguageCommand
  <2> QED
    BY <2>3, <2>4, <2>5 DEF Sound, CommandTypes
<1>5. Sound(DropFrameCommand(a))
  <2>1. /\ "dropFrameFrequency" \in DOMAIN InitialData
        /\ "dropFrameFrequency" \notin DOMAIN Ranges
    BY DEF InitialData, Ranges
  <2>2. InRange(Only("dropFrameFrequency", Num(a, "frequency")))
    BY <2>1 DEF InRange, Only
  <2> QED
    BY <2>2, Handlers, OneHandler DEF DropFrameCommand
<1>6. Sound(VolumeCommand)
  <2>1. Acceptable(Answers("offline")) /\ Acceptable(Default)
    BY Handlers DEF Results
  <2> QED
    BY <2>1 DEF VolumeCommand, Sound, CommandTypes
<1>7. Sound(SupportedLanguagesCommand)
  BY Handlers, OneHandler DEF SupportedLanguagesCommand, Results
<1>8. Sound(InspectorJSONTree) /\ Sound(InspectorDefault)
  <2>1. ASSUME NEW called
        PROVE  Acceptable([Answers("tree") EXCEPT !.calls = called])
    BY Handlers DEF Acceptable, Answers, Default, Results
  <2> QED
    BY <2>1, OneHandler DEF InspectorJSONTree, InspectorDefault
<1> QED
  BY <1>1, <1>3, <1>4, <1>5, <1>6, <1>7, <1>8

\* Every registered command but MemoryRefresh is sound.
LEMMA CommandsSound ==
    ASSUME NEW c \in InitCommandMap, NEW a, c # "MemoryRefresh"
    PROVE  Sound(CommandOf(c, a))
<1>1. c \in CommonCommands \cup RichCommands \cup LiteCommands
  BY DEF InitCommandMap
<1>2. CASE c \in CommonCommands
  BY <1>2, EventCommands, OtherCommands
     DEF CommonCommands, CommandOf, ResolutionCommand, DeviceTypeCommand
<1>3. CASE c \in RichCommands
  BY <1>3, EventCommands, OtherCommands
     DEF RichCommands, CommandOf, CurrentRouterCommand, LoadContentCommand,
         FastPreviewMsgCommand
<1>4. CASE c \in LiteCommands
  BY <1>4, EventCommands, ValueCommands, OtherCommands DEF LiteCommands, CommandOf
<1> QED
  BY <1>1, <1>2, <1>3, <1>4

\* MemoryRefresh answers a set command with what the engine says.
LEMMA RefreshAsks ==
    ASSUME NEW a
    PROVE  /\ Asks(CommandOf("MemoryRefresh", a)["set"])
           /\ Acceptable(CommandOf("MemoryRefresh", a)["get"])
           /\ Acceptable(CommandOf("MemoryRefresh", a)["action"])
<1> DEFINE h == [Does(DOMAIN a # {}, Nothing, <<"MemoryRefresh">>) EXCEPT !.result = "engine"]
<1>1. CommandOf("MemoryRefresh", a) = OnSet(h)
  BY DEF CommandOf, MemoryRefreshCommand
<1>2. Asks(h)
  BY DEF Asks, Does
<1> HIDE DEF h
<1> QED
  BY <1>1, <1>2, Handlers DEF OnSet

\* A handler of a registered command assigns values in range when it passes,
\* and answers what the factory and CheckAndRun do not, unless it asks.
LEMMA CommandsFit ==
    ASSUME NEW c \in InitCommandMap, NEW a, NEW t \in CommandTypes
    PROVE  LET h == CommandOf(c, a)[t] IN
           /\ h.ok => InRange(h.assigns)
           /\ h.result \in Results \/ (c = "MemoryRefresh" /\ Asks(h))
<1>1. CASE c # "MemoryRefresh"
  BY <1>1, CommandsSound DEF Sound, Acceptable
<1>2. CASE c = "MemoryRefresh"
  BY <1>2, RefreshAsks, Handlers DEF Acceptable, Asks, CommandTypes
<1> QED
  BY <1>1, <1>2

-----------------------------------------------------------------------------
Refusals == {"false", "unsupported"}
Piece == [m : Messages, piece : {"whole", "front", "rest"}]
Names == {m.command : m \in Messages} \cup {""}
Reply == [command : Names, result : Results \cup Refusals]

IsData(f) == DOMAIN f = DOMAIN InitialData /\ f = [k \in DOMAIN f |-> f[k]]

TypeOK ==
    /\ setup \in Setups
    /\ typeMap \in {{}, InitCommandMap}
    /\ pipe \in Seq(Piece) /\ rest \in Seq(Messages)
    /\ handled \in Seq(Messages) /\ answers \in Seq(Reply)
    /\ IsData(data)

\* No message is handled before the configuration file has been applied.
FileFirst == typeMap = {} \/ config # <<>> => handled = <<>>

IInv == TypeOK /\ FileFirst /\ InRange(data) /\ AnsweredInOrder /\ StoredAsSent

\* What a message that reaches the factory leads to: it is refused, or its
\* command is known, passes its check and runs.
Refused(r) == r.result \in Refusals /\ UNCHANGED <<data, calls>>
Ran(m, r) ==
    LET h == CommandOf(m.command, m.args)[m.type] IN
    /\ m.command \in InitCommandMap /\ m.type \in CommandTypes
    /\ h.ok /\ r.result \in Outcomes(h.result)
    /\ r.command = (IF h.named THEN m.command ELSE "")
    /\ data' = Over(h.assigns, data) /\ calls' = calls \o h.calls
AnsweredWith(m, r) ==
    /\ handled' = Append(handled, m) /\ answers' = Append(answers, r)
    /\ r.command \in {m.command, ""}
    /\ Refused(r) \/ Ran(m, r)
Ignored == UNCHANGED <<handled, data, calls, answers>>

\* Values in range stay in range under values in range.
LEMMA OverInRange ==
    ASSUME NEW f, NEW g, InRange(f), InRange(g)
    PROVE  InRange(Over(f, g))
BY DEF InRange, Over

\* An answer names a command and a result.
LEMMA AnswerFields ==
    ASSUME NEW c \in Names, NEW result \in Results \cup Refusals
    PROVE  /\ Answer(c, result) \in Reply
           /\ Answer(c, result).command = c /\ Answer(c, result).result = result
BY DEF Answer, Reply

\* One pass of the command thread ignores a message or answers it once.
LEMMA OneAnswer ==
    ASSUME TypeOK, ProcessCommand
    PROVE  Ignored \/ \E m \in Messages, r \in Reply : AnsweredWith(m, r)
<1> DEFINE m == Head(pipe).m
           ignored == \/ ~ProcessCommandValidate(m, ReadPipe.intact)
                      \/ setup.card /\ IsStaticIgnoreCmd(m.command)
<1>1. m \in Messages /\ {m.command, ""} \subseteq Names
  <2>1. pipe \in Seq(Piece) /\ pipe # <<>>
    BY DEF TypeOK, ProcessCommand
  <2>2. Head(pipe) \in Piece
    BY <2>1
  <2> QED
    BY <2>2 DEF Piece, Names
<1>2. CASE ignored
  BY <1>2 DEF ProcessCommand, Ignored
<1>3. CASE ~ignored /\ m.command \notin typeMap
  <2>1. /\ handled' = Append(handled, m)
        /\ answers' = Append(answers, Answer(m.command, "unsupported"))
        /\ UNCHANGED <<data, calls>>
    BY <1>3 DEF ProcessCommand
  <2> HIDE DEF m
  <2>2. /\ Answer(m.command, "unsupported") \in Reply
        /\ Answer(m.command, "unsupported").command = m.command
        /\ Answer(m.command, "unsupported").result = "unsupported"
    BY <1>1, AnswerFields DEF Refusals
  <2>3. AnsweredWith(m, Answer(m.command, "unsupported"))
    BY <2>1, <2>2 DEF AnsweredWith, Refused, Refusals
  <2> QED
    BY <1>1, <2>2, <2>3
<1>4. CASE ~ignored /\ m.command \in typeMap
  <2> DEFINE h == CommandOf(m.command, m.args)[m.type]
  <2>1. m.type \in CommandTypes /\ m.command \in InitCommandMap
    BY <1>4 DEF ProcessCommandValidate, CommandTypes, TypeOK
  <2>2. handled' = Append(handled, m) /\ CheckAndRun(m.command, h)
    BY <1>4 DEF ProcessCommand
  <2>3. Outcomes(h.result) \subseteq Results \cup Refusals
    <3>1. h.result \in Results \/ h.result = "engine"
      BY <2>1, CommandsFit DEF Asks
    <3> HIDE DEF h
    <3> QED
      BY <3>1 DEF Outcomes, Results, Refusals
  <2> HIDE DEF m
  <2>4. CASE ~h.ok
    <3> DEFINE r == Answer(m.command, "false")
    <3>1. r \in Reply /\ r.command = m.command /\ r.result = "false"
      BY <1>1, AnswerFields DEF Refusals
    <3> HIDE DEF r, h
    <3>2. answers' = Append(answers, r) /\ UNCHANGED <<data, calls>>
      BY <2>2, <2>4 DEF CheckAndRun, r
    <3> QED
      BY <1>1, <2>2, <3>1, <3>2 DEF AnsweredWith, Refused, Refusals
  <2>5. CASE h.ok
    <3> DEFINE name == IF h.named THEN m.command ELSE ""
    <3>1. name \in Names /\ name \in {m.command, ""}
      BY <1>1
    <3>2. PICK result \in Outcomes(h.result) : answers' = Append(answers, Answer(name, result))
      BY <2>2, <2>5 DEF CheckAndRun
    <3>3. data' = Over(h.assigns, data) /\ calls' = calls \o h.calls
      BY <2>2, <2>5 DEF CheckAndRun, Run
    <3> DEFINE r == Answer(name, result)
    <3>4. r \in Reply /\ r.command = name /\ r.result \in Outcomes(h.result)
      BY <2>3, <3>1, <3>2, AnswerFields
    <3>5. answers' = Append(answers, r) /\ r.command = (IF h.named THEN m.command ELSE "")
      BY <3>2, <3>4
    <3> HIDE DEF name, r
    <3>6. Ran(m, r)
      BY <2>1, <2>5, <3>3, <3>4, <3>5 DEF Ran
    <3> QED
      BY <1>1, <2>2, <3>1, <3>4, <3>5, <3>6 DEF AnsweredWith
  <2> QED
    BY <2>4, <2>5
<1> QED
  BY <1>2, <1>3, <1>4

\* A member of the configuration file changes the values like a command does.
LEMMA OneMember ==
    ASSUME TypeOK, ApplyConfigMember
    PROVE  UNCHANGED data \/ \E f : InRange(f) /\ data' = Over(f, data)
<1> DEFINE m == Head(config)
           h == CommandOf(m.command, m.args).set
<1>1. UNCHANGED data \/ (m.command \in typeMap /\ h.ok /\ data' = Over(h.assigns, data))
  BY DEF ApplyConfigMember, Run
<1>2. m.command \in typeMap /\ h.ok => InRange(h.assigns)
  BY CommandsFit DEF TypeOK, CommandTypes
<1> QED
  BY <1>1, <1>2

\* A set handler that passes assigns the argument, or nothing it should have.
Stores(h, type, v) ==
    h.ok => \/ h.assigns = Only(type, v)
            \/ type \in {"BRIGHTNESS_VALUE", "SUMSTEP_VALUE"} /\ v \notin Ranges[type]

\* What is in range is stored, and a byte is its own remainder.
LEMMA Exactly ==
    /\ \A type, v : IsValid(type, v) => SetData(type, v) = Only(type, v)
    /\ \A v \in 0 .. 255 : ToUint8(v) = v
BY DEF SetData, ToUint8

\* The lite commands whose argument bears their name store it when they answer
\* true, except where a check that looks at a remainder lets a value pass that
\* is out of range.
LEMMA ArgumentsStored ==
    ASSUME NEW a,
           \A k \in DOMAIN a : a[k].n \in Int /\ (a[k].t \in {"bool", "boolstring"} => a[k].n \in 0 .. 1)
    PROVE  /\ Stores(PowerCommand(a)["set"], "BATTERY_LEVEL", Tenths(a, "Power"))
           /\ Stores(BarometerCommand(a)["set"], "PRESSURE_VALUE", Num(a, "Barometer"))
           /\ Stores(KeepScreenOnStateCommand(a)["set"], "KEEP_SCREEN_ON", Num(a, "KeepScreenOnState"))
           /\ Stores(WearingStateCommand(a)["set"], "WEARING_STATE", Num(a, "WearingState"))
           /\ Stores(BrightnessModeCommand(a)["set"], "BRIGHTNESS_MODE", Num(a, "BrightnessMode"))
           /\ Stores(ChargeModeCommand(a)["set"], "BATTERY_STATUS", Num(a, "ChargeMode"))
           /\ Stores(HeartRateCommand(a)["set"], "HEARTBEAT_VALUE", Num(a, "HeartRate"))
           /\ Stores(BrightnessCommand(a)["set"], "BRIGHTNESS_VALUE", Num(a, "Brightness"))
           /\ Stores(StepCountCommand(a)["set"], "SUMSTEP_VALUE", Num(a, "StepCount"))
<1>1. ASSUME PowerCommand(a)["set"].ok
      PROVE  Stores(PowerCommand(a)["set"], "BATTERY_LEVEL", Tenths(a, "Power"))
  <2>1. PowerCommand(a)["set"].assigns = SetData("BATTERY_LEVEL", Tenths(a, "Power"))
    BY DEF PowerCommand, Shared, Does
  <2>2. IsValid("BATTERY_LEVEL", Tenths(a, "Power"))
    BY <1>1 DEF PowerCommand, Shared, Does
  <2> QED
    BY <2>1, <2>2, Exactly DEF Stores
<1>2. ASSUME BarometerCommand(a)["set"].ok
      PROVE  Stores(BarometerCommand(a)["set"], "PRESSURE_VALUE", Num(a, "Barometer"))
  <2>1. BarometerCommand(a)["set"].assigns = SetData("PRESSURE_VALUE", Num(a, "Barometer"))
    BY DEF BarometerCommand, Shared, Does
  <2>2. IsValid("PRESSURE_VALUE", Num(a, "Barometer"))
    BY <1>2 DEF BarometerCommand, Shared, Does
  <2> QED
    BY <2>1, <2>2, Exactly DEF Stores
<1>3. ASSUME KeepScreenOnStateCommand(a)["set"].ok
      PROVE  Stores(KeepScreenOnStateCommand(a)["set"], "KEEP_SCREEN_ON", Num(a, "KeepScreenOnState"))
  <2>1. KeepScreenOnStateCommand(a)["set"].assigns = SetData("KEEP_SCREEN_ON", Num(a, "KeepScreenOnState"))
    BY DEF KeepScreenOnStateCommand, Shared, Does
  <2>2. IsBoolType(a, "KeepScreenOnState")
    BY <1>3 DEF KeepScreenOnStateCommand, Shared, Does
  <2>3. Num(a, "KeepScreenOnState") \in 0 .. 1
    BY <2>2 DEF IsBoolType, Has, Num
  <2>4. IsValid("KEEP_SCREEN_ON", Num(a, "KeepScreenOnState"))
    BY <2>3 DEF IsValid, Ranges
  <2> QED
    BY <2>1, <2>4, Exactly DEF Stores
<1>4. ASSUME WearingStateCommand(a)["set"].ok
      PROVE  Stores(WearingStateCommand(a)["set"], "WEARING_STATE", Num(a, "WearingState"))
  <2>1. WearingStateCommand(a)["set"].assigns = SetData("WEARING_STATE", Num(a, "WearingState"))
    BY DEF WearingStateCommand, Shared, Does
  <2>2. IsBoolType(a, "WearingState")
    BY <1>4 DEF WearingStateCommand, Shared, Does
  <2>3. Num(a, "WearingState") \in 0 .. 1
    BY <2>2 DEF IsBoolType, Has, Num
  <2>4. IsValid("WEARING_STATE", Num(a, "WearingState"))
    BY <2>3 DEF IsValid, Ranges
  <2> QED
    BY <2>1, <2>4, Exactly DEF Stores
<1>5. ASSUME BrightnessModeCommand(a)["set"].ok
      PROVE  Stores(BrightnessModeCommand(a)["set"], "BRIGHTNESS_MODE", Num(a, "BrightnessMode"))
  <2>1. BrightnessModeCommand(a)["set"].assigns = SetData("BRIGHTNESS_MODE", ToUint8(Num(a, "BrightnessMode")))
    BY DEF BrightnessModeCommand, Shared, Does, Byte
  <2>2. IsOneDigit(a, "BrightnessMode") /\ IsValid("BRIGHTNESS_MODE", ToUint8(Num(a, "BrightnessMode")))
    BY <1>5 DEF BrightnessModeCommand, Shared, Does, Byte
  <2>3. Num(a, "BrightnessMode") \in 0 .. 255
    BY <2>2 DEF IsOneDigit, IsIntType, Has, Num
  <2> QED
    BY <2>1, <2>2, <2>3, Exactly DEF Stores
<1>6. ASSUME ChargeModeCommand(a)["set"].ok
      PROVE  Stores(ChargeModeCommand(a)["set"], "BATTERY_STATUS", Num(a, "ChargeMode"))
  <2>1. ChargeModeCommand(a)["set"].assigns = SetData("BATTERY_STATUS", ToUint8(Num(a, "ChargeMode")))
    BY DEF ChargeModeCommand, Shared, Does, Byte
  <2>2. IsOneDigit(a, "ChargeMode") /\ IsValid("BATTERY_STATUS", ToUint8(Num(a, "ChargeMode")))
    BY <1>6 DEF ChargeModeCommand, Shared, Does, Byte
  <2>3. Num(a, "ChargeMode") \in 0 .. 255
    BY <2>2 DEF IsOneDigit, IsIntType, Has, Num
  <2> QED
    BY <2>1, <2>2, <2>3, Exactly DEF Stores
<1>7. ASSUME HeartRateCommand(a)["set"].ok
      PROVE  Stores(HeartRateCommand(a)["set"], "HEARTBEAT_VALUE", Num(a, "HeartRate"))
  <2>1. HeartRateCommand(a)["set"].assigns = SetData("HEARTBEAT_VALUE", ToUint8(Num(a, "HeartRate")))
    BY DEF HeartRateCommand, Shared, Does, Byte
  <2>2. /\ IsIntType(a, "HeartRate") /\ IsValid("HEARTBEAT_VALUE", ToUint8(Num(a, "HeartRate")))
        /\ Num(a, "HeartRate") <= 255
    BY <1>7 DEF HeartRateCommand, Shared, Does, Byte
  <2>3. Num(a, "HeartRate") \in 0 .. 255
    BY <2>2 DEF IsIntType, Has, Num
  <2> QED
    BY <2>1, <2>2, <2>3, Exactly DEF Stores
<1>8. ASSUME BrightnessCommand(a)["set"].ok
      PROVE  Stores(BrightnessCommand(a)["set"], "BRIGHTNESS_VALUE", Num(a, "Brightness"))
  <2>1. BrightnessCommand(a)["set"].assigns = SetData("BRIGHTNESS_VALUE", ToUint8(Num(a, "Brightness")))
    BY DEF BrightnessCommand, Shared, Does, Byte
  <2>2. IsIntType(a, "Brightness") /\ IsValid("BRIGHTNESS_VALUE", ToUint8(Num(a, "Brightness")))
    BY <1>8 DEF BrightnessCommand, Shared, Does, Byte
  <2>3. CASE Num(a, "Brightness") \in 0 .. 255
    BY <2>1, <2>2, <2>3, Exactly DEF Stores
  <2>4. CASE Num(a, "Brightness") \notin 0 .. 255
    <3>1. Num(a, "Brightness") \notin Ranges["BRIGHTNESS_VALUE"]
      BY <2>4 DEF Ranges
    <3> QED
      BY <3>1 DEF Stores
  <2> QED
    BY <2>3, <2>4
<1>9. ASSUME StepCountCommand(a)["set"].ok
      PROVE  Stores(StepCountCommand(a)["set"], "SUMSTEP_VALUE", Num(a, "StepCount"))
  <2>1. StepCountCommand(a)["set"].assigns = SetData("SUMSTEP_VALUE", Num(a, "StepCount"))
    BY DEF StepCountCommand, Shared, Does
  <2> QED
    BY <2>1 DEF Stores, SetData, IsValid
<1> QED
  BY <1>1, <1>2, <1>3, <1>4, <1>5, <1>6, <1>7, <1>8, <1>9 DEF Stores

\* The same for a message of the IDE.
LEMMA MessageStored ==
    ASSUME NEW m \in Messages, m.command \in DOMAIN StoredAs
    PROVE  Stores(CommandOf(m.command, m.args)["set"], StoredAs[m.command],
                  Given(m.args, m.command))
<1>1. \A k \in DOMAIN m.args :
          m.args[k].n \in Int /\ (m.args[k].t \in {"bool", "boolstring"} => m.args[k].n \in 0 .. 1)
  BY MessagesAssumption
<1> DEFINE a == m.args
           c == m.command
<1> HIDE DEF a, c
<1>2. c \in DOMAIN StoredAs => Stores(CommandOf(c, a)["set"], StoredAs[c], Given(a, c))
  <2> USE <1>1, ArgumentsStored DEF a, CommandOf, StoredAs, Given
  <2>1. c = "Power" => Stores(CommandOf(c, a)["set"], StoredAs[c], Given(a, c))
    OBVIOUS
  <2>2. c = "Barometer" => Stores(CommandOf(c, a)["set"], StoredAs[c], Given(a, c))
    OBVIOUS
  <2>3. c = "KeepScreenOnState" => Stores(CommandOf(c, a)["set"], StoredAs[c], Given(a, c))
    OBVIOUS
  <2>4. c = "WearingState" => Stores(CommandOf(c, a)["set"], StoredAs[c], Given(a, c))
    OBVIOUS
  <2>5. c = "BrightnessMode" => Stores(CommandOf(c, a)["set"], StoredAs[c], Given(a, c))
    OBVIOUS
  <2>6. c = "ChargeMode" => Stores(CommandOf(c, a)["set"], StoredAs[c], Given(a, c))
    OBVIOUS
  <2>7. c = "HeartRate" => Stores(CommandOf(c, a)["set"], StoredAs[c], Given(a, c))
    OBVIOUS
  <2>8. c = "Brightness" => Stores(CommandOf(c, a)["set"], StoredAs[c], Given(a, c))
    OBVIOUS
  <2>9. c = "StepCount" => Stores(CommandOf(c, a)["set"], StoredAs[c], Given(a, c))
    OBVIOUS
  <2> QED
    BY <2>1, <2>2, <2>3, <2>4, <2>5, <2>6, <2>7, <2>8, <2>9
<1> QED
  BY <1>2 DEF a, c

-----------------------------------------------------------------------------
\* Only the file and the command thread change values, messages and answers.
LEMMA OthersIgnore ==
    ASSUME [Next]_vars
    PROVE  /\ ProcessCommand \/ ApplyConfigMember \/ Ignored
           /\ ApplyConfigMember => UNCHANGED <<handled, answers>>
           /\ setup' = setup
           /\ typeMap' = typeMap \/ (typeMap = {} /\ Ignored)
BY DEF Next, vars, Ignored, Start, Send, SendRest, CreatCommandToSendData, ApplyConfigMember,
       ProcessCommand

\* What waits in the pipe are pieces of messages, and what is handled and
\* answered are messages and answers.
LEMMA TypeStep ==
    ASSUME TypeOK, [Next]_vars
    PROVE  TypeOK'
<1>1. /\ setup' \in Setups
      /\ typeMap' \in {{}, InitCommandMap'}
  <2>1. InitCommandMap' = InitCommandMap
    BY OthersIgnore DEF InitCommandMap, IsLiteDevice
  <2>2. typeMap' \in {typeMap, InitCommandMap}
    BY DEF Next, vars, Start, Send, SendRest, CreatCommandToSendData, ApplyConfigMember,
           ProcessCommand
  <2> QED
    BY <2>1, <2>2, OthersIgnore DEF TypeOK
<1>2. handled' \in Seq(Messages) /\ answers' \in Seq(Reply)
  <2>1. CASE ProcessCommand
    <3>1. ASSUME NEW m \in Messages, NEW r \in Reply, AnsweredWith(m, r)
          PROVE  handled' \in Seq(Messages) /\ answers' \in Seq(Reply)
      <4>1. handled \in Seq(Messages) /\ answers \in Seq(Reply)
        BY DEF TypeOK
      <4> QED
        BY <3>1, <4>1, AppendProperties DEF AnsweredWith
    <3> QED
      BY <2>1, <3>1, OneAnswer DEF Ignored, TypeOK
  <2>2. CASE ~ProcessCommand
    BY <2>2, OthersIgnore DEF TypeOK, Ignored
  <2> QED
    BY <2>1, <2>2
<1>3. IsData(data')
  <2>1. ASSUME NEW f, InRange(f)
        PROVE  IsData(Over(f, data))
    <3>1. DOMAIN f \cup DOMAIN data = DOMAIN InitialData
      BY <2>1 DEF InRange, TypeOK, IsData
    <3> QED
      BY <3>1, Zenon DEF Over, IsData
  <2>2. CASE ApplyConfigMember
    BY <2>1, <2>2, OneMember DEF TypeOK
  <2>3. CASE ProcessCommand
    <3>1. ASSUME NEW m \in Messages, NEW r \in Reply, AnsweredWith(m, r)
          PROVE  IsData(data')
      BY <2>1, <3>1, CommandsFit DEF AnsweredWith, Refused, Ran, TypeOK
    <3> QED
      BY <2>3, <3>1, OneAnswer DEF Ignored, TypeOK
  <2>4. CASE Ignored
    BY <2>4 DEF Ignored, TypeOK
  <2> QED
    BY <2>2, <2>3, <2>4, OthersIgnore
<1>4. pipe' \in Seq(Piece) /\ rest' \in Seq(Messages)
  <2> USE DEF TypeOK
  <2>1. ASSUME NEW m \in Messages, Send(m)
        PROVE  pipe' \in Seq(Piece) /\ rest' \in Seq(Messages)
    <3>1. [m |-> m, piece |-> "whole"] \in Piece /\ [m |-> m, piece |-> "front"] \in Piece
      BY DEF Piece
    <3>2. <<m>> \in Seq(Messages)
      OBVIOUS
    <3>3. rest' \in {rest, <<m>>}
      BY <2>1 DEF Send
    <3>4. /\ Append(pipe, [m |-> m, piece |-> "whole"]) \in Seq(Piece)
          /\ Append(pipe, [m |-> m, piece |-> "front"]) \in Seq(Piece)
      <4>1. pipe \in Seq(Piece)
        OBVIOUS
      <4> HIDE DEF TypeOK
      <4> QED
        BY <3>1, <4>1, AppendProperties
    <3>5. pipe' = Append(pipe, [m |-> m, piece |-> "whole"])
          \/ pipe' = Append(pipe, [m |-> m, piece |-> "front"])
      BY <2>1 DEF Send
    <3> QED
      BY <3>2, <3>3, <3>4, <3>5
  <2>2. CASE SendRest
    <3>1. rest[1] \in Messages
      BY <2>2 DEF SendRest
    <3>2. [m |-> rest[1], piece |-> "rest"] \in Piece
      BY <3>1 DEF Piece
    <3> QED
      BY <2>2, <3>2 DEF SendRest
  <2>3. CASE ProcessCommand
    <3>1. ReadPipe.used \in {1, 2} /\ ReadPipe.used <= Len(pipe)
      BY <2>3 DEF ProcessCommand, ReadPipe
    <3>2. SubSeq(pipe, ReadPipe.used + 1, Len(pipe)) \in Seq(Piece)
      BY <3>1
    <3> QED
      BY <2>3, <3>2 DEF ProcessCommand
  <2>4. CASE UNCHANGED <<pipe, rest>>
    BY <2>4
  <2> QED
    BY <2>1, <2>2, <2>3, <2>4
       DEF Next, vars, Start, CreatCommandToSendData, ApplyConfigMember
<1> QED
  BY <1>1, <1>2, <1>3, <1>4 DEF TypeOK

\* The file is applied before the first message is handled.
LEMMA FileStep ==
    ASSUME TypeOK, FileFirst, [Next]_vars
    PROVE  FileFirst'
BY DEF TypeOK, FileFirst, Next, vars, Start, Send, SendRest, CreatCommandToSendData,
       ApplyConfigMember, ProcessCommand

\* The values stay in their ranges.
LEMMA RangeStep ==
    ASSUME TypeOK, InRange(data), [Next]_vars
    PROVE  InRange(data)'
<1>1. setup' = setup
  BY OthersIgnore
<1>2. InRange(data')
  <2>1. CASE ApplyConfigMember
    BY <2>1, OneMember, OverInRange
  <2>2. CASE ProcessCommand
    <3>1. ASSUME NEW m \in Messages, NEW r \in Reply, AnsweredWith(m, r)
          PROVE  InRange(data')
      BY <3>1, CommandsFit, OverInRange DEF AnsweredWith, Refused, Ran
    <3> QED
      BY <2>2, <3>1, OneAnswer DEF Ignored
  <2>3. CASE Ignored
    BY <2>3 DEF Ignored
  <2> QED
    BY <2>1, <2>2, <2>3, OthersIgnore
<1> QED
  BY <1>1, <1>2 DEF InRange, Possible, Languages, IsLiteDevice

\* What appending to a sequence leaves.
LEMMA Appended ==
    ASSUME NEW S, NEW s \in Seq(S), NEW e \in S
    PROVE  /\ Len(s) \in Nat /\ Len(Append(s, e)) = Len(s) + 1
           /\ Append(s, e)[Len(s) + 1] = e
           /\ \A i \in 1 .. Len(s) : Append(s, e)[i] = s[i]
BY AppendProperties

\* Each message that is handled is answered once, under its name or none.
LEMMA AnswerStep ==
    ASSUME TypeOK, AnsweredInOrder, [Next]_vars
    PROVE  AnsweredInOrder'
<1>0. /\ handled \in Seq(Messages) /\ answers \in Seq(Reply)
      /\ Len(handled) \in Nat /\ Len(answers) = Len(handled)
      /\ \A i \in 1 .. Len(handled) : answers[i].command \in {handled[i].command, ""}
  <2>1. handled \in Seq(Messages) /\ answers \in Seq(Reply)
    BY DEF TypeOK
  <2>2. Len(handled) \in Nat
    BY <2>1
  <2>3. /\ Len(answers) = Len(handled)
        /\ \A i \in 1 .. Len(handled) : answers[i].command \in {handled[i].command, ""}
    BY Zenon DEF AnsweredInOrder
  <2> QED
    BY <2>1, <2>2, <2>3
<1>1. ASSUME NEW m \in Messages, NEW r \in Reply, AnsweredWith(m, r)
      PROVE  AnsweredInOrder'
  <2> HIDE DEF Reply
  <2>1. /\ handled' = Append(handled, m) /\ answers' = Append(answers, r)
        /\ r.command \in {m.command, ""}
    BY <1>1 DEF AnsweredWith
  <2>2. /\ Len(handled') = Len(handled) + 1 /\ handled'[Len(handled) + 1] = m
        /\ \A i \in 1 .. Len(handled) : handled'[i] = handled[i]
    BY <1>0, <2>1, Appended
  <2>3. /\ Len(answers') = Len(answers) + 1 /\ answers'[Len(answers) + 1] = r
        /\ \A i \in 1 .. Len(answers) : answers'[i] = answers[i]
    BY <1>0, <2>1, Appended
  <2>4. Len(answers') = Len(handled')
    BY <1>0, <2>2, <2>3
  <2>5. ASSUME NEW i \in 1 .. Len(handled')
        PROVE  answers'[i].command \in {handled'[i].command, ""}
    <3>1. CASE i \in 1 .. Len(handled)
      BY <1>0, <2>2, <2>3, <3>1
    <3>2. CASE i = Len(handled) + 1
      BY <1>0, <2>1, <2>2, <2>3, <3>2
    <3>3. i \in 1 .. Len(handled) \/ i = Len(handled) + 1
      <4>1. Len(handled) \in Nat /\ Len(handled') = Len(handled) + 1
        BY <1>0, <2>2
      <4> QED
        BY <4>1
    <3> QED
      BY <3>1, <3>2, <3>3
  <2> QED
    BY <2>4, <2>5 DEF AnsweredInOrder
<1>2. CASE UNCHANGED <<handled, answers>>
  BY <1>2 DEF AnsweredInOrder
<1> QED
  BY <1>1, <1>2, OneAnswer, OthersIgnore DEF Ignored

\* What was answered true last is what is stored.
LEMMA StoredStep ==
    ASSUME TypeOK, FileFirst, AnsweredInOrder, StoredAsSent, [Next]_vars
    PROVE  StoredAsSent'
<1>0. handled \in Seq(Messages) /\ answers \in Seq(Reply) /\ Len(answers) = Len(handled)
  BY DEF TypeOK, AnsweredInOrder
<1>1. ASSUME NEW m \in Messages, NEW r \in Reply, AnsweredWith(m, r)
      PROVE  StoredAsSent'
  <2>0. handled' = Append(handled, m) /\ answers' = Append(answers, r)
    BY <1>1 DEF AnsweredWith
  <2>1. Len(handled') = Len(handled) + 1 /\ handled'[Len(handled')] = m
    BY <1>0, <2>0, Appended
  <2>1a. answers'[Len(handled')] = r
    BY <1>0, <2>0, <2>1, Appended
  <2> SUFFICES ASSUME m.type = "set", m.command \in DOMAIN StoredAs, r.result = "true"
               PROVE  LET type == StoredAs[m.command]
                          v == Given(m.args, m.command)
                      IN  \/ data'[type] = v
                          \/ type \in {"BRIGHTNESS_VALUE", "SUMSTEP_VALUE"} /\ v \notin Ranges[type]
    BY <2>1, <2>1a DEF StoredAsSent, LastStored
  <2> DEFINE h == CommandOf(m.command, m.args)["set"]
             type == StoredAs[m.command]
             v == Given(m.args, m.command)
  <2>2. Ran(m, r)
    BY <1>1 DEF AnsweredWith, Refused, Refusals
  <2>3. h.ok /\ data' = Over(h.assigns, data)
    BY <2>2 DEF Ran
  <2>4. Stores(h, type, v)
    BY MessageStored
  <2>5. CASE h.assigns = Only(type, v)
    <3>1. Over(Only(type, v), data)[type] = v
      BY DEF Over, Only
    <3> QED
      BY <2>3, <2>5, <3>1
  <2> QED
    BY <2>3, <2>4, <2>5 DEF Stores
<1>2. CASE UNCHANGED <<handled, answers, data, typeMap>>
  BY <1>2 DEF StoredAsSent, LastStored
<1>3. CASE handled' = <<>>
  BY <1>3 DEF StoredAsSent, LastStored
<1>4. ApplyConfigMember => handled' = <<>>
  BY OthersIgnore DEF ApplyConfigMember, FileFirst
<1>5. ProcessCommand => typeMap' = typeMap
  BY DEF ProcessCommand
<1> QED
  BY <1>1, <1>2, <1>3, <1>4, <1>5, OneAnswer, OthersIgnore DEF Ignored, FileFirst

-----------------------------------------------------------------------------
\* The strengthening of the theorems below is an invariant of CommandSession.
THEOREM Invariance == Spec => []IInv
<1>1. Init => IInv
  <2> SUFFICES ASSUME Init
               PROVE  IInv
    OBVIOUS
  <2>1. TypeOK
    <3>1. IsData(data)
      <4> DEFINE language == IF IsLiteDevice THEN "zh-CN" ELSE setup.language
      <4>1. data = [InitialData EXCEPT !.LANGUAGE = language]
        BY DEF Init
      <4> HIDE DEF InitialData, language
      <4> QED
        BY <4>1, Zenon DEF IsData
    <3>2. \A S : <<>> \in Seq(S)
      OBVIOUS
    <3> QED
      BY <3>1, <3>2 DEF Init, TypeOK
  <2>2. FileFirst /\ AnsweredInOrder /\ StoredAsSent
    BY DEF Init, FileFirst, AnsweredInOrder, StoredAsSent, LastStored
  <2>3. InRange(data)
    <3>1. /\ DOMAIN data = DOMAIN InitialData
          /\ data["LANGUAGE"] \in Possible /\ data["orientation"] = "portrait"
          /\ \A k \in DOMAIN InitialData \ {"LANGUAGE"} : data[k] = InitialData[k]
      <4>1. /\ DOMAIN InitialData = DOMAIN data /\ "LANGUAGE" \in DOMAIN InitialData
            /\ data["LANGUAGE"] = IF IsLiteDevice THEN "zh-CN" ELSE setup.language
            /\ \A k \in DOMAIN InitialData \ {"LANGUAGE"} : data[k] = InitialData[k]
        <5>1. "LANGUAGE" \in DOMAIN InitialData
          BY DEF InitialData
        <5> QED
          BY <5>1 DEF Init
      <4>2. "zh-CN" \in liteSupportedLanguages
        BY DEF liteSupportedLanguages
      <4>3. /\ "orientation" \in DOMAIN InitialData \ {"LANGUAGE"}
            /\ InitialData["orientation"] = "portrait"
        BY DEF InitialData
      <4> QED
        BY <4>1, <4>2, <4>3 DEF Languages, Possible
    <3>2. \A type \in DOMAIN Ranges :
              type \in DOMAIN InitialData \ {"LANGUAGE"} /\ InitialData[type] \in Ranges[type]
      <4>0. MaxSteps \in Nat /\ MaxPressure \in Nat /\ 101325 <= MaxPressure
        BY SMT DEF MaxSteps, MaxPressure
      <4>1. 0 \in 0 .. MaxSteps /\ 101325 \in 0 .. MaxPressure
        BY <4>0, SMT
      <4>2. /\ DOMAIN Ranges \subseteq DOMAIN InitialData \ {"LANGUAGE"}
            /\ DOMAIN Ranges = {"BRIGHTNESS_VALUE", "BRIGHTNESS_MODE", "BATTERY_STATUS",
                                "BATTERY_LEVEL", "HEARTBEAT_VALUE", "SUMSTEP_VALUE",
                                "PRESSURE_VALUE", "LONGITUDE", "LATITUDE", "KEEP_SCREEN_ON",
                                "WEARING_STATE"}
        BY DEF InitialData, Ranges
      <4>3. ASSUME NEW type \in DOMAIN Ranges
            PROVE  InitialData[type] \in Ranges[type]
        <5>1. CASE type = "SUMSTEP_VALUE"
          BY <4>1, <5>1 DEF InitialData, Ranges
        <5>2. CASE type = "PRESSURE_VALUE"
          BY <4>1, <5>2 DEF InitialData, Ranges
        <5>3. CASE type = "BRIGHTNESS_VALUE"
          BY <5>3, SMT DEF InitialData, Ranges
        <5>4. CASE type = "BRIGHTNESS_MODE"
          BY <5>4, SMT DEF InitialData, Ranges
        <5>5. CASE type = "BATTERY_STATUS"
          BY <5>5, SMT DEF InitialData, Ranges
        <5>6. CASE type = "BATTERY_LEVEL"
          BY <5>6, SMT DEF InitialData, Ranges
        <5>7. CASE type = "HEARTBEAT_VALUE"
          BY <5>7, SMT DEF InitialData, Ranges
        <5>8. CASE type = "LONGITUDE"
          BY <5>8, SMT DEF InitialData, Ranges
        <5>9. CASE type = "LATITUDE"
          BY <5>9, SMT DEF InitialData, Ranges
        <5>10. CASE type = "KEEP_SCREEN_ON"
          BY <5>10, SMT DEF InitialData, Ranges
        <5>11. CASE type = "WEARING_STATE"
          BY <5>11, SMT DEF InitialData, Ranges
        <5> QED
          BY <4>2, <5>1, <5>2, <5>3, <5>4, <5>5, <5>6, <5>7, <5>8, <5>9, <5>10, <5>11
      <4> QED
        BY <4>2, <4>3
    <3> QED
      BY <3>1, <3>2 DEF InRange
  <2> QED
    BY <2>1, <2>2, <2>3 DEF IInv
<1>2. IInv /\ [Next]_vars => IInv'
  BY TypeStep, FileStep, RangeStep, AnswerStep, StoredStep DEF IInv
<1> QED
  BY <1>1, <1>2, PTL DEF Spec

\* Whatever messages, configuration files and setups there are, every value of
\* SharedData stays in the range InitSharedData gives it.
THEOREM ValuesInRange == Spec => []DataInRange
<1>1. IInv => DataInRange
  <2>1. DOMAIN Ranges \subseteq DOMAIN InitialData
        /\ {"LANGUAGE", "orientation"} \subseteq DOMAIN InitialData
    BY DEF Ranges, InitialData
  <2> QED
    BY <2>1 DEF IInv, TypeOK, IsData, InRange, DataInRange, Languages, Possible
<1> QED
  BY <1>1, Invariance, PTL

\* The IDE can match answers to messages by their order.
THEOREM AnswersMatch == Spec => []AnsweredInOrder
BY Invariance, PTL DEF IInv

\* A value command that was answered true has stored what it was given, with
\* the exceptions of Brightness and StepCount out of their range.
THEOREM ArgumentsKept == Spec => []StoredAsSent
BY Invariance, PTL DEF IInv

\* A message that is answered false or unsupported stores nothing, and calls
\* nothing but the engine that refuses a MemoryRefresh: CheckAndRun checks before
\* it runs, and no other handler answers like a refusal.
THEOREM RefusalsAreClean == Spec => RefusalChangesNothing
<1> DEFINE Asked(r) == r.command = "MemoryRefresh" /\ calls' = calls \o <<"MemoryRefresh">>
           Clean == \A i \in Len(answers) + 1 .. Len(answers') :
                       answers'[i].result \in {"false", "unsupported"} =>
                           /\ UNCHANGED data
                           /\ calls' = calls \/ /\ answers'[i].command = "MemoryRefresh"
                                                /\ calls' = calls \o <<"MemoryRefresh">>
<1>1. IInv /\ [Next]_vars => [Clean]_vars
  <2> SUFFICES ASSUME IInv, [Next]_vars
               PROVE  Clean
    OBVIOUS
  <2>0. answers \in Seq(Reply) /\ Len(answers) \in Nat
    BY DEF IInv, TypeOK
  <2>1. ASSUME NEW m \in Messages, NEW r \in Reply, AnsweredWith(m, r)
        PROVE  Clean
    <3>1. Len(answers') = Len(answers) + 1 /\ answers'[Len(answers) + 1] = r
      BY <2>0, <2>1, AppendProperties DEF AnsweredWith
    <3>2. ASSUME Ran(m, r), r.result \in Refusals
          PROVE  UNCHANGED data /\ Asked(r)
      <4> DEFINE h == CommandOf(m.command, m.args)[m.type]
      <4>1. h.result \in Results \/ (m.command = "MemoryRefresh" /\ Asks(h))
        BY <3>2, CommandsFit DEF Ran
      <4>2. /\ r.result \in Outcomes(h.result) /\ r.command = (IF h.named THEN m.command ELSE "")
            /\ data' = Over(h.assigns, data) /\ calls' = calls \o h.calls
        BY <3>2 DEF Ran
      <4> HIDE DEF h
      <4>3. m.command = "MemoryRefresh" /\ Asks(h)
        BY <3>2, <4>1, <4>2 DEF Outcomes, Results, Refusals
      <4>4. Over(Nothing, data) = data
        <5>1. data = [k \in DOMAIN data |-> data[k]]
          BY DEF IInv, TypeOK, IsData
        <5> QED
          BY <5>1 DEF Over, Nothing
      <4> QED
        BY <4>2, <4>3, <4>4 DEF Asks
    <3>3. r.result \in Refusals => UNCHANGED data /\ (calls' = calls \/ Asked(r))
      BY <2>1, <3>2 DEF AnsweredWith, Refused
    <3> QED
      BY <2>0, <3>1, <3>3 DEF Refusals
  <2>2. CASE answers' = answers
    BY <2>0, <2>2
  <2> QED
    BY <2>1, <2>2, OneAnswer, OthersIgnore DEF IInv, Ignored
<1> QED
  BY <1>1, Invariance, PTL DEF Spec, RefusalChangesNothing
=============================================================================
