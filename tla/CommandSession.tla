--------------------------- MODULE CommandSession ---------------------------
(***************************************************************************)
(* The command interface: CommandLineInterface reads a message of the IDE  *)
(* from the command pipe, CommandLineFactory creates the command that is   *)
(* registered for the device under its name, and CommandLine checks the    *)
(* arguments, runs it and answers (directory cli).  The configuration file *)
(* is applied through the same commands, and the engine's callbacks send   *)
(* their notices through them.                                             *)
(*                                                                         *)
(* A value of the JSON library is its type t with a number n or a string   *)
(* s; a real number is given in tenths; strings of digits, of a real       *)
(* number, and of true or false are types of their own.  Calls into other  *)
(* components are recorded by name, answers by kind; the counts of events  *)
(* per minute are left out.  The members of previewParam stand among those *)
(* of args.                                                                *)
(***************************************************************************)
EXTENDS Integers, Sequences

CONSTANTS Setups,       (* what StartParameters hands on, and the IDE's way *)
                        (* of writing: see SetupsAssumption                *)
          Messages,     (* what the IDE may send                           *)
          Configs,      (* the commands of a configuration file, in order  *)
          MaxMessages,  (* bound on the messages sent                      *)
          MaxNotices,   (* bound on the callbacks of the engine            *)
          Width, Height (* of the original screen                          *)

\* Members that a command takes as strings whatever their type.
Strings == {"Power", "rotate", "latitude", "longitude", "DeviceId", "bundleName", "abilityName",
            "message", "KeepScreenOnState", "WearingState", "BrightnessMode", "ChargeMode",
            "Brightness", "HeartRate", "StepCount"}

ASSUME SetupsAssumption ==
    \A s \in Setups : /\ s.device \in STRING   \* CommandParser::deviceType
                      /\ s.language \in STRING \* the value of -l, or "zh_CN"
                      /\ s.static \in BOOLEAN  \* ScreenMode::STATIC
                      /\ s.card \in BOOLEAN    \* IsStaticCard
                      /\ s.whole \in BOOLEAN   \* every message in one write
\* A value is a number wherever a command converts it to one, and what converts
\* to a bool is 0 or 1.  The JSON library throws when Power, checked as a string,
\* is a string, and nothing catches that: such a message is left out, and so is
\* an array or an object where a command converts to a string.
ASSUME MessagesAssumption ==
    \A m \in Messages : \A k \in DOMAIN m.args :
        /\ m.args[k].n \in Int
        /\ k = "Power" => m.args[k].t \notin {"digits", "realstring"}
        /\ k \in Strings => m.args[k].t \notin {"array", "object"}
        /\ m.args[k].t \in {"bool", "boolstring"} => m.args[k].n \in 0 .. 1
ASSUME BoundsAssumption == {MaxMessages, MaxNotices, Width, Height} \subseteq Nat

VARIABLES
    setup,     (* of Setups                                                *)
    config,    (* the part of the configuration file not yet applied       *)
    typeMap,   (* the registered commands                                  *)
    pipe,      (* the pieces of messages that wait to be read              *)
    rest,      (* the message of which the IDE has written the front only  *)
    sent,      (* the number of messages sent                              *)
    handled,   (* the messages that reached the factory                    *)
    data,      (* the values of SharedData and of the application          *)
    calls,     (* the calls made by commands                               *)
    answers,   (* what the IDE was sent back for messages                  *)
    notices    (* what it was sent unasked                                 *)

vars == <<setup, config, typeMap, pipe, rest, sent, handled, data, calls, answers, notices>>

liteDevice == {"liteWearable", "smartVision"}
liteSupportedLanguages == {"zh-CN", "en-US"}
richSupportedLanguages == {"zh_CN", "zh_HK", "zh_TW", "en_US", "en_GB", "ar_AE", "bg_BG", "bo_CN",
    "cs_CZ", "da_DK", "de_DE", "el_GR", "en_PH", "es_ES", "es_LA", "fi_FI", "fr_FR", "he_IL",
    "hi_IN", "hu_HU", "id_ID", "it_IT", "ja_JP", "kk_KZ", "ms_MY", "nl_NL", "no_NO", "pl_PL",
    "pt_BR", "pt_PT", "ro_RO", "ru_RU", "sr_RS", "sv_SE", "th_TH", "tr_TR", "ug_CN", "uk_UA", "vi_VN"}
LoadDocDevs == {"phone", "tablet", "wearable", "car", "tv", "2in1", "default"}
Sizes == 50 .. 3000
LoadDocSizes == 20 .. 3000
Dpis == 120 .. 640
Keys == 2000 .. 2119
KeyActions == 0 .. 2

\* InitSharedData of the thin previewer: the values and their ranges.
MaxSteps == 999999
MaxPressure == 999900
Ranges == [BRIGHTNESS_VALUE |-> 1 .. 255, BRIGHTNESS_MODE |-> 0 .. 1, BATTERY_STATUS |-> 0 .. 1,
           BATTERY_LEVEL |-> 0 .. 10, HEARTBEAT_VALUE |-> 0 .. 255, SUMSTEP_VALUE |-> 0 .. MaxSteps,
           PRESSURE_VALUE |-> 0 .. MaxPressure, LONGITUDE |-> -1800 .. 1800, LATITUDE |-> -900 .. 900,
           KEEP_SCREEN_ON |-> 0 .. 1, WEARING_STATE |-> 0 .. 1]
InitialData == [BRIGHTNESS_VALUE |-> 255, BRIGHTNESS_MODE |-> 0, BATTERY_STATUS |-> 0,
                BATTERY_LEVEL |-> 10, HEARTBEAT_VALUE |-> 80, SUMSTEP_VALUE |-> 0,
                PRESSURE_VALUE |-> 101325, LONGITUDE |-> 0, LATITUDE |-> 0, KEEP_SCREEN_ON |-> 1,
                WEARING_STATE |-> 1, LANGUAGE |-> "zh-CN", orientation |-> "portrait", colorMode |-> "",
                dropFrameFrequency |-> 0]

IsLiteDevice == setup.device \in liteDevice

\* InitCommandMap
RichCommands == {"BackClicked", "inspector", "inspectorDefault", "ColorMode", "Orientation",
    "ResolutionSwitch", "CurrentRouter", "ReloadRuntimePage", "FontSelect", "MemoryRefresh",
    "LoadDocument", "FastPreviewMsg", "DropFrame", "KeyPress", "LoadContent"}
LiteCommands == {"Power", "Volume", "Barometer", "Location", "KeepScreenOnState", "WearingState",
    "BrightnessMode", "ChargeMode", "Brightness", "HeartRate", "StepCount",
    "DistributedCommunications", "CrownRotate"}
CommonCommands == {"MousePress", "MouseRelease", "MouseMove", "Language", "SupportedLanguages",
    "exit", "Resolution", "DeviceType", "PointEvent"}
InitCommandMap ==
    CommonCommands \cup (IF IsLiteDevice THEN LiteCommands ELSE RichCommands)

Init ==
    /\ setup \in Setups
    /\ config \in IF IsLiteDevice THEN Configs ELSE {<<>>}
    /\ typeMap = {} /\ pipe = <<>> /\ rest = <<>> /\ sent = 0 /\ handled = <<>>
    /\ data = [InitialData EXCEPT !.LANGUAGE = IF IsLiteDevice THEN "zh-CN" ELSE setup.language]
    /\ calls = <<>> /\ answers = <<>> /\ notices = <<>>

-----------------------------------------------------------------------------
\* What a command does, for each of the types set, get and action: whether
\* the arguments pass, what it assigns and calls, and its answer.  A handler
\* that the class does not override passes, does nothing, and leaves the
\* constructor's answer, which does not name the command.
Nothing == [x \in {} |-> 0]
Only(key, value) == [k \in {key} |-> value]
Over(f, g) == [k \in DOMAIN f \cup DOMAIN g |-> IF k \in DOMAIN f THEN f[k] ELSE g[k]]
Default == [ok |-> TRUE, assigns |-> Nothing, calls |-> <<>>, result |-> "true", named |-> FALSE]
Answers(result) == [Default EXCEPT !.result = result, !.named = TRUE]
Does(ok, assigns, called) ==
    [ok |-> ok, assigns |-> assigns, calls |-> called, result |-> "true", named |-> TRUE]

OnSet(h) == [set |-> h, get |-> Default, action |-> Default]
OnGet(h) == [set |-> Default, get |-> h, action |-> Default]
OnAction(h) == [set |-> Default, get |-> Default, action |-> h]

\* Arguments.  Of a member that is missing, asString is "" and atoi 0.
Has(a, names, types) == \A m \in names : m \in DOMAIN a /\ a[m].t \in types
Num(a, m) == IF m \in DOMAIN a THEN a[m].n ELSE 0
Text(a, m) == IF m \in DOMAIN a THEN a[m].s ELSE ""
IsIntType(a, m) == Has(a, {m}, {"int", "digits"}) /\ a[m].n >= 0
IsOneDigit(a, m) == IsIntType(a, m) /\ a[m].n <= 9
\* The value in tenths of a member that is converted to a double.
Tenths(a, m) == IF Has(a, {m}, {"real", "realstring"}) THEN Num(a, m) ELSE 10 * Num(a, m)
IsOneDigitFloatType(a, m) ==
    Has(a, {m}, {"real", "realstring", "int", "digits"}) /\ Tenths(a, m) \in 0 .. 99
IsBoolType(a, m) == Has(a, {m}, {"bool", "boolstring"})
ToUint8(n) == n % 256

IsValid(type, n) == n \in Ranges[type]
\* Mutant: whatever is given is stored.
StoreUnchecked(type, n) == Only(type, n)
\* SharedData: a value outside its range is not stored, and nobody is told.
SetData(type, n) == IF IsValid(type, n) THEN Only(type, n) ELSE Nothing
\* A command with a value of SharedData: set stores it, get reads it.
Shared(type, ok, n) ==
    [set |-> Does(ok, SetData(type, n), <<>>), get |-> Answers("value"), action |-> Default]

-----------------------------------------------------------------------------
\* The commands, one operator for each class.
\* SetEventParams dispatches nothing while the screen is static.
SetEventParams(event) == IF setup.static THEN <<>> ELSE <<event>>
OnScreen(a) == /\ Has(a, {"x", "y"}, {"int"})
               /\ Num(a, "x") \in 0 .. Width /\ Num(a, "y") \in 0 .. Height
TouchPressCommand(a) == OnAction(Does(OnScreen(a), Nothing, SetEventParams("TouchPress")))
TouchReleaseCommand == OnAction(Does(TRUE, Nothing, SetEventParams("TouchRelease")))
TouchMoveCommand(a) == OnAction(Does(OnScreen(a), Nothing, SetEventParams("TouchMove")))
\* In static mode RunAction returns before it sets a result.
UnlessStatic(h) == IF setup.static THEN [Default EXCEPT !.ok = h.ok] ELSE h
MouseWheelCommand(a) ==
    OnAction(UnlessStatic(Does(IsOneDigitFloatType(a, "rotate"), Nothing, <<"SetRotate">>)))

PowerCommand(a) == Shared("BATTERY_LEVEL",
    IsOneDigitFloatType(a, "Power") /\ IsValid("BATTERY_LEVEL", Tenths(a, "Power")),
    Tenths(a, "Power"))
VolumeCommand ==
    [set |-> Answers("offline"), get |-> Answers("offline"), action |-> Default]
BarometerCommand(a) == Shared("PRESSURE_VALUE",
    Has(a, {"Barometer"}, {"digits"}) /\ IsValid("PRESSURE_VALUE", Num(a, "Barometer")),
    Num(a, "Barometer"))
ResolutionSwitchCommand(a) == OnSet(Does(
    /\ Has(a, {"originWidth", "originHeight", "width", "height", "screenDensity"}, {"int"})
    /\ \A m \in {"originWidth", "originHeight", "width", "height"} : Num(a, m) \in Sizes
    /\ Num(a, "screenDensity") \in Dpis,
    Nothing, <<"ResolutionChanged">>))
\* A mode or orientation that is the current one changes nothing.
Change(a, m, key, choices, call) ==
    LET new == Text(a, m) IN
    OnSet(Does(Has(a, {m}, {"str"}) /\ new \in choices, Only(key, new),
               IF new # data[key] THEN <<call>> ELSE <<>>))
OrientationCommand(a) ==
    Change(a, "Orientation", "orientation", {"portrait", "landscape"}, "OrientationChanged")
ColorModeCommand(a) == Change(a, "ColorMode", "colorMode", {"light", "dark"}, "ColorModeChanged")
FontSelectCommand(a) == OnSet(Does(Has(a, {"FontSelect"}, {"bool"}), Nothing, <<>>))
\* The engine is called, and what it says is the answer.
MemoryRefreshCommand(a) ==
    OnSet([Does(DOMAIN a # {}, Nothing, <<"MemoryRefresh">>) EXCEPT !.result = "engine"])
LoadDocumentCommand(a) ==
    LET typesValid == /\ Has(a, {"url", "className", "locale", "colorMode", "orientation",
                                 "deviceType"}, {"str"})
                      /\ Has(a, {"width", "height", "dpi"}, {"int"})
        intsValid == /\ {Num(a, "width"), Num(a, "height")} \subseteq LoadDocSizes
                     /\ Num(a, "dpi") \in Dpis
        stringsValid ==
            /\ Text(a, "locale") \in IF IsLiteDevice THEN liteSupportedLanguages
                                                     ELSE richSupportedLanguages
            /\ Text(a, "colorMode") \in {"light", "dark"}
            /\ Text(a, "orientation") \in {"portrait", "landscape"}
            /\ Text(a, "deviceType") \in LoadDocDevs
    IN  OnSet(Does(typesValid /\ intsValid /\ stringsValid, Nothing,
                   <<"LoadDocType::START", "LoadDocument", "LoadDocType::FINISHED">>))
ReloadRuntimePageCommand(a) ==
    OnSet(Does(Has(a, {"ReloadRuntimePage"}, {"str"}), Nothing, <<"ReloadRuntimePage">>))
\* These three fill only the message to the manager (see Notify).
CurrentRouterCommand == OnGet(Default)
LoadContentCommand == OnGet(Default)
FastPreviewMsgCommand == OnGet(Default)

LanguageCommand(a) ==
    [set |-> Does(/\ Has(a, {"Language"}, {"str"})
                  /\ Text(a, "Language") \in IF IsLiteDevice THEN liteSupportedLanguages
                                                             ELSE richSupportedLanguages,
                  Only("LANGUAGE", Text(a, "Language")), <<>>),
     get |-> Answers("value"), action |-> Default]
SupportedLanguagesCommand ==
    OnGet(Answers(IF setup.device # "" /\ ~IsLiteDevice THEN "rich languages" ELSE "lite languages"))
\* Both values are checked before either is stored.
LocationCommand(a) ==
    [Shared("LATITUDE",
            /\ Has(a, {"latitude", "longitude"}, {"real", "realstring"})
            /\ IsValid("LATITUDE", Num(a, "latitude")) /\ IsValid("LONGITUDE", Num(a, "longitude")),
            Num(a, "latitude"))
     EXCEPT !.set.assigns = Over(SetData("LONGITUDE", Num(a, "longitude")), @)]
\* Whatever converts to a string that is not empty is taken.
DistributedCommunicationsCommand(a) ==
    LET members == {"DeviceId", "bundleName", "abilityName", "message"} IN
    OnAction(Does(\A m \in members : m \in DOMAIN a /\ (a[m].t = "str" => Text(a, m) # ""),
                  Nothing, <<"SendVirtualMessage">>))
KeepScreenOnStateCommand(a) ==
    Shared("KEEP_SCREEN_ON", IsBoolType(a, "KeepScreenOnState"), Num(a, "KeepScreenOnState"))
WearingStateCommand(a) ==
    Shared("WEARING_STATE", IsBoolType(a, "WearingState"), Num(a, "WearingState"))

\* The uint8_t values are checked, and stored, modulo 256.
Byte(type, ok, n) == Shared(type, ok /\ IsValid(type, ToUint8(n)), ToUint8(n))
BrightnessModeCommand(a) ==
    Byte("BRIGHTNESS_MODE", IsOneDigit(a, "BrightnessMode"), Num(a, "BrightnessMode"))
ChargeModeCommand(a) == Byte("BATTERY_STATUS", IsOneDigit(a, "ChargeMode"), Num(a, "ChargeMode"))
BrightnessCommand(a) ==
    Byte("BRIGHTNESS_VALUE", IsIntType(a, "Brightness"), Num(a, "Brightness"))
\* Mutant: without the comparison with UINT8_MAX.
HeartRateOverflows(a) ==
    Byte("HEARTBEAT_VALUE", IsIntType(a, "HeartRate"), Num(a, "HeartRate"))
HeartRateCommand(a) ==
    Byte("HEARTBEAT_VALUE", IsIntType(a, "HeartRate") /\ Num(a, "HeartRate") <= 255,
         Num(a, "HeartRate"))
\* Checked modulo 256 too, but handed to SetData whole.
StepCountCommand(a) == Shared("SUMSTEP_VALUE",
    IsIntType(a, "StepCount") /\ IsValid("SUMSTEP_VALUE", ToUint8(Num(a, "StepCount"))),
    Num(a, "StepCount"))

InspectorJSONTree == OnAction([Answers("tree") EXCEPT !.calls = <<"GetJSONTree">>])
InspectorDefault == OnAction([Answers("tree") EXCEPT !.calls = <<"GetDefaultJSONTree">>])
ExitCommand == OnAction(Does(TRUE, Nothing, <<"Interrupt">>))
DeviceTypeCommand == OnSet(Default)
ResolutionCommand == OnSet(Default)
BackClickedCommand == OnAction(Does(TRUE, Nothing, <<"DispatchOsBackEvent">>))
DropFrameCommand(a) == OnSet(Does(Has(a, {"frequency"}, {"int"}) /\ Num(a, "frequency") >= 0,
    Only("dropFrameFrequency", Num(a, "frequency")), <<>>))
KeyPressCommand(a) ==
    LET keys == IF Has(a, {"pressedCodes"}, {"array"}) THEN a.pressedCodes.e ELSE {}
        keyValid == /\ Has(a, {"keyCode", "keyAction"}, {"int"})
                    /\ keys # {} /\ \A k \in keys : k.t = "int" /\ k.n \in Keys
                    /\ "keyString" \in DOMAIN a => a.keyString.t = "str"
                    /\ Num(a, "keyAction") \in KeyActions /\ Num(a, "keyCode") \in Keys
        ime == Num(a, "isInputMethod") = 1
    IN  OnAction(UnlessStatic(Does(
            /\ Has(a, {"isInputMethod"}, {"bool"})
            /\ IF ime THEN Has(a, {"codePoint"}, {"int"}) ELSE keyValid,
            Nothing, <<IF ime THEN "DispatchOsInputMethodEvent" ELSE "DispatchOsKeyEvent">>)))
\* IsArgsValid reads "sourcceTool", which is missing and so 0.
PointEventCommand(a) == OnAction(Does(
    /\ OnScreen(a) /\ Has(a, {"button", "action", "sourceType", "sourceTool"}, {"int"})
    /\ Num(a, "button") >= -1 /\ Num(a, "action") >= 0 /\ Num(a, "sourceType") >= 0
    /\ Num(a, "sourcceTool") >= 0
    /\ Has(a, {"axisValues"}, {"array"}) /\ \A v \in a.axisValues.e : v.t \in {"int", "real"},
    Nothing, SetEventParams("PointEvent")))

\* CreateObject for every entry of the map.
CommandOf(c, a) ==
    CASE c = "BackClicked" -> BackClickedCommand
      [] c = "inspector" -> InspectorJSONTree
      [] c = "inspectorDefault" -> InspectorDefault
      [] c = "ColorMode" -> ColorModeCommand(a)
      [] c = "Orientation" -> OrientationCommand(a)
      [] c = "ResolutionSwitch" -> ResolutionSwitchCommand(a)
      [] c = "CurrentRouter" -> CurrentRouterCommand
      [] c = "ReloadRuntimePage" -> ReloadRuntimePageCommand(a)
      [] c = "FontSelect" -> FontSelectCommand(a)
      [] c = "MemoryRefresh" -> MemoryRefreshCommand(a)
      [] c = "LoadDocument" -> LoadDocumentCommand(a)
      [] c = "FastPreviewMsg" -> FastPreviewMsgCommand
      [] c = "DropFrame" -> DropFrameCommand(a)
      [] c = "KeyPress" -> KeyPressCommand(a)
      [] c = "LoadContent" -> LoadContentCommand
      [] c = "Power" -> PowerCommand(a)
      [] c = "Volume" -> VolumeCommand
      [] c = "Barometer" -> BarometerCommand(a)
      [] c = "Location" -> LocationCommand(a)
      [] c = "KeepScreenOnState" -> KeepScreenOnStateCommand(a)
      [] c = "WearingState" -> WearingStateCommand(a)
      [] c = "BrightnessMode" -> BrightnessModeCommand(a)
      [] c = "ChargeMode" -> ChargeModeCommand(a)
      [] c = "Brightness" -> BrightnessCommand(a)
      [] c = "HeartRate" -> HeartRateCommand(a)
      [] c = "StepCount" -> StepCountCommand(a)
      [] c = "DistributedCommunications" -> DistributedCommunicationsCommand(a)
      [] c = "CrownRotate" -> MouseWheelCommand(a)
      [] c = "MousePress" -> TouchPressCommand(a)
      [] c = "MouseRelease" -> TouchReleaseCommand
      [] c = "MouseMove" -> TouchMoveCommand(a)
      [] c = "Language" -> LanguageCommand(a)
      [] c = "SupportedLanguages" -> SupportedLanguagesCommand
      [] c = "exit" -> ExitCommand
      [] c = "Resolution" -> ResolutionCommand
      [] c = "DeviceType" -> DeviceTypeCommand
      [] c = "PointEvent" -> PointEventCommand(a)

-----------------------------------------------------------------------------
Interrupted == \E i \in 1 .. Len(calls) : calls[i] = "Interrupt"
Answer(command, result) == [command |-> command, result |-> result]
Run(h) == data' = Over(h.assigns, data) /\ calls' = calls \o h.calls

\* main: Init registers the commands and connects before anything is applied
\* or read.
Start ==
    /\ typeMap = {}
    /\ typeMap' = InitCommandMap
    /\ UNCHANGED <<setup, config, pipe, rest, sent, handled, data, calls, answers, notices>>

\* ApplyConfigMembers: one member of the file, as a set command without an
\* answer, except that an unknown one is refused to the IDE.
ApplyConfigMember ==
    /\ typeMap # {} /\ config # <<>>
    /\ config' = Tail(config)
    /\ LET m == Head(config)
           h == CommandOf(m.command, m.args).set
       IN  CASE m.command \notin typeMap ->
                  /\ notices' = Append(notices, Answer(m.command, "unsupported"))
                  /\ UNCHANGED <<data, calls>>
             [] m.command \in typeMap /\ h.ok -> Run(h) /\ UNCHANGED notices
             [] m.command \in typeMap /\ ~h.ok -> UNCHANGED <<data, calls, notices>>
    /\ UNCHANGED <<setup, typeMap, pipe, rest, sent, handled, answers>>

\* The IDE writes a message in one piece or, with a pause in it, in two.
Send(m) ==
    /\ sent < MaxMessages /\ sent' = sent + 1 /\ rest = <<>>
    /\ \/ /\ pipe' = Append(pipe, [m |-> m, piece |-> "whole"])
          /\ UNCHANGED rest
       \/ /\ ~setup.whole
          /\ pipe' = Append(pipe, [m |-> m, piece |-> "front"])
          /\ rest' = <<m>>
    /\ UNCHANGED <<setup, config, typeMap, handled, data, calls, answers, notices>>

SendRest ==
    /\ rest # <<>> /\ rest' = <<>>
    /\ pipe' = Append(pipe, [m |-> rest[1], piece |-> "rest"])
    /\ UNCHANGED <<setup, config, typeMap, sent, handled, data, calls, answers, notices>>

\* Mutant: it does not stop at the end of a message.
ReadAll == [used |-> Len(pipe), intact |-> Len(pipe) = 1 /\ Head(pipe).piece = "whole"]

\* LocalSocket's operator>> reads up to the end of a message or of what is
\* there: the front of a message whose rest is still to come is a message.
ReadPipe ==
    LET first == Head(pipe) IN
    CASE first.piece = "whole" -> [used |-> 1, intact |-> TRUE]
      [] first.piece = "front" /\ Len(pipe) > 1 -> [used |-> 2, intact |-> TRUE]
      [] OTHER -> [used |-> 1, intact |-> FALSE]

\* ProcessCommandValidate and GetCommandType: a message that is not JSON, not
\* complete, or of another version or type is dropped without an answer.
ProcessCommandValidate(m, intact) == intact /\ m.valid /\ m.type \in {"set", "get", "action"}
IsStaticIgnoreCmd(c) == c \notin {"ResolutionSwitch"}

\* The answers that a handler may leave: only the engine may refuse.
Outcomes(result) == IF result = "engine" THEN {"true", "false"} ELSE {result}

\* Mutant: the command runs before its arguments are checked.
RunAndCheck(c, h) ==
    Run(h) /\ \E r \in IF h.ok THEN Outcomes(h.result) ELSE {"false"} :
                  answers' = Append(answers, Answer(c, r))
\* Mutant: the answer that exit has sent itself is not cleared.
CheckAndRunKeepingResult(c, h) ==
    IF ~h.ok THEN answers' = Append(answers, Answer(c, "false")) /\ UNCHANGED <<data, calls>>
    ELSE /\ Run(h)
         /\ \E r \in Outcomes(h.result) :
               answers' = answers \o [i \in 1 .. (IF c = "exit" THEN 2 ELSE 1) |->
                                         Answer(IF h.named THEN c ELSE "", r)]
\* exit sends its answer itself, before it interrupts.
CheckAndRun(c, h) ==
    IF ~h.ok THEN answers' = Append(answers, Answer(c, "false")) /\ UNCHANGED <<data, calls>>
    ELSE /\ Run(h)
         /\ \E r \in Outcomes(h.result) :
               answers' = Append(answers, Answer(IF h.named THEN c ELSE "", r))

\* One pass of the command thread: read a message and handle it.
ProcessCommand ==
    /\ typeMap # {} /\ config = <<>> /\ pipe # <<>> /\ ~Interrupted
    /\ LET m == Head(pipe).m
           ignored == \/ ~ProcessCommandValidate(m, ReadPipe.intact)
                      \/ setup.card /\ IsStaticIgnoreCmd(m.command)
       IN  CASE ignored -> UNCHANGED <<handled, data, calls, answers>>
             [] ~ignored /\ m.command \notin typeMap ->
                  /\ handled' = Append(handled, m)
                  /\ answers' = Append(answers, Answer(m.command, "unsupported"))
                  /\ UNCHANGED <<data, calls>>
             [] ~ignored /\ m.command \in typeMap ->
                  /\ handled' = Append(handled, m)
                  /\ CheckAndRun(m.command, CommandOf(m.command, m.args)[m.type])
    /\ pipe' = SubSeq(pipe, ReadPipe.used + 1, Len(pipe))
    /\ UNCHANGED <<setup, config, typeMap, rest, sent, notices>>

\* The engine's threads report a page, a content or a fast preview through a
\* get command (PageCallBack, LoadContentCallBack, FastPreviewCallBack).
MessageType == [CurrentRouter |-> "CurrentJsRouter", LoadContent |-> "AbilityCurrentJsRouter",
                FastPreviewMsg |-> "MemoryRefresh"]
CreatCommandToSendData(c) ==
    /\ ~IsLiteDevice /\ typeMap # {} /\ Len(notices) < MaxNotices
    /\ notices' = Append(notices,
           IF c \in typeMap THEN Answer(MessageType[c], "value") ELSE Answer(c, "unsupported"))
    /\ UNCHANGED <<setup, config, typeMap, pipe, rest, sent, handled, data, calls, answers>>

Next ==
    \/ Start \/ ApplyConfigMember \/ ProcessCommand
    \/ \E m \in Messages : Send(m)
    \/ SendRest
    \/ \E c \in DOMAIN MessageType : CreatCommandToSendData(c)

Spec == Init /\ [][Next]_vars

\* main, and the loop that it or the command thread runs, are scheduled; the
\* IDE and the engine need not do anything.
FairSpec == Spec /\ WF_vars(Start \/ ApplyConfigMember \/ ProcessCommand)

-----------------------------------------------------------------------------
\* Every value of SharedData stays in the range that ThinPreviewer.cpp gives
\* it, whatever the commands and the file ask for, and the language is one that
\* the device supports; only the rich previewer's -l, which is not checked, can
\* give it another to start with.
DataInRange ==
    /\ \A type \in DOMAIN Ranges : data[type] \in Ranges[type]
    /\ data.LANGUAGE \in IF IsLiteDevice THEN liteSupportedLanguages
                                           ELSE richSupportedLanguages \cup {setup.language}
    /\ data.orientation \in {"portrait", "landscape"}

\* The IDE matches answers to messages by their order: each message that
\* reaches the factory is answered once, under its name or, where the command
\* has no handler or is suppressed, under none (CheckAndRun, SendResult).
AnsweredInOrder ==
    /\ Len(answers) = Len(handled)
    /\ \A i \in 1 .. Len(handled) : answers[i].command \in {handled[i].command, ""}

\* A command that is answered false or unsupported has stored nothing and called
\* nothing: only MemoryRefresh may have been refused by the engine, which it has
\* called for that.
RefusalChangesNothing ==
    [][\A i \in Len(answers) + 1 .. Len(answers') :
           answers'[i].result \in {"false", "unsupported"} =>
               /\ UNCHANGED data
               /\ calls' = calls \/ /\ answers'[i].command = "MemoryRefresh"
                                    /\ calls' = calls \o <<"MemoryRefresh">>]_vars

\* The lite commands whose argument bears their name.
StoredAs == [Power |-> "BATTERY_LEVEL", Barometer |-> "PRESSURE_VALUE",
             KeepScreenOnState |-> "KEEP_SCREEN_ON", WearingState |-> "WEARING_STATE",
             BrightnessMode |-> "BRIGHTNESS_MODE", ChargeMode |-> "BATTERY_STATUS",
             Brightness |-> "BRIGHTNESS_VALUE", HeartRate |-> "HEARTBEAT_VALUE",
             StepCount |-> "SUMSTEP_VALUE"]
Given(a, c) == IF c = "Power" THEN Tenths(a, c) ELSE Num(a, c)
LastStored ==
    LET i == Len(handled) IN
    IF i > 0 /\ handled[i].type = "set" /\ handled[i].command \in typeMap \cap DOMAIN StoredAs
       /\ answers[i].result = "true"
    THEN {[type |-> StoredAs[handled[i].command],
           value |-> Given(handled[i].args, handled[i].command)]}
    ELSE {}

\* A set command that was answered true has stored the value it was given,
\* Brightness and StepCount only where it is in their range, as the checks
\* of these two see it modulo 256.
StoredAsSent ==
    \A s \in LastStored :
        \/ data[s.type] = s.value
        \/ s.type \in {"BRIGHTNESS_VALUE", "SUMSTEP_VALUE"} /\ s.value \notin Ranges[s.type]

\* InitSharedData's comments give every value a range (ThinPreviewer.cpp:103
\* to 124): a value outside it is not accepted.
AcceptedInRange == \A s \in LastStored : s.value \in Ranges[s.type]

\* An exit that was written in one piece stops the previewer, whatever was
\* sent before it; only a static card ignores it.
ExitIsObeyed ==
    ~setup.card /\ (\E i \in 1 .. Len(pipe) : /\ pipe[i].piece = "whole"
                                               /\ pipe[i].m = [command |-> "exit", type |-> "action",
                                                               args |-> Nothing, valid |-> TRUE])
        ~> Interrupted
=============================================================================
