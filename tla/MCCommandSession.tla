-------------------------- MODULE MCCommandSession --------------------------
(* For every command the messages that its checks tell apart: a legal one,   *)
(* the boundary values, and arguments of a wrong type or missing.            *)
EXTENDS CommandSession, TLC

Value(t, n, s) == [t |-> t, n |-> n, s |-> s]
I(n) == Value("int", n, "")
D(n) == Value("digits", n, "")
R(tenths) == Value("real", tenths, "")
RS(tenths) == Value("realstring", tenths, "")
B(n) == Value("bool", n, "")
T(n) == Value("boolstring", n, "")
S(s) == Value("str", 0, s)
A(e) == [t |-> "array", n |-> 0, s |-> "", e |-> e]
Message(command, type, args) ==
    [command |-> command, type |-> type, args |-> args, valid |-> TRUE]
Each(command, type, values) == {Message(command, type, command :> v) : v \in values}
XY(x, y) == [x |-> I(x), y |-> I(y)]

Plain == {Message(c, "action", Nothing) : c \in {"exit", "MouseRelease", "inspector", "MousePress"}}
    \cup {Message(c, "get", Nothing) : c \in {"SupportedLanguages", "Power", "Orientation", "CurrentRouter"}}
    \cup {Message(c, "set", Nothing) : c \in {"Resolution", "MemoryRefresh", "nonsense", "ReloadRuntimePage"}}
    \cup {Message("exit", "other", Nothing), [Message("exit", "action", Nothing) EXCEPT !.valid = FALSE]}
Events ==
    {Message("MousePress", "action", XY(x, y)) : x \in {0, Width, Width + 1}, y \in {0, -1}}
    \cup {Message("PointEvent", "action",
            XY(0, 0) @@ [button |-> I(b), action |-> I(0), sourceType |-> I(0),
                         sourceTool |-> I(-1), axisValues |-> A({v})]) : b \in {-1, -2}, v \in {I(1), S("")}}
    \cup {Message("KeyPress", "action", [isInputMethod |-> B(0), keyCode |-> I(k), keyAction |-> I(0),
                                          pressedCodes |-> A({v})]) : k \in {2000, 2120}, v \in {I(2000), S("")}}
    \cup {Message("KeyPress", "action", [isInputMethod |-> B(1), codePoint |-> I(65)])}
LiteSets ==
    Each("Power", "set", {R(3), R(11), I(1), I(2)}) \cup Each("Volume", "set", {R(3)})
    \cup Each("Barometer", "set", {D(999900), D(999901), I(5)})
    \cup Each("KeepScreenOnState", "set", {B(0), I(0)}) \cup Each("WearingState", "set", {T(0)})
    \cup Each("BrightnessMode", "set", {I(1), I(2), I(10)}) \cup Each("ChargeMode", "set", {D(1), I(2)})
    \cup Each("Brightness", "set", {I(1), I(0), I(300), I(-1)})
    \cup Each("HeartRate", "set", {I(255), I(300)})
    \cup Each("StepCount", "set", {I(80), I(999999), I(1000000)})
    \cup Each("CrownRotate", "action", {D(5), R(100)})
    \cup Each("Language", "set", {S("en-US"), S("en_US")})
    \cup {Message("Location", "set", [latitude |-> RS(y), longitude |-> R(x)])
             : y \in {900, 901}, x \in {1800, 1801}}
    \cup {Message("DistributedCommunications", "action",
            [DeviceId |-> I(1), bundleName |-> S("b"), abilityName |-> S("c"), message |-> S(m)])
            : m \in {"d", ""}}
Switch(w) == [originWidth |-> I(w), originHeight |-> I(50), width |-> I(50), height |-> I(3000),
              screenDensity |-> I(640)]
Document(locale, dpi) ==
    [url |-> S("u"), className |-> S("c"), locale |-> S(locale), colorMode |-> S("dark"),
     orientation |-> S("landscape"), deviceType |-> S("car"), width |-> I(20), height |-> I(20),
     dpi |-> I(dpi)]
RichSets ==
    Each("ColorMode", "set", {S("light"), S("dark"), S("grey")})
    \cup Each("Orientation", "set", {S("portrait"), S("landscape"), I(1)})
    \cup Each("FontSelect", "set", {B(1), S("")}) \cup Each("MemoryRefresh", "set", {S("tree")})
    \cup Each("ReloadRuntimePage", "set", {S("pages")})
    \cup {Message("ResolutionSwitch", "set", Switch(w)) : w \in {50, 49}}
    \cup {Message("LoadDocument", "set", Document(l, d)) : l \in {"en_US", "en-US"}, d \in {640, 641}}
    \cup {Message("DropFrame", "set", [frequency |-> I(f)]) : f \in {5, -1}}
    \cup {Message("BackClicked", "action", Nothing), Message("inspectorDefault", "action", Nothing)}
MCMessages == Plain \cup Events \cup LiteSets \cup RichSets

Setup(device, language, static, card, whole) ==
    [device |-> device, language |-> language, static |-> static, card |-> card, whole |-> whole]
MCSetups == {Setup("liteWearable", "zh_CN", FALSE, FALSE, FALSE),
             Setup("smartVision", "zh_CN", TRUE, FALSE, TRUE),
             Setup("phone", "xx_XX", FALSE, FALSE, TRUE), Setup("phone", "zh_CN", TRUE, TRUE, TRUE),
             Setup("", "zh_CN", FALSE, FALSE, TRUE)}

Member(command, v) == [command |-> command, args |-> command :> v]
MCConfigs == {<<>>, <<Member("Brightness", I(300)), Member("StepCount", I(1000000)),
                      Member("Language", S("en-US")), Member("ColorMode", S("dark")),
                      Member("HeartRate", I(300))>>}
=============================================================================
