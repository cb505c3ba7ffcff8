--------------------------- MODULE StartParameters ---------------------------
(***************************************************************************)
(* The start of the previewer: util/CommandParser.cpp turns the arguments  *)
(* of main into a map, checks the options one after the other and takes    *)
(* the configuration from them; RichPreviewer.cpp and ThinPreviewer.cpp    *)
(* hand it to the application.  A value is a string of which the model     *)
(* knows the number atoi reads, which of the parser's two regular          *)
(* expressions it matches, and whether a file or directory has that name.  *)
(*                                                                         *)
(* Value indexes the map with operator[], so that asking for an option     *)
(* that was not given makes it set.  Every check says which options it     *)
(* asks for in that way (asks), mostly to log them.                        *)
(***************************************************************************)
EXTENDS Integers, Sequences

CONSTANTS CommandLines,  (* the argument lists that main may be given      *)
          Values,        (* their values; every other token begins with -  *)
          Atoi,          (* Values -> Int                                  *)
          Numeric,       (* the values that match regex4Num                *)
          Plain,         (* the values that match regex4Str                *)
          Directories, Files,
          LongNames,     (* longer than MAX_NAME_LENGTH                    *)
          LongArguments  (* longer than maxMainArgLength                   *)

\* What an option that has no value gives.
Empty == ""

ASSUME ValuesAssumption ==
    /\ Empty \in Values
    /\ Atoi \in [Values -> Int] /\ Atoi[Empty] = 0
    /\ (Numeric \cup Plain \cup Directories \cup Files) \subseteq Values \ {Empty}
ASSUME LinesAssumption == CommandLines \subseteq Seq(STRING)

VARIABLES previewer,  (* the program: "rich" or "thin"                     *)
          argv,       (* its arguments                                     *)
          next,       (* the token that ProcessingCommand looks at         *)
          argsMap,    (* option -> its arguments                           *)
          checked,    (* the number of checks passed                       *)
          config,     (* the fields that the checks assign                 *)
          phase,      (* how far main has come                             *)
          app         (* what it has handed to JsApp and SharedData        *)

startVars == <<previewer, argv, next, argsMap, checked, config, phase, app>>

\* Register: the options and the number of their arguments.
Flags == {"-d", "-v", "-h"}
Pairs == {"-or", "-cr"}
Singles == {"-j", "-n", "-p", "-s", "-f", "-hs", "-hf", "-shape", "-device", "-url",
            "-refresh", "-card", "-projectID", "-ts", "-cm", "-o", "-lws", "-av", "-l",
            "-sd", "-sm", "-cc", "-arp", "-fs", "-pm", "-pages", "-hsp", "-cpm", "-abp",
            "-staticCard"}
Options == Flags \cup Pairs \cup Singles
Arity == [o \in Options |-> IF o \in Flags THEN 0 ELSE IF o \in Pairs THEN 2 ELSE 1]

ASSUME OptionsAssumption == Options \cap Values = {}

supportedDevices == {"liteWearable", "smartVision", "wearable", "tv", "phone", "tablet",
                     "car", "2in1", "default"}
liteDevice == {"liteWearable", "smartVision"}
cardDisplayDevices == supportedDevices \ liteDevice
Ports == 1024 .. 65535
Resolutions == 1 .. 3840
MIN_JSHEAPSIZE == 48 * 1024
MAX_JSHEAPSIZE == 512 * 1024
HeapSizes == MIN_JSHEAPSIZE .. MAX_JSHEAPSIZE
Truths == {"true", "false"}

\* The map f with the entries of g put over its own.
With(f, g) == [x \in DOMAIN f \cup DOMAIN g |-> IF x \in DOMAIN g THEN g[x] ELSE f[x]]

\* The constructor's values; the sizes start at 0.
Defaults == [orignal |-> <<0, 0>>, compression |-> <<0, 0>>, jsHeapSize |-> MAX_JSHEAPSIZE,
             isSendJSHeap |-> TRUE, deviceType |-> "liteWearable", screenShape |-> "circle",
             appName |-> "undefined", urlPath |-> Empty, configPath |-> Empty,
             isRegionRefresh |-> FALSE, isCardDisplay |-> FALSE, projectID |-> Empty,
             screenMode |-> "dynamic", appResourcePath |-> Empty, projectModel |-> "FA",
             pages |-> "main_pages", containerSdkPath |-> Empty, isComponentMode |-> FALSE,
             abilityPath |-> Empty, staticCard |-> FALSE]

StartInit ==
    /\ previewer \in {"rich", "thin"}
    /\ argv \in CommandLines
    /\ next = 1 /\ argsMap = <<>>
    /\ checked = 0 /\ config = Defaults
    /\ phase = "parsing" /\ app = <<>>

-----------------------------------------------------------------------------
Dashed(p) == argv[p] \notin Values
\* Mutant: an option that ends without its values takes the next token.
TakenBlindlyAt(p) ==
    LET n == Arity[argv[p]]
        k == IF p + n <= Len(argv) THEN n ELSE Len(argv) - p
    IN  [args |-> SubSeq(argv, p + 1, p + k) \o (IF k < n THEN <<Empty>> ELSE <<>>), used |-> k]

\* ProcessingCommand: the token at p takes the values that follow it; where
\* one is missing it takes "" and no more.
TakenAt(p) ==
    LET n == Arity[argv[p]]
        k == CHOOSE k \in 0 .. n : /\ p + k <= Len(argv)
                                   /\ \A j \in 1 .. k : ~Dashed(p + j)
                                   /\ k = n \/ p + k = Len(argv) \/ Dashed(p + k + 1)
    IN  [args |-> SubSeq(argv, p + 1, p + k) \o (IF k < n THEN <<Empty>> ELSE <<>>), used |-> k]

ParseToken ==
    /\ phase = "parsing" /\ next <= Len(argv)
    /\ \A p \in 1 .. Len(argv) : argv[p] \notin LongArguments
    /\ IF argv[next] \in Options
       THEN /\ argsMap' = With(argsMap, [o \in {argv[next]} |-> TakenAt(next).args])
            /\ next' = next + 1 + TakenAt(next).used
       ELSE next' = next + 1 /\ UNCHANGED argsMap
    /\ UNCHANGED <<previewer, argv, checked, config, phase, app>>

\* main returns START_PARAM_INVALID_CODE before it parses anything.
RefuseLength ==
    /\ phase = "parsing" /\ next = 1
    /\ \E p \in 1 .. Len(argv) : argv[p] \in LongArguments
    /\ phase' = "invalid"
    /\ UNCHANGED <<previewer, argv, next, argsMap, checked, config, app>>

IsSet(o) == o \in DOMAIN argsMap
Value(o) == IF IsSet(o) /\ argsMap[o] # <<>> THEN argsMap[o][1] ELSE Empty

ProcessCommand ==
    /\ phase = "parsing" /\ next > Len(argv)
    /\ phase' = IF IsSet("-v") \/ IsSet("-h") THEN "shown" ELSE "checking"
    /\ UNCHANGED <<previewer, argv, next, argsMap, checked, config, app>>

-----------------------------------------------------------------------------
\* The checks.  Each is a record: whether it passes, the options that it asks
\* Value for although they may not be set, and the fields that it assigns.
Nothing == <<>>
Check(ok, asks, assigns) == [ok |-> ok, asks |-> asks, assigns |-> assigns]
\* The form of most checks: an option that is set must be legal, and is kept.
Optional(o, legal, assigns) ==
    Check(IsSet(o) => legal, {}, IF IsSet(o) /\ legal THEN assigns ELSE Nothing)
OneOf(o, choices, assigns) == Optional(o, Value(o) \in choices, assigns)
IsNumber(v, range) == v \in Numeric /\ Atoi[v] \in range

IsDebugPortValid == Check(IsSet("-p") => IsNumber(Value("-p"), Ports), {"-p"}, Nothing)
IsAppPathValid == Check(IsSet("-j") /\ Value("-j") \in Directories, {}, Nothing)
IsAppNameValid == OneOf("-n", Plain \ LongNames, [appName |-> Value("-n")])

IsResolutionArgValid(o) ==
    Len(argsMap[o]) = 2 /\ \A i \in 1 .. 2 : IsNumber(argsMap[o][i], Resolutions)
SizeOf(o) == [i \in 1 .. 2 |-> Atoi[argsMap[o][i]]]
IsResolutionValid ==
    LET ok == \A o \in Pairs : IsSet(o) /\ IsResolutionArgValid(o) IN
    Check(ok, {}, IF ok THEN [orignal |-> SizeOf("-or"), compression |-> SizeOf("-cr")]
                        ELSE Nothing)

IsConfigPathValid == OneOf("-f", Files, [configPath |-> Value("-f")])

IsJsHeapValid ==
    Optional("-hs", IsNumber(Value("-hs"), HeapSizes), [jsHeapSize |-> Atoi[Value("-hs")]])

IsJsHeapFlagValid == OneOf("-hf", Truths, [isSendJSHeap |-> Value("-hf") = "true"])
IsScreenShapeValid == OneOf("-shape", {"rect", "circle"}, [screenShape |-> Value("-shape")])
\* Without -device the type is "", not the default of the constructor.
IsDeviceValid ==
    LET ok == IsSet("-device") => Value("-device") \in supportedDevices IN
    Check(ok, {"-device"}, IF ok THEN [deviceType |-> Value("-device")] ELSE Nothing)
IsUrlValid == Check(Value("-url") # Empty, {"-url"}, [urlPath |-> Value("-url")])
IsRefreshValid == OneOf("-refresh", {"region", "full"},
    IF Value("-refresh") = "region" THEN [isRegionRefresh |-> TRUE] ELSE Nothing)

IsCardValid == OneOf("-card", Truths,
    IF config.deviceType \in cardDisplayDevices /\ Value("-card") = "true"
    THEN [isCardDisplay |-> TRUE] ELSE Nothing)

\* The identifier and the pages are assigned before they are compared.
IsProjectIDValid == Check(IsSet("-projectID") => Value("-projectID") \in Numeric, {},
    IF IsSet("-projectID") THEN [projectID |-> Value("-projectID")] ELSE Nothing)

IsColorModeValid == OneOf("-cm", {"dark", "light"}, Nothing)
IsOrientationValid == OneOf("-o", {"portrait", "landscape"}, Nothing)

\* Mutant: it also logs the name of the command pipe.
IsSocketLogged == Check(IsSet("-lws") => IsNumber(Value("-lws"), Ports), {"-lws", "-s"}, Nothing)
IsWebSocketPortValid == Check(IsSet("-lws") => IsNumber(Value("-lws"), Ports), {"-lws"}, Nothing)
IsAceVersionValid == OneOf("-av", {"ACE_1_0", "ACE_2_0"}, Nothing)
IsScreenModeValid == OneOf("-sm", {"dynamic", "static"}, [screenMode |-> Value("-sm")])
IsAppResourcePathValid == OneOf("-arp", Directories, [appResourcePath |-> Value("-arp")])
IsProjectModelValid == OneOf("-pm", {"FA", "Stage"}, [projectModel |-> Value("-pm")])
IsPagesValid == Check(IsSet("-pages") => Value("-pages") \in Plain, {},
    IF IsSet("-pages") THEN [pages |-> Value("-pages")] ELSE Nothing)
IsContainerSdkPathValid == OneOf("-hsp", Directories, [containerSdkPath |-> Value("-hsp")])
IsComponentModeValid == OneOf("-cpm", Truths, [isComponentMode |-> Value("-cpm") = "true"])
IsAbilityPathValid ==
    LET needed == IsSet("-d") /\ config.deviceType \notin liteDevice
        ok == needed => IsSet("-abp") /\ Value("-abp") # Empty
    IN  Check(ok, {}, IF needed /\ ok THEN [abilityPath |-> Value("-abp")] ELSE Nothing)
IsStaticCardValid == OneOf("-staticCard", Truths,
    IF Value("-staticCard") = "true" THEN [staticCard |-> TRUE] ELSE Nothing)

\* IsCommandValid: the checks in their order, up to the first that fails.
Checks == <<
    IsDebugPortValid, IsAppPathValid, IsAppNameValid, IsResolutionValid, IsConfigPathValid,
    IsJsHeapValid, IsJsHeapFlagValid, IsScreenShapeValid, IsDeviceValid, IsUrlValid,
    IsRefreshValid, IsCardValid, IsProjectIDValid, IsColorModeValid, IsOrientationValid,
    IsWebSocketPortValid, IsAceVersionValid, IsScreenModeValid, IsAppResourcePathValid,
    IsProjectModelValid, IsPagesValid, IsContainerSdkPathValid, IsComponentModeValid,
    IsAbilityPathValid, IsStaticCardValid >>

IsCommandValid ==
    /\ phase = "checking" /\ checked < Len(Checks)
    /\ LET c == Checks[checked + 1] IN
       /\ config' = With(config, c.assigns)
       /\ argsMap' = With([o \in c.asks |-> <<>>], argsMap)
       /\ IF c.ok THEN checked' = checked + 1 /\ UNCHANGED phase
                  ELSE phase' = "invalid" /\ UNCHANGED checked
    /\ UNCHANGED <<previewer, argv, next, app>>

-----------------------------------------------------------------------------
\* What main hands on.  An option without a value, or one that only Value has
\* set, gives "".
ValueOr(o, default) == IF IsSet(o) THEN Value(o) ELSE default

PortWidth == 65536  \* the debug port is a uint16_t
CommonApp == [
    serves    |-> IsSet("-s"),
    pipeName  |-> ValueOr("-s", Empty),
    pipePort  |-> Atoi[ValueOr("-lws", Empty)],
    jsAppPath |-> Value("-j"),
    urlPath   |-> ValueOr("-url", Empty),
    isDebug   |-> IsSet("-d"),
    debugPort |-> IF IsSet("-d") THEN Atoi[ValueOr("-p", Empty)] % PortWidth ELSE 0]

StartRich ==
    /\ previewer = "rich" /\ phase = "checking" /\ checked = Len(Checks)
    /\ phase' = "started"
    /\ app' = With(CommonApp, [
           language       |-> ValueOr("-l", "zh_CN"),
           colorMode      |-> ValueOr("-cm", Empty),
           aceVersion     |-> ValueOr("-av", Empty),
           screenDensity  |-> ValueOr("-sd", Empty),
           configChanges  |-> ValueOr("-cc", Empty),
           orientation    |-> IF config.compression[1] <= config.compression[2]
                              THEN "portrait" ELSE "landscape",
           inspectorTimer |-> ~IsSet("-d")])
    /\ UNCHANGED <<previewer, argv, next, argsMap, checked, config>>

StartThin ==
    /\ previewer = "thin" /\ phase = "checking" /\ checked = Len(Checks)
    /\ phase' = "started"
    /\ app' = With(CommonApp, [
           language   |-> "zh-CN",
           device     |-> config.deviceType,
           screen     |-> <<config.orignal, config.compression>>,
           configFile |-> config.configPath,
           bundleName |-> config.appName,
           jsHeapSize |-> config.jsHeapSize,
           heapTimer  |-> config.isSendJSHeap])
    /\ UNCHANGED <<previewer, argv, next, argsMap, checked, config>>

\* main has returned, or the program runs.
Decided == phase \in {"invalid", "shown", "started"} /\ UNCHANGED startVars

StartNext ==
    \/ ParseToken \/ RefuseLength \/ ProcessCommand \/ IsCommandValid
    \/ StartRich \/ StartThin \/ Decided

StartSpec == StartInit /\ [][StartNext]_startVars

-----------------------------------------------------------------------------

\* The command line as its writer means it: the last occurrence of an option
\* counts, with the token behind it unless that is another option.
Given(o) == \E p \in 1 .. Len(argv) : argv[p] = o
Meant(o, default) ==
    IF ~Given(o) THEN default
    ELSE LET p == CHOOSE p \in 1 .. Len(argv) :
                     argv[p] = o /\ \A q \in p + 1 .. Len(argv) : argv[q] # o
         IN  IF p = Len(argv) \/ Dashed(p + 1) THEN Empty ELSE argv[p + 1]

\* A program that starts has the configuration its command line means, every
\* field of it legal, whatever order and repetition the options came in
\* (ProcessingCommand and the 25 checks of IsCommandValid).
ConfigurationMeansArguments ==
    phase = "started" =>
        /\ \A o \in Pairs : Given(o)
        /\ {config.orignal, config.compression} \subseteq Resolutions \X Resolutions
        /\ config.jsHeapSize = IF Given("-hs") THEN Atoi[Meant("-hs", Empty)] ELSE MAX_JSHEAPSIZE
        /\ config.jsHeapSize \in HeapSizes
        /\ config.isSendJSHeap <=> Meant("-hf", "true") = "true"
        /\ config.deviceType = Meant("-device", Empty)
        /\ config.screenShape = Meant("-shape", "circle")
        /\ config.appName = Meant("-n", "undefined")
        /\ config.urlPath = Meant("-url", Empty) /\ config.urlPath # Empty
        /\ config.configPath = Meant("-f", Empty)
        /\ config.isRegionRefresh <=> Meant("-refresh", "full") = "region"
        /\ config.isCardDisplay <=>
               Meant("-card", "false") = "true" /\ config.deviceType \in cardDisplayDevices
        /\ config.projectID = Meant("-projectID", Empty)
        /\ config.screenMode = Meant("-sm", "dynamic")
        /\ config.appResourcePath = Meant("-arp", Empty)
        /\ config.projectModel = Meant("-pm", "FA")
        /\ config.pages = Meant("-pages", "main_pages")
        /\ config.containerSdkPath = Meant("-hsp", Empty)
        /\ config.isComponentMode <=> Meant("-cpm", "false") = "true"
        /\ config.staticCard <=> Meant("-staticCard", "false") = "true"
        /\ Given("-d") /\ config.deviceType \notin liteDevice => config.abilityPath # Empty

\* main acts on what was given: an option that a check asked for, and so set,
\* does not make it open the command pipe, debug, or drop a default.
StartsWhatWasGiven ==
    phase = "started" =>
        /\ app.serves <=> Given("-s")
        /\ app.isDebug <=> Given("-d")
        /\ app.pipePort = Atoi[Meant("-lws", Empty)] /\ app.pipePort \in {0} \cup Ports
        /\ app.debugPort = IF Given("-d") THEN Atoi[Meant("-p", Empty)] ELSE 0
        /\ app.jsAppPath = Meant("-j", Empty)
        /\ previewer = "rich" =>
               /\ app.language = Meant("-l", "zh_CN")
               /\ app.colorMode = Meant("-cm", Empty)
               /\ app.inspectorTimer <=> ~Given("-d")
=============================================================================
