------------------------- MODULE DeviceConfigProofs -------------------------
(***************************************************************************)
(* Proofs about DeviceConfig for any resolutions, previews, densities and  *)
(* number of commands.                                                     *)
(***************************************************************************)
EXTENDS DeviceConfig, TLAPS

\* Each handler runs its own steps.
Handled ==
    /\ step \in {"orig", "comp", "adapt", "assign"}
           => cmd.kind \in {"resolution", "orientation"}
    /\ step \in {"parse", "finish"} => cmd.kind = "document"
    /\ step = "notify" => cmd.kind # "none"

\* A command posts one task, at its end.
OneTaskEach == tasks + (IF step \in {"idle", "finish"} THEN 0 ELSE 1) <= sent

\* The window is up to date, or a task or a handler will see to it.
ResizePending == window = size \/ tasks > 0 \/ step = "notify"

\* Where the new size is while the handlers carry it from place to place.
Carried ==
    CASE step = "idle"   -> size = args.size /\ surface.size = size
      [] step = "finish" -> size = args.size /\ surface.size = size
      [] step = "notify" -> size = args.size
      [] step \in {"adapt", "assign"} -> screen.comp = args.size
      [] step \in {"orig", "comp"} ->
            IF cmd.kind = "resolution" THEN args.size = cmd.comp
            ELSE args.size = Swap(size) /\ screen.comp = size
      [] step = "parse"  -> TRUE

CalmSizes ==
    "overlap" \notin habits => Carried /\ (~Idle => frame = <<>>)

\* The shape of the size a handler is about to announce fits the orientation it
\* is about to announce.
Fits(s, o) == s[1] # s[2] => o = Shape(s)

CalmShape ==
    habits \cap {"overlap", "preview"} = {} =>
        /\ cmd.kind # "document"
        /\ Idle => Fits(surface.size, surface.orientation)
                   /\ (surface.size[1] # surface.size[2] => orientation = surface.orientation)
        /\ ~Idle => IF cmd.kind = "resolution" THEN args.size = cmd.comp
                    ELSE Fits(args.size, cmd.orientation)

\* Whoever stores an original resolution stores the same compressed one next.
SameResolution ==
    /\ frame = <<>> => ~stored
    /\ stored => screen.orig = frame
    /\ ~stored /\ step # "comp" => screen.orig = screen.comp
    /\ step = "comp" => screen.orig = IF cmd.kind = "resolution" THEN cmd.comp
                                                                ELSE Swap(screen.comp)

\* The density of the last command is in the command until it is stored.
DpiFollows ==
    IF cmd.kind = "resolution" /\ step \in {"orig", "comp", "adapt"}
    THEN cmd.dpi = commanded ELSE dpi[DeviceType] = commanded

\* The density is the commanded one, as a fraction.
Commanded(density) == density.num = commanded * density.den

CalmDensity ==
    habits = {} /\ Start.orig = Start.comp =>
        /\ cmd.kind = "resolution" /\ ~Idle => cmd.orig = cmd.comp
        /\ SameResolution
        /\ DpiFollows
        /\ step \in {"assign", "notify"} => Commanded(args.density)
        /\ Idle => Commanded(surface.density)

IInv ==
    /\ TypeOK /\ Handled /\ OneTaskEach /\ ResizePending
    /\ CalmSizes /\ CalmShape /\ CalmDensity

-----------------------------------------------------------------------------
\* A density is a fraction: AdaptDeviceType neither divides by zero nor leaves
\* the natural numbers, for sizes and densities above zero.
LEMMA DensityType ==
    ASSUME NEW real \in Nat \ {0}, NEW width \in Nat \ {0}, NEW d \in Nat \ {0}
    PROVE  AdaptDeviceType(real, width, d) \in Density
<1>1. width * d \in Nat
  OBVIOUS
<1> QED
  BY <1>1 DEF AdaptDeviceType, Density

\* The fraction of a screen that is not compressed is the density itself.
LEMMA FractionIs ==
    ASSUME NEW width \in Nat \ {0}, NEW d \in Nat \ {0}
    PROVE  /\ AdaptDeviceType(width, width, d).num = d * width
           /\ AdaptDeviceType(width, width, d).den = width
<1>1. width * d = d * width
  OBVIOUS
<1> QED
  BY <1>1 DEF AdaptDeviceType

\* Sizes and orientations: Swap stays among the sizes, Shape among the
\* orientations, and swapping a size that is not square changes its shape.
LEMMA Shapes ==
    ASSUME NEW s \in Size
    PROVE  /\ Swap(s) \in Size /\ s[1] \in Nat \ {0} /\ s[2] \in Nat \ {0}
           /\ Shape(s) \in Orientations
           /\ s[1] # s[2] => Shape(Swap(s)) # Shape(s)
BY DEF Size, Swap, Shape, Orientations

\* The strengthening holds when the application has been launched.
LEMMA InitOK == Init => IInv
<1> SUFFICES ASSUME Init
             PROVE  IInv
  OBVIOUS
<1> USE DEF Init
<1>1. LaunchedDpi \in Nat \ {0}
  BY DensityAssumption DEF LaunchedDpi
<1>2. /\ Start.orig \in Size /\ Start.comp \in Size
      /\ Start.orig[1] \in Nat \ {0} /\ Start.comp[1] \in Nat \ {0}
      /\ Shape(Start.comp) \in Orientations
  BY SizesAssumption, Shapes DEF Resolution
<1>3. StartArgs \in Args
  BY <1>1, <1>2, DensityType DEF StartArgs, Args
<1>4. TypeOK
  <2>1. dpi \in [Types -> Nat \ {0}] /\ commanded \in Nat \ {0}
    BY <1>1, DensityAssumption
  <2>2. cmd \in Commands
    BY DEF Commands
  <2>3. size \in Size /\ orientation \in Orientations /\ screen \in Resolution
        /\ args \in Args /\ surface \in Args /\ rendered \in Size /\ window \in Size
    BY <1>2, <1>3, SizesAssumption
  <2>4. sent \in 0 .. MaxCommands /\ tasks \in 0 .. MaxCommands
    BY BoundAssumption
  <2>5. habits \subseteq {"overlap", "preview", "scaled"} /\ launchDpi \in LaunchDpis
        /\ frame = <<>> /\ stored \in BOOLEAN
    OBVIOUS
  <2>6. docFlag \in {"INIT", "START", "FINISHED", "NORMAL"}
        /\ step \in {"idle", "orig", "comp", "adapt", "assign", "notify", "parse", "finish"}
    OBVIOUS
  <2> QED
    BY <2>1, <2>2, <2>3, <2>4, <2>5, <2>6, Zenon DEF TypeOK
<1>5. StartArgs.size = Start.comp /\ StartArgs.orientation = Shape(Start.comp)
  BY DEF StartArgs
<1> QED
  <2>1. CalmDensity
    <3> SUFFICES ASSUME Start.orig = Start.comp
                 PROVE  CalmDensity
      BY DEF CalmDensity
    <3>1. dpi[DeviceType] = commanded
      BY DensityAssumption
    <3>2. Commanded(StartArgs.density)
      <4>1. StartArgs.density = AdaptDeviceType(Start.comp[1], Start.comp[1], LaunchedDpi)
        BY DEF StartArgs
      <4>2. /\ StartArgs.density.num = LaunchedDpi * Start.comp[1]
            /\ StartArgs.density.den = Start.comp[1]
        <5>1. LET a == AdaptDeviceType(Start.comp[1], Start.comp[1], LaunchedDpi)
              IN  a.num = LaunchedDpi * Start.comp[1] /\ a.den = Start.comp[1]
          BY <1>1, <1>2, FractionIs
        <5> HIDE DEF Init
        <5> QED
          BY <4>1, <5>1, Zenon
      <4>3. commanded = LaunchedDpi
        OBVIOUS
      <4> HIDE DEF Init
      <4> QED
        BY <4>2, <4>3, Zenon DEF Commanded
    <3> QED
      BY <3>1, <3>2 DEF CalmDensity, SameResolution, DpiFollows, Idle
  <2> QED
    BY <1>4, <1>5, <2>1 DEF IInv, Handled, OneTaskEach, ResizePending, CalmSizes, Carried,
                            CalmShape, Fits, Idle

\* Each step keeps the types: what a handler stores comes from its command or
\* from another well-typed copy.
LEMMA TypeStep ==
    ASSUME TypeOK, Handled, OneTaskEach, [Next]_vars
    PROVE  TypeOK'
<1> USE DEF TypeOK, Begin, Go, ide, config, engine, callBack, main
<1>1. /\ args.size \in Size /\ args.size[1] \in Nat \ {0}
      /\ screen.orig \in Size /\ screen.comp \in Size /\ screen.orig[1] \in Nat \ {0}
      /\ Swap(screen.orig) \in Size /\ Swap(screen.comp) \in Size /\ Swap(size) \in Size
  BY Shapes DEF Args, Resolution
<1>2. \A r \in Resolutions, d \in Dpis : ResolutionSwitch(r, d) => TypeOK'
  <2> SUFFICES ASSUME NEW r \in Resolutions, NEW d \in Dpis, ResolutionSwitch(r, d)
               PROVE  TypeOK'
    OBVIOUS
  <2>1. r \in Resolution /\ d \in Nat \ {0}
    BY SizesAssumption, DensityAssumption
  <2>2. cmd' \in Commands /\ args' \in Args
    BY <2>1 DEF ResolutionSwitch, Commands, Resolution, Args
  <2> QED
    BY <2>1, <2>2, BoundAssumption DEF ResolutionSwitch
<1>3. \A o \in Orientations : Orientation(o) => TypeOK'
  <2> SUFFICES ASSUME NEW o \in Orientations, Orientation(o)
               PROVE  TypeOK'
    OBVIOUS
  <2>1. cmd' \in Commands /\ args' \in Args
    BY <1>1 DEF Orientation, Commands, Args
  <2> QED
    BY <2>1, BoundAssumption DEF Orientation
<1>4. \A p \in Previews : LoadDocument(p) => TypeOK'
  <2> SUFFICES ASSUME NEW p \in Previews, LoadDocument(p)
               PROVE  TypeOK'
    OBVIOUS
  <2>1. cmd' \in Commands
    BY SizesAssumption DEF LoadDocument, Commands
  <2> QED
    BY <2>1, BoundAssumption DEF LoadDocument
<1>5. SetOrignal \/ SetCompression => TypeOK'
  <2> SUFFICES ASSUME SetOrignal \/ SetCompression
               PROVE  TypeOK'
    OBVIOUS
  <2>1. cmd.kind = "resolution" => cmd.orig \in Size /\ cmd.comp \in Size
    BY DEF Commands
  <2>2. screen' \in Resolution
    BY <1>1, <2>1 DEF SetOrignal, SetCompression, Resolution
  <2> QED
    BY <2>2 DEF SetOrignal, SetCompression
<1>6. Adapt => TypeOK'
  <2> SUFFICES ASSUME Adapt
               PROVE  TypeOK'
    OBVIOUS
  <2>1. cmd.kind = "resolution" => cmd.dpi \in Nat \ {0}
    BY DEF Commands
  <2>2. dpi' \in [Types -> Nat \ {0}]
    BY <2>1 DEF Adapt
  <2>3. AdaptDeviceType(screen.orig[1], args.size[1], dpi'[DeviceType]) \in Density
    BY <1>1, <2>2, DensityAssumption, DensityType
  <2>4. args' \in Args
    BY <2>3 DEF Adapt, Args
  <2> QED
    BY <2>2, <2>4 DEF Adapt
<1>7. Assign => TypeOK'
  BY <1>1 DEF Assign
<1>8. ParseSystemParams => TypeOK'
  <2> SUFFICES ASSUME ParseSystemParams
               PROVE  TypeOK'
    OBVIOUS
  <2>1. cmd.param \in Preview
    BY DEF ParseSystemParams, Handled, Commands
  <2>2. cmd.param.size \in Size /\ cmd.param.size[1] \in Nat \ {0}
        /\ cmd.param.dpi \in Nat \ {0}
    BY <2>1, Shapes DEF Preview
  <2>3. AdaptDeviceType(cmd.param.size[1], cmd.param.size[1], cmd.param.dpi) \in Density
    BY <2>2, DensityType
  <2>4. args' \in Args
    BY <2>1, <2>2, <2>3 DEF ParseSystemParams, Args, Preview
  <2>5. dpi' \in [Types -> Nat \ {0}]
    BY DensityAssumption DEF ParseSystemParams
  <2> QED
    BY <2>2, <2>4, <2>5 DEF ParseSystemParams
<1>9. Notify => TypeOK'
  <2> SUFFICES ASSUME Notify
               PROVE  TypeOK'
    OBVIOUS
  <2>1. NewOrientation \in Orientations
    BY Shapes DEF Notify, Handled, NewOrientation, Commands
  <2>2. args' \in Args /\ surface' \in Args
    BY <2>1 DEF Notify, NewArgs, Args
  <2>3. tasks' \in 0 .. MaxCommands
    BY BoundAssumption DEF Notify, OneTaskEach
  <2> QED
    BY <2>1, <2>2, <2>3 DEF Notify, AfterNotify
<1>10. FinishDocument \/ Frames \/ SetWindowSize => TypeOK'
  <2>1. FinishDocument => TypeOK'
    BY DEF FinishDocument
  <2>2. StoreOrignal \/ StoreCompression => TypeOK'
    BY DEF StoreOrignal, StoreCompression, Resolution
  <2>3. Resize => TypeOK'
    BY DEF Resize, Args
  <2>4. CallBack \/ StartTimer => TypeOK'
    BY DEF CallBack, StartTimer
  <2>5. SetWindowSize => TypeOK'
    BY BoundAssumption DEF SetWindowSize
  <2> QED
    BY <2>1, <2>2, <2>3, <2>4, <2>5 DEF Frames
<1>11. CASE UNCHANGED vars
  BY <1>11 DEF vars
<1> QED
  BY <1>2, <1>3, <1>4, <1>5, <1>6, <1>7, <1>8, <1>9, <1>10, <1>11 DEF Next, Handler

\* Each handler stays on its own steps and posts one task, at its end.
LEMMA ControlStep ==
    ASSUME TypeOK, Handled, OneTaskEach, [Next]_vars
    PROVE  Handled' /\ OneTaskEach'
<1> USE DEF TypeOK, Handled, OneTaskEach, Begin, Go, Idle, ide, config, engine, callBack, main
<1>1. \A r \in Resolutions, d \in Dpis : ResolutionSwitch(r, d) => Handled' /\ OneTaskEach'
  BY BoundAssumption DEF ResolutionSwitch
<1>2. \A o \in Orientations : Orientation(o) => Handled' /\ OneTaskEach'
  BY BoundAssumption DEF Orientation
<1>3. \A p \in Previews : LoadDocument(p) => Handled' /\ OneTaskEach'
  BY BoundAssumption DEF LoadDocument
<1>4. Handler => Handled' /\ OneTaskEach'
  BY BoundAssumption DEF Handler, SetOrignal, SetCompression, Adapt, Assign,
                         ParseSystemParams, Notify, AfterNotify, FinishDocument
<1>5. Frames \/ SetWindowSize \/ UNCHANGED vars => Handled' /\ OneTaskEach'
  BY BoundAssumption DEF Frames, Resize, CallBack, StoreOrignal, StoreCompression,
                         StartTimer, SetWindowSize, vars
<1> QED
  BY <1>1, <1>2, <1>3, <1>4, <1>5 DEF Next

\* The window: a size is changed only on the way to the step that posts a task.
LEMMA WindowStep ==
    ASSUME TypeOK, Handled, ResizePending, [Next]_vars
    PROVE  ResizePending'
<1> USE DEF TypeOK, ResizePending, Begin, Go, Idle, ide, config, engine, callBack, main
<1>1. (\E r \in Resolutions, d \in Dpis : ResolutionSwitch(r, d)) => ResizePending'
  BY DEF ResolutionSwitch
<1>2. (\E o \in Orientations : Orientation(o)) => ResizePending'
  BY DEF Orientation
<1>3. (\E p \in Previews : LoadDocument(p)) => ResizePending'
  BY DEF LoadDocument
<1>4. Assign \/ ParseSystemParams \/ Notify => ResizePending'
  BY BoundAssumption DEF Assign, ParseSystemParams, Notify
<1>5. SetOrignal \/ SetCompression \/ Adapt \/ FinishDocument => ResizePending'
  BY DEF SetOrignal, SetCompression, Adapt, FinishDocument
<1>6. Frames \/ UNCHANGED vars => ResizePending'
  BY DEF Frames, Resize, CallBack, StoreOrignal, StoreCompression, StartTimer, vars
<1>7. SetWindowSize => ResizePending'
  BY DEF SetWindowSize
<1> QED
  BY <1>1, <1>2, <1>3, <1>4, <1>5, <1>6, <1>7 DEF Next, Handler

\* The size is carried from step to step, for an IDE that does not overlap.
LEMMA CarriedStep ==
    ASSUME TypeOK, Handled, CalmSizes, [Next]_vars
    PROVE  CalmSizes'
<1> SUFFICES ASSUME "overlap" \notin habits', habits' = habits
             PROVE  Carried' /\ (~Idle' => frame' = <<>>)
  <2>1. habits' = habits
    BY DEF Next, Handler, Frames, ResolutionSwitch, Orientation, LoadDocument, SetOrignal,
           SetCompression, Adapt, Assign, ParseSystemParams, Notify, FinishDocument, Resize,
           CallBack, StoreOrignal, StoreCompression, StartTimer, SetWindowSize, Begin, Go,
           ide, vars
  <2> QED
    BY <2>1 DEF CalmSizes
<1>0. Carried /\ (~Idle => frame = <<>>) /\ "overlap" \notin habits
  BY DEF CalmSizes
<1> USE DEF TypeOK, Begin, Go, Idle, Carried, Settled, ide, config, engine, callBack, main
<1>1. (\E r \in Resolutions, d \in Dpis : ResolutionSwitch(r, d))
          => Carried' /\ (~Idle' => frame' = <<>>)
  BY <1>0 DEF ResolutionSwitch, Args
<1>2. (\E o \in Orientations : Orientation(o)) => Carried' /\ (~Idle' => frame' = <<>>)
  BY <1>0 DEF Orientation, Args
<1>3. (\E p \in Previews : LoadDocument(p)) => Carried' /\ (~Idle' => frame' = <<>>)
  BY <1>0 DEF LoadDocument
<1>4. SetOrignal \/ SetCompression => Carried' /\ (~Idle' => frame' = <<>>)
  BY <1>0 DEF SetOrignal, SetCompression, Resolution, Handled
<1>5. Adapt \/ Assign \/ ParseSystemParams => Carried' /\ (~Idle' => frame' = <<>>)
  <2>1. Adapt => Carried' /\ (~Idle' => frame' = <<>>)
    BY <1>0 DEF Adapt, Args
  <2>2. Assign => Carried' /\ (~Idle' => frame' = <<>>)
    BY <1>0 DEF Assign
  <2>3. ParseSystemParams => Carried' /\ (~Idle' => frame' = <<>>)
    BY <1>0 DEF ParseSystemParams
  <2> QED
    BY <2>1, <2>2, <2>3
<1>6. Notify => Carried' /\ (~Idle' => frame' = <<>>)
  BY <1>0 DEF Notify, AfterNotify, NewArgs, Args
<1>7. FinishDocument \/ UNCHANGED vars => Carried' /\ (~Idle' => frame' = <<>>)
  BY <1>0 DEF FinishDocument, vars
<1>8. Frames \/ SetWindowSize => Carried' /\ (~Idle' => frame' = <<>>)
  BY <1>0 DEF Frames, Resize, CallBack, StoreOrignal, StoreCompression, StartTimer,
              SetWindowSize
<1> QED
  BY <1>1, <1>2, <1>3, <1>4, <1>5, <1>6, <1>7, <1>8 DEF Next, Handler

\* Shape and orientation fit, for an IDE that neither overlaps nor previews: an
\* orientation is changed together with a swap of the size.
LEMMA ShapeStep ==
    ASSUME TypeOK, Handled, CalmSizes, CalmShape, [Next]_vars
    PROVE  CalmShape'
<1> SUFFICES ASSUME habits' \cap {"overlap", "preview"} = {}
             PROVE  CalmShape'
  BY DEF CalmShape
<1>0. habits' = habits
  BY DEF Next, Handler, Frames, ResolutionSwitch, Orientation, LoadDocument, SetOrignal,
         SetCompression, Adapt, Assign, ParseSystemParams, Notify, FinishDocument, Resize,
         CallBack, StoreOrignal, StoreCompression, StartTimer, SetWindowSize, Begin, Go,
         ide, vars
<1>00. Carried /\ "preview" \notin habits /\ habits \cap {"overlap", "preview"} = {}
  BY <1>0 DEF CalmSizes
<1> USE <1>0, <1>00 DEF CalmShape
<1> USE DEF TypeOK, Begin, Go, Idle, ide, config, engine, callBack, main
<1>1. (\E r \in Resolutions, d \in Dpis : ResolutionSwitch(r, d)) => CalmShape'
  BY DEF ResolutionSwitch, Args
<1>2. (\E o \in Orientations : Orientation(o)) => CalmShape'
  <2> SUFFICES ASSUME NEW o \in Orientations, Orientation(o)
               PROVE  CalmShape'
    OBVIOUS
  <2>1. size = surface.size /\ size[1] \in Nat /\ size[2] \in Nat
    BY Shapes DEF Orientation, Carried
  <2>2. size[1] # size[2] => orientation = Shape(size)
    BY <2>1 DEF Orientation, Fits
  <2>3. Fits(Swap(size), o)
    BY <2>1, <2>2 DEF Fits, Swap, Shape, Orientation, Orientations
  <2> QED
    BY <2>3 DEF Orientation, Args
<1>3. (\E p \in Previews : LoadDocument(p)) => CalmShape'
  BY DEF LoadDocument
<1>4. SetOrignal \/ SetCompression \/ Adapt \/ Assign => CalmShape'
  BY DEF SetOrignal, SetCompression, Adapt, Assign, Args
<1>5. ParseSystemParams \/ FinishDocument => CalmShape'
  BY DEF ParseSystemParams, FinishDocument, Handled
<1>6. Notify => CalmShape'
  <2> SUFFICES ASSUME Notify
               PROVE  CalmShape'
    OBVIOUS
  <2>1. Fits(args.size, NewOrientation)
    BY DEF Notify, NewOrientation, Fits, Handled, Commands
  <2>2. /\ surface' = [args EXCEPT !.orientation = NewOrientation]
        /\ orientation' = NewOrientation /\ step' = "idle"
    BY DEF Notify, NewArgs, AfterNotify
  <2>3. surface'.size = args.size /\ surface'.orientation = NewOrientation
    BY <2>2 DEF Args
  <2> QED
    BY <2>1, <2>2, <2>3 DEF Notify, Fits
<1>7. Frames \/ SetWindowSize \/ UNCHANGED vars => CalmShape'
  BY DEF Frames, Resize, CallBack, StoreOrignal, StoreCompression, StartTimer,
         SetWindowSize, vars
<1> QED
  BY <1>1, <1>2, <1>3, <1>4, <1>5, <1>6, <1>7 DEF Next, Handler

\* The density is kept, for an IDE whose habits are none: frames leave the two
\* resolutions of VirtualScreen equal, and so does every command.
LEMMA DensityStep ==
    ASSUME TypeOK, Handled, CalmSizes, CalmShape, CalmDensity, [Next]_vars
    PROVE  CalmDensity'
<1>0. habits' = habits
  BY DEF Next, Handler, Frames, ResolutionSwitch, Orientation, LoadDocument, SetOrignal,
         SetCompression, Adapt, Assign, ParseSystemParams, Notify, FinishDocument, Resize,
         CallBack, StoreOrignal, StoreCompression, StartTimer, SetWindowSize, Begin, Go,
         ide, vars
<1> SUFFICES ASSUME habits = {}, Start.orig = Start.comp
             PROVE  CalmDensity'
  BY <1>0 DEF CalmDensity
<1>00. /\ Carried /\ (~Idle => frame = <<>>) /\ cmd.kind # "document"
       /\ "overlap" \notin habits /\ "preview" \notin habits /\ "scaled" \notin habits
  BY DEF CalmSizes, CalmShape
<1> USE <1>00 DEF CalmDensity, SameResolution, DpiFollows, Commanded
<1> USE DEF TypeOK, Begin, Go, Idle, ide, config, engine, callBack, main
<1>1. ASSUME NEW r \in Resolutions, NEW d \in Dpis, ResolutionSwitch(r, d)
      PROVE  CalmDensity'
  BY <1>1 DEF ResolutionSwitch, Settled
<1>2. ASSUME NEW o \in Orientations, Orientation(o)
      PROVE  CalmDensity'
  BY <1>2 DEF Orientation, Settled
<1>3. ASSUME NEW p \in Previews, LoadDocument(p)
      PROVE  CalmDensity'
  BY <1>3 DEF LoadDocument
<1>4. CASE SetOrignal
  BY <1>4 DEF SetOrignal, Handled, Resolution
<1>5. CASE SetCompression
  BY <1>5 DEF SetCompression, Handled, Resolution
<1>6. CASE Adapt
  <2>1. dpi'[DeviceType] = commanded
    BY <1>6, DensityAssumption DEF Adapt
  <2>2. screen.orig = args.size /\ args.size[1] \in Nat \ {0}
    BY <1>6, Shapes DEF Adapt, Carried, Args
  <2>3. args'.density = AdaptDeviceType(args.size[1], args.size[1], commanded)
    BY <1>6, <2>1, <2>2 DEF Adapt, Args
  <2>4. Commanded(args'.density)
    <3>1. commanded \in Nat \ {0}
      OBVIOUS
    <3>2. /\ AdaptDeviceType(args.size[1], args.size[1], commanded).num = commanded * args.size[1]
          /\ AdaptDeviceType(args.size[1], args.size[1], commanded).den = args.size[1]
      BY <2>2, <3>1, FractionIs
    <3> HIDE DEF TypeOK
    <3> QED
      BY <2>3, <3>2, Zenon
  <2> QED
    BY <1>6, <2>1, <2>4 DEF Adapt
<1>7. CASE Assign
  BY <1>7 DEF Assign
<1>8. CASE ParseSystemParams \/ FinishDocument
  BY <1>8 DEF ParseSystemParams, FinishDocument, Handled
<1>9. CASE Notify
  BY <1>9 DEF Notify, NewArgs, AfterNotify, Args
<1>10. CASE Frames
  BY <1>10 DEF Frames, Resize, CallBack, StoreOrignal, StoreCompression, StartTimer, Resolution,
               Args
<1>11. CASE SetWindowSize \/ UNCHANGED vars
  BY <1>11 DEF SetWindowSize, vars
<1> QED
  BY <1>1, <1>2, <1>3, <1>4, <1>5, <1>6, <1>7, <1>8, <1>9, <1>10, <1>11 DEF Next, Handler

-----------------------------------------------------------------------------
\* The strengthening of the theorems below is an invariant of DeviceConfig.
THEOREM Invariance == Spec => []IInv
<1>1. IInv /\ [Next]_vars => IInv'
  BY TypeStep, ControlStep, WindowStep, CarriedStep, ShapeStep, DensityStep DEF IInv
<1> QED
  BY <1>1, InitOK, PTL DEF Spec

\* Every copy of the configuration keeps the values its C++ type and its role
\* allow; no density has a zero denominator and no command posts a second task.
THEOREM TypeCorrect == Spec => []TypeOK
BY Invariance, PTL DEF IInv

\* Once the handlers and the posted tasks have run, the window has the size that
\* JsAppImpl holds, whatever frames and commands did to each other.
THEOREM WindowIsResized == Spec => []WindowFollows
<1>1. IInv => WindowFollows
  BY DEF IInv, ResizePending, WindowFollows, Idle
<1> QED
  BY <1>1, Invariance, PTL

\* For an IDE that does not overlap, JsAppImpl, the arguments and the engine
\* agree on the size after every command.
THEOREM CopiesAgree == Spec => []SizesAgree
<1>1. IInv => SizesAgree
  BY DEF IInv, CalmSizes, Carried, SizesAgree, Calm, Idle
<1> QED
  BY <1>1, Invariance, PTL

\* For an IDE that neither overlaps nor previews, no series of resolution and
\* orientation changes leaves an orientation that contradicts the shape.
THEOREM OrientationFits == Spec => []ShapeMatches
<1>1. IInv => ShapeMatches
  BY DEF IInv, CalmShape, Fits, ShapeMatches, Calm, Idle
<1> QED
  BY <1>1, Invariance, PTL

\* For an IDE whose habits are none and a screen that is not compressed, the
\* density of the last ResolutionSwitch survives any series of frames, of
\* orientations and of other commands.
THEOREM DensitySurvives == Spec => []DensityKept
<1>1. IInv => DensityKept
  BY DEF IInv, CalmDensity, Commanded, DensityKept, Calm, Idle
<1> QED
  BY <1>1, Invariance, PTL
=============================================================================
