---------------------------- MODULE DeviceConfig ----------------------------
(***************************************************************************)
(* The size, orientation and density of the rich previewer's device, which *)
(* are kept in five places: JsAppImpl (width, height, orientation), the    *)
(* arguments aceRunArgs, VirtualScreen, what the engine was told last, and *)
(* the GLFW window.  Three threads touch them: the command thread runs     *)
(* ResolutionSwitch, Orientation and LoadDocument; the rendering thread    *)
(* stores the size of every frame in VirtualScreen; the main thread        *)
(* resizes the window in a posted task.                                    *)
(*                                                                         *)
(* A width and its height are read or written one right after the other;   *)
(* they are one step here.  The device runs, without a debugger.           *)
(***************************************************************************)

EXTENDS Naturals

CONSTANTS Resolutions,   (* [orig |-> size, comp |-> size] of a command     *)
          Start,         (* the resolution of the command line              *)
          Previews,      (* [size, orientation, dpi, type]: previewParam    *)
          Dpis,          (* densities, in units of BASE_SCREEN_DENSITY      *)
          Types,         (* kinds of device                                 *)
          DeviceType,    (* the one on the command line                     *)
          LaunchDpis,    (* values of the option -sd, 0 if not given        *)
          DefaultDpi,    (* the density of a type nobody set                *)
          MaxCommands    (* bound: commands the IDE sends                   *)

Size == (Nat \ {0}) \X (Nat \ {0})
Orientations == {"portrait", "landscape"}
Resolution == [orig : Size, comp : Size]
Preview == [size : Size, orientation : Orientations, dpi : Nat \ {0}, type : Types]

ASSUME SizesAssumption ==
    /\ Resolutions \subseteq Resolution /\ Start \in Resolution
    /\ Previews \subseteq Preview
ASSUME DensityAssumption ==
    /\ Dpis \subseteq Nat \ {0} /\ DefaultDpi \in Nat \ {0}
    /\ LaunchDpis \subseteq Nat /\ DeviceType \in Types
ASSUME BoundAssumption == MaxCommands \in Nat

VARIABLES
    habits,       (* what this IDE does: "overlap", it sends commands while *)
                  (* frames are under way; "preview", it sends LoadDocument;*)
                  (* "scaled", its resolutions may compress the screen      *)
    launchDpi,    (* JsAppImpl::screenDensity, the option -sd               *)
    sent,         (* number of commands so far                              *)
    cmd,          (* the command in progress                                *)
    step,         (* where its handler is                                   *)
    size,         (* JsAppImpl::width and height                            *)
    orientation,  (* JsAppImpl::orientation                                 *)
    args,         (* aceRunArgs: [size, orientation, density]               *)
    screen,       (* VirtualScreen: orignal and compression resolution      *)
    dpi,          (* JsAppImpl's screen density of every type               *)
    commanded,    (* history: the density of the last ResolutionSwitch      *)
    surface,      (* what the engine was told last, a copy of args          *)
    rendered,     (* the size of the engine's frames                        *)
    frame,        (* the frame inside CallBack, <<>> if none                *)
    stored,       (* CallBack has stored its original resolution            *)
    docFlag,      (* VirtualScreen::startLoadDoc                            *)
    tasks,        (* posted SetWindowSize tasks                             *)
    window        (* the size of the GLFW window                            *)

ide == <<habits, launchDpi, sent, cmd>>
config == <<size, orientation, args, dpi>>
engine == <<surface, rendered>>
callBack == <<frame, stored>>
main == <<tasks, window>>
vars == <<ide, step, config, screen, commanded, engine, callBack, docFlag, main>>

Swap(s) == <<s[2], s[1]>>
Shape(s) == IF s[1] <= s[2] THEN "portrait" ELSE "landscape"

\* AdaptDeviceType: the arguments' width over the width, in units of the base
\* density, that the real device has.  A fraction.
AdaptDeviceType(real, width, d) == [num |-> width * d, den |-> real]

LaunchedDpi == IF launchDpi # 0 THEN launchDpi ELSE DefaultDpi

\* What InitJsApp, InitVirtualScreen and SetJsAppArgs leave behind.
StartArgs ==
    [size |-> Start.comp, orientation |-> Shape(Start.comp),
     density |-> AdaptDeviceType(Start.orig[1], Start.comp[1], LaunchedDpi)]

Density == [num : Nat, den : Nat \ {0}]
Args == [size : Size, orientation : Orientations, density : Density]

Commands ==
    [kind : {"none"}]
      \cup [kind : {"resolution"}, orig : Size, comp : Size, dpi : Nat \ {0}]
      \cup [kind : {"orientation"}, orientation : Orientations]
      \cup [kind : {"document"}, param : Preview]

\* Every copy of the configuration is a size, an orientation or a density; no
\* density has a zero denominator, and there is at most one task per command.
TypeOK ==
    /\ habits \subseteq {"overlap", "preview", "scaled"}
    /\ launchDpi \in LaunchDpis /\ sent \in 0 .. MaxCommands
    /\ cmd \in Commands
    /\ step \in {"idle", "orig", "comp", "adapt", "assign", "notify", "parse", "finish"}
    /\ size \in Size /\ orientation \in Orientations
    /\ args \in Args /\ surface \in Args
    /\ screen \in Resolution
    /\ dpi \in [Types -> Nat \ {0}] /\ commanded \in Nat \ {0}
    /\ rendered \in Size /\ (frame = <<>> \/ frame \in Size)
    /\ stored \in BOOLEAN
    /\ docFlag \in {"INIT", "START", "FINISHED", "NORMAL"}
    /\ tasks \in 0 .. MaxCommands /\ window \in Size

Init ==
    /\ habits \in SUBSET {"overlap", "preview", "scaled"}
    /\ launchDpi \in LaunchDpis
    /\ sent = 0 /\ cmd = [kind |-> "none"] /\ step = "idle"
    /\ size = Start.comp /\ orientation = Shape(Start.comp)
    /\ args = StartArgs /\ surface = StartArgs
    /\ screen = Start
    /\ dpi = [t \in Types |-> IF t = DeviceType THEN LaunchedDpi ELSE DefaultDpi]
    /\ commanded = LaunchedDpi
    /\ rendered = Start.comp /\ frame = <<>> /\ stored = FALSE
    /\ docFlag = "INIT"
    /\ tasks = 0 /\ window = Start.comp

-----------------------------------------------------------------------------
Idle == step = "idle"
Settled == frame = <<>> /\ rendered = surface.size /\ screen.comp = surface.size

\* The next command.  An IDE that does not overlap waits until the frames have
\* the size that the last command asked for.
Begin(c, next) ==
    /\ Idle /\ sent < MaxCommands
    /\ "overlap" \in habits \/ Settled
    /\ cmd' = c /\ sent' = sent + 1 /\ step' = next
    /\ UNCHANGED <<habits, launchDpi>>

Go(here, next) == step = here /\ step' = next /\ UNCHANGED ide

\* ResolutionChanged: the arguments take the new size first.
ResolutionSwitch(r, d) ==
    /\ "scaled" \in habits \/ r.orig = r.comp
    /\ Begin([kind |-> "resolution", orig |-> r.orig, comp |-> r.comp, dpi |-> d], "orig")
    /\ args' = [args EXCEPT !.size = r.comp]
    /\ commanded' = d
    /\ UNCHANGED <<size, orientation, dpi, screen, engine, callBack, docFlag, main>>

\* Mutant of Orientation: the request is not compared with the orientation.
OrientationAlways(o) ==
    /\ Begin([kind |-> "orientation", orientation |-> o], "orig")
    /\ args' = [args EXCEPT !.size = Swap(size)]
    /\ UNCHANGED <<size, orientation, dpi, screen, commanded, engine, callBack,
                   docFlag, main>>

\* The Orientation command does something only when the orientation changes;
\* OrientationChanged swaps the sizes.
Orientation(o) ==
    /\ o # orientation
    /\ Begin([kind |-> "orientation", orientation |-> o], "orig")
    /\ args' = [args EXCEPT !.size = Swap(size)]
    /\ UNCHANGED <<size, orientation, dpi, screen, commanded, engine, callBack,
                   docFlag, main>>

\* LoadDocument closes CallBack to frames while it runs.
LoadDocument(p) ==
    /\ "preview" \in habits
    /\ Begin([kind |-> "document", param |-> p], "parse")
    /\ docFlag' = "START"
    /\ UNCHANGED <<config, screen, commanded, engine, callBack, main>>

-----------------------------------------------------------------------------
\* SetVirtualScreenWidthAndHeight or WidthAndHeightReverse: the original
\* resolution, and then the compressed one.
SetOrignal ==
    /\ Go("orig", "comp")
    /\ screen' = [screen EXCEPT !.orig =
                      IF cmd.kind = "resolution" THEN cmd.orig ELSE Swap(@)]
    /\ UNCHANGED <<config, commanded, engine, callBack, docFlag, main>>

SetCompression ==
    /\ Go("comp", "adapt")
    /\ screen' = [screen EXCEPT !.comp =
                      IF cmd.kind = "resolution" THEN cmd.comp ELSE Swap(@)]
    /\ UNCHANGED <<config, commanded, engine, callBack, docFlag, main>>

\* Mutant of Adapt: the density is computed before the new one is stored.
AdaptBeforeSet ==
    /\ Go("adapt", "assign")
    /\ dpi' = IF cmd.kind = "resolution" THEN [dpi EXCEPT ![DeviceType] = cmd.dpi] ELSE dpi
    /\ args' = [args EXCEPT !.density =
                    AdaptDeviceType(screen.orig[1], args.size[1], dpi[DeviceType])]
    /\ UNCHANGED <<size, orientation, screen, commanded, engine, callBack, docFlag, main>>

\* SetDeviceScreenDensity (ResolutionSwitch only), and then AdaptDeviceType,
\* which reads VirtualScreen.
Adapt ==
    /\ Go("adapt", "assign")
    /\ dpi' = IF cmd.kind = "resolution" THEN [dpi EXCEPT ![DeviceType] = cmd.dpi] ELSE dpi
    /\ args' = [args EXCEPT !.density =
                    AdaptDeviceType(screen.orig[1], args.size[1], dpi'[DeviceType])]
    /\ UNCHANGED <<size, orientation, screen, commanded, engine, callBack, docFlag, main>>

\* Mutant of Assign: the original resolution is copied.
AssignOrignal ==
    /\ Go("assign", "notify")
    /\ size' = screen.orig
    /\ UNCHANGED <<orientation, args, dpi, screen, commanded, engine, callBack,
                   docFlag, main>>

\* AssignValueForWidthAndHeight: JsAppImpl's size is read back from VirtualScreen.
Assign ==
    /\ Go("assign", "notify")
    /\ size' = screen.comp
    /\ UNCHANGED <<orientation, args, dpi, screen, commanded, engine, callBack,
                   docFlag, main>>

\* ParseSystemParams with a previewParam, which the command's check makes sure of.
ParseSystemParams ==
    LET p == cmd.param IN
    /\ Go("parse", "notify")
    /\ size' = p.size
    /\ dpi' = IF launchDpi # 0 THEN [dpi EXCEPT ![p.type] = launchDpi] ELSE dpi
    /\ args' = [size |-> p.size, orientation |-> p.orientation,
                density |-> AdaptDeviceType(p.size[1], p.size[1], p.dpi)]
    /\ UNCHANGED <<orientation, screen, commanded, engine, callBack, docFlag, main>>

NewOrientation ==
    CASE cmd.kind = "resolution"  -> Shape(cmd.comp)
      [] cmd.kind = "orientation" -> cmd.orientation
      [] cmd.kind = "document"    -> orientation

NewArgs ==
    IF cmd.kind = "document" THEN args
    ELSE [args EXCEPT !.orientation = NewOrientation]

AfterNotify == IF cmd.kind = "document" THEN "finish" ELSE "idle"

\* Mutant of Notify: OrientationChanged posts nothing.
NotifyWithoutTask ==
    /\ Go("notify", AfterNotify)
    /\ orientation' = NewOrientation
    /\ args' = NewArgs /\ surface' = NewArgs
    /\ tasks' = IF cmd.kind = "orientation" THEN tasks ELSE tasks + 1
    /\ UNCHANGED <<size, dpi, screen, commanded, rendered, callBack, docFlag, window>>

\* The end of the three handlers: the orientation is set, the resize is posted
\* and the engine is told.
Notify ==
    /\ Go("notify", AfterNotify)
    /\ orientation' = NewOrientation
    /\ args' = NewArgs /\ surface' = NewArgs
    /\ tasks' = tasks + 1
    /\ UNCHANGED <<size, dpi, screen, commanded, rendered, callBack, docFlag, window>>

FinishDocument ==
    /\ Go("finish", "idle")
    /\ docFlag' = "FINISHED"
    /\ UNCHANGED <<config, screen, commanded, engine, callBack, main>>

-----------------------------------------------------------------------------
\* External: the engine takes over the surface it was told.
Resize ==
    /\ rendered # surface.size
    /\ rendered' = surface.size
    /\ UNCHANGED <<ide, step, config, screen, commanded, surface, callBack, docFlag, main>>

\* CallBack passes its early returns.  A page whose IDE does not overlap draws
\* only after a command.
CallBack ==
    /\ frame = <<>>
    /\ docFlag \in {"INIT", "FINISHED"}
    /\ "overlap" \in habits \/ Idle
    /\ frame' = rendered /\ stored' = FALSE
    /\ UNCHANGED <<ide, step, config, screen, commanded, engine, docFlag, main>>

\* ... and stores the size of the frame, as original and as compressed one.
StoreOrignal ==
    /\ frame # <<>> /\ ~stored
    /\ screen' = [screen EXCEPT !.orig = frame]
    /\ stored' = TRUE
    /\ UNCHANGED <<ide, step, config, commanded, engine, frame, docFlag, main>>

StoreCompression ==
    /\ frame # <<>> /\ stored
    /\ screen' = [screen EXCEPT !.comp = frame]
    /\ frame' = <<>> /\ stored' = FALSE
    /\ UNCHANGED <<ide, step, config, commanded, engine, docFlag, main>>

\* The timer thread of a document: its window is over (module LoadDocImage).
StartTimer ==
    /\ docFlag = "FINISHED"
    /\ docFlag' = "NORMAL"
    /\ UNCHANGED <<ide, step, config, screen, commanded, engine, callBack, main>>

\* The task reads JsAppImpl's size when it runs.
SetWindowSize ==
    /\ tasks > 0
    /\ tasks' = tasks - 1
    /\ window' = size
    /\ UNCHANGED <<ide, step, config, screen, commanded, engine, callBack, docFlag>>

Handler ==
    \/ SetOrignal \/ SetCompression \/ Adapt \/ Assign
    \/ ParseSystemParams \/ Notify \/ FinishDocument

Frames == Resize \/ CallBack \/ StoreOrignal \/ StoreCompression \/ StartTimer

Next ==
    \/ \E r \in Resolutions, d \in Dpis : ResolutionSwitch(r, d)
    \/ \E o \in Orientations : Orientation(o)
    \/ \E p \in Previews : LoadDocument(p)
    \/ Handler
    \/ Frames
    \/ SetWindowSize

Spec == Init /\ [][Next]_vars

-----------------------------------------------------------------------------
\* Whatever the commands and the frames do to each other, once the handlers and
\* the posted tasks have run the window has the size JsAppImpl believes in: the
\* task reads the size late, so a later command must post again.
WindowFollows == Idle /\ tasks = 0 => window = size

Calm == Idle /\ "overlap" \notin habits

\* When no frame overlaps a command, JsAppImpl, the arguments and the engine
\* agree on the size, although the first two get it along different ways (from
\* the command, and back from VirtualScreen, where frames leave theirs).
SizesAgree == Calm => size = args.size /\ surface.size = size

\* The engine is never told an orientation that contradicts the shape of the
\* size: OrientationChanged swaps whatever it finds, so the orientation it
\* compares with must describe the present size.  Square sizes have no shape,
\* and LoadDocument does not update the orientation.
ShapeMatches ==
    Calm /\ "preview" \notin habits /\ surface.size[1] # surface.size[2] =>
        /\ surface.orientation = Shape(surface.size)
        /\ orientation = surface.orientation

\* The density given by the last ResolutionSwitch survives the frames and the
\* changes of orientation that follow it, unless a resolution, the first one
\* included, compresses the screen (frames forget the original one) or
\* LoadDocument reinstates -sd.
DensityKept ==
    Calm /\ habits = {} /\ Start.orig = Start.comp =>
        surface.density.num = commanded * surface.density.den
=============================================================================
