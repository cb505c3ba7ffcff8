---------------------------- MODULE LiteDevices ----------------------------
(***************************************************************************)
(* Two device mocks of the lite previewer that the main thread, which runs *)
(* commands, shares with the JS thread.                                    *)
(*                                                                         *)
(* The position (mock/lite/GeoLocation.cpp, VirtualLocation.cpp): the      *)
(* Location command stores longitude and latitude one after the other, the *)
(* device check reads them one after the other, compares them with what it *)
(* read before, and calls back the application, which reads them again.    *)
(* Each single access is under the mutex of SharedData, no two are.        *)
(* Coordinates are natural numbers and two of them differ by more than the *)
(* precision of the comparison; the range check, which SharedData has too, *)
(* is in CommandSession.                                                   *)
(*                                                                         *)
(* The messages (VirtualMessageImpl.cpp): DistributedCommunications calls  *)
(* every registered bundle under the mutex that RegistBundle and           *)
(* UnregistBundle take.                                                    *)
(***************************************************************************)
EXTENDS Naturals

CONSTANTS MaxCoordinate,  (* bound on longitude and latitude               *)
          Callbacks,      (* the application's location callbacks          *)
          Bundles,        (* names under which receivers register          *)
          None            (* no callback                                   *)

ASSUME CallbacksAssumption == MaxCoordinate \in Nat /\ None \notin Callbacks

Coordinates == 0 .. MaxCoordinate
Position == [longitude : Coordinates, latitude : Coordinates]
Origin == [longitude |-> 0, latitude |-> 0]

VARIABLES
    position,    (* the two values in SharedData                           *)
    command,     (* what the main thread is doing                          *)
    target,      (* the position that the command under way asks for; this *)
                 (* and what follows of a call are reset when it is over   *)
    engine,      (* what the JS thread is doing                            *)
    read,        (* the first coordinate of the pair that it is reading    *)
    checked,     (* longitudeChecked, latitudeChecked                      *)
    listener,    (* the callback that is being made                        *)
    subscribing, (* is it made by SubGeoLocation?                          *)
    callBack, isSubscribe,
    told,        (* per callback: the position it was given last           *)
    receivers,   (* VirtualMessageImpl::callBacks                          *)
    calling,     (* the receivers that a message has still to be given to  *)
    onward       (* an IDE whose device moves on: no coordinate becomes    *)
                 (* smaller, thus none returns to an earlier value         *)

sharedVars == <<position, target>>
watchVars == <<checked, callBack, isSubscribe, told>>
engineVars == <<engine, read, listener, subscribing>>
messageVars == <<receivers, calling>>
deviceVars == <<sharedVars, command, engineVars, watchVars, messageVars, onward>>

\* Where the two threads are; the callbacks are ones that the application has.
TypeOK ==
    /\ position \in Position /\ target \in Position /\ checked \in Position
    /\ command \in {"none", "stored", "sending"}
    /\ engine \in {"idle", "comparing", "calling", "reading"}
    /\ read \in Coordinates
    /\ listener \in Callbacks \cup {None} /\ callBack \in Callbacks \cup {None}
    /\ subscribing \in BOOLEAN /\ isSubscribe \in BOOLEAN /\ onward \in BOOLEAN
    /\ told \in [Callbacks -> Position]
    /\ receivers \subseteq Bundles /\ calling \subseteq Bundles

DevicesInit ==
    /\ position = Origin /\ target = Origin /\ checked = Origin
    /\ command = "none" /\ engine = "idle" /\ read = 0
    /\ listener = None /\ subscribing = FALSE
    /\ callBack = None /\ isSubscribe = FALSE
    /\ told = [c \in Callbacks |-> Origin]
    /\ receivers = {} /\ calling = {}
    /\ onward \in BOOLEAN

-----------------------------------------------------------------------------
\* Neither coordinate of p is behind that of q.
NotBehind(p, q) == p.longitude >= q.longitude /\ p.latitude >= q.latitude

\* LocationCommand::RunSet.
SetLongitude ==
    /\ command = "none"
    /\ \E p \in Position :
         /\ onward => NotBehind(p, position)
         /\ target' = p
         /\ position' = [position EXCEPT !.longitude = p.longitude]
    /\ command' = "stored"
    /\ UNCHANGED <<engineVars, watchVars, messageVars, onward>>

SetLatitude ==
    /\ command = "stored"
    /\ position' = [position EXCEPT !.latitude = target.latitude]
    /\ target' = Origin
    /\ command' = "none"
    /\ UNCHANGED <<engineVars, watchVars, messageVars, onward>>

\* SendVirtualMessage, from the lock on.
LockReceivers ==
    /\ command = "none"
    /\ command' = "sending"
    /\ calling' = receivers
    /\ UNCHANGED <<sharedVars, engineVars, watchVars, receivers, onward>>

CallReceiver(b) ==
    /\ command = "sending" /\ b \in calling
    /\ calling' = calling \ {b}
    /\ UNCHANGED <<sharedVars, command, engineVars, watchVars, receivers, onward>>

UnlockReceivers ==
    /\ command = "sending" /\ calling = {}
    /\ command' = "none"
    /\ UNCHANGED <<sharedVars, engineVars, watchVars, messageVars, onward>>

-----------------------------------------------------------------------------
\* CheckDevice asks IsPostionChanged, which reads the longitude first.
ReadToCompare ==
    /\ engine = "idle"
    /\ read' = position.longitude
    /\ engine' = "comparing"
    /\ UNCHANGED <<sharedVars, command, listener, subscribing, watchVars, messageVars, onward>>

\* Mutant: both coordinates have to change.
BothChanged(p) == p.longitude # checked.longitude /\ p.latitude # checked.latitude
Changed(p) == p.longitude # checked.longitude \/ p.latitude # checked.latitude

\* The rest of IsPostionChanged, and ExecCallBack.
IsPostionChanged ==
    /\ engine = "comparing"
    /\ read' = 0
    /\ LET p == [longitude |-> read, latitude |-> position.latitude] IN
         IF Changed(p)
         THEN /\ checked' = p
              /\ IF callBack # None /\ isSubscribe
                 THEN engine' = "calling" /\ listener' = callBack
                 ELSE engine' = "idle" /\ UNCHANGED listener
         ELSE engine' = "idle" /\ UNCHANGED <<checked, listener>>
    /\ UNCHANGED <<sharedVars, command, subscribing, callBack, isSubscribe, told, messageVars, onward>>

\* GetGeoLocation and SubGeoLocation call back before anything else.
Ask(c, sub) ==
    /\ engine = "idle"
    /\ engine' = "calling" /\ listener' = c /\ subscribing' = sub
    /\ UNCHANGED <<sharedVars, command, read, watchVars, messageVars, onward>>
GetGeoLocation(c) == Ask(c, FALSE)
SubGeoLocation(c) == Ask(c, TRUE)

\* The callback calls SerializeLocData, which reads the latitude first.
ReadLatitude ==
    /\ engine = "calling"
    /\ read' = position.latitude
    /\ engine' = "reading"
    /\ UNCHANGED <<sharedVars, command, listener, subscribing, watchVars, messageVars, onward>>

\* The callback has its position; a subscription then takes effect.
SerializeLocData ==
    /\ engine = "reading"
    /\ told' = [told EXCEPT ![listener] = [longitude |-> position.longitude, latitude |-> read]]
    /\ engine' = "idle" /\ read' = 0 /\ listener' = None /\ subscribing' = FALSE
    /\ IF subscribing THEN callBack' = listener /\ isSubscribe' = TRUE
                      ELSE UNCHANGED <<callBack, isSubscribe>>
    /\ UNCHANGED <<sharedVars, command, checked, messageVars, onward>>

\* Another callback than the one that is kept is not unsubscribed.
UnSubGeoLocation(c) ==
    /\ engine = "idle" /\ c = callBack
    /\ isSubscribe' = FALSE
    /\ UNCHANGED <<sharedVars, command, engineVars, checked, callBack, told, messageVars, onward>>

DestroyGeoLocation(c) ==
    /\ engine = "idle"
    /\ callBack' = c /\ isSubscribe' = FALSE
    /\ UNCHANGED <<sharedVars, command, engineVars, checked, told, messageVars, onward>>

\* AbilityKit::RegisterReceiver; the mutex is free unless a message is sent.
RegistBundle(b) ==
    /\ engine = "idle" /\ command # "sending"
    /\ receivers' = receivers \cup {b}
    /\ UNCHANGED <<sharedVars, command, engineVars, watchVars, calling, onward>>

\* Mutant: a receiver is erased without the mutex.
EraseBundle(b) ==
    /\ engine = "idle"
    /\ receivers' = receivers \ {b}
    /\ UNCHANGED <<sharedVars, command, engineVars, watchVars, calling, onward>>
UnregistBundle(b) ==
    /\ engine = "idle" /\ command # "sending"
    /\ receivers' = receivers \ {b}
    /\ UNCHANGED <<sharedVars, command, engineVars, watchVars, calling, onward>>

-----------------------------------------------------------------------------
Commands ==
    \/ SetLongitude \/ SetLatitude
    \/ LockReceivers \/ (\E b \in Bundles : CallReceiver(b)) \/ UnlockReceivers
CheckDevice == ReadToCompare \/ IsPostionChanged
CallBack == ReadLatitude \/ SerializeLocData
Requests ==
    \/ \E c \in Callbacks : \/ GetGeoLocation(c) \/ SubGeoLocation(c)
                            \/ UnSubGeoLocation(c) \/ DestroyGeoLocation(c)
    \/ \E b \in Bundles : RegistBundle(b) \/ UnregistBundle(b)

DevicesNext == Commands \/ CheckDevice \/ CallBack \/ Requests

DevicesSpec == DevicesInit /\ [][DevicesNext]_deviceVars

-----------------------------------------------------------------------------
\* A watcher that was told something else than the position, half of it old or
\* all of it, is told again by the next device check, since that check finds the
\* position changed.  This needs a device that moves on: a position that is left
\* and returned to between the comparison and the callback looks unchanged.
WrongIsNoticed ==
    onward /\ engine = "idle" /\ isSubscribe => told[callBack] = position \/ Changed(position)

\* A message is given to no receiver that has been unregistered: a bundle may
\* free what its callback uses as soon as UnregistBundle returns.
NoCallAfterUnregister == calling \subseteq receivers
=============================================================================
