--------------------------- MODULE MCDeviceConfig ---------------------------
(* DeviceConfig with an upright, a flat and a compressed resolution, a     *)
(* preview of either kind of device and three commands, for every choice   *)
(* of the IDE's habits.                                                    *)
EXTENDS DeviceConfig

MCStart == [orig |-> <<2, 3>>, comp |-> <<2, 3>>]
MCResolutions == {MCStart, [orig |-> <<3, 1>>, comp |-> <<3, 1>>],
                  [orig |-> <<4, 6>>, comp |-> <<2, 3>>]}
MCPreviews == {[size |-> <<3, 1>>, orientation |-> "landscape", dpi |-> 1, type |-> "phone"],
               [size |-> <<1, 2>>, orientation |-> "portrait", dpi |-> 2, type |-> "tv"]}
=============================================================================
