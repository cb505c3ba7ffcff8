---------------------------- MODULE MCSharedData ----------------------------
(* The thin previewer: the main thread watches the brightness, the          *)
(* application's thread the heart rate (with a period, in the same group)   *)
(* and the step count.                                                      *)
EXTENDS SharedData

MCTypes == {"BRIGHTNESS_VALUE", "HEARTBEAT_VALUE", "SUMSTEP_VALUE"}
MCGroups == {"uint8_t", "uint32_t"}
MCGroupOf == [t \in MCTypes |-> IF t = "SUMSTEP_VALUE" THEN "uint32_t" ELSE "uint8_t"]
MCThreads == {"main", "js"}
MCConsumer == [t \in MCTypes |-> IF t = "BRIGHTNESS_VALUE" THEN "main" ELSE "js"]
MCPeriod == [t \in MCTypes |-> IF t = "HEARTBEAT_VALUE" THEN 2 ELSE 1]
=============================================================================
