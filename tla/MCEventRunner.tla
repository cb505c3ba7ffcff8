--------------------------- MODULE MCEventRunner ---------------------------
(* EventRunner with the two threads that post in the rich previewer: the   *)
(* command thread and the main thread's own callbacks.                     *)
EXTENDS EventRunner

CONSTANTS cmd, main

MCPosters == {cmd, main}
MCDelays == {0, 1}
=============================================================================
