---------------------------- MODULE MCRichLaunch ----------------------------
(* RichLaunch with two colour modes, for every choice of what the IDE sends *)
(* before the main loop runs.                                               *)
EXTENDS RichLaunch

CONSTANTS light, dark

MCModes == {light, dark}
=============================================================================
