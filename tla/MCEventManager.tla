--------------------------- MODULE MCEventManager ---------------------------
(* Listeners of two event types whose callbacks remove listeners (themselves
   included), add some of both types, and dispatch both types again. *)
EXTENDS EventManager

CONSTANTS KeyDown, Selected

MCType == {KeyDown, Selected}
=============================================================================
