------------------------- MODULE MCWorkbenchClient -------------------------
(* Instances of WorkbenchClient for TLC: two tasks, the second by a queued or a
   later message, with two requests in all and one trouble; for the plan, one
   task and one request. *)
EXTENDS WorkbenchClient
=============================================================================
