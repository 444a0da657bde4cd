------------------------------- MODULE MCThread -------------------------------
(* Threads on a small instance: a controls b, of the same priority; the     *)
(* more urgent c sleeps, waits for interrupts and exits; d has the priority *)
(* of the idle thread and exits.                                            *)
EXTENDS Thread

CONSTANTS a, b, c, d, idle

MCBasePrio == a :> 1 @@ b :> 1 @@ c :> 0 @@ d :> 2 @@ idle :> 2
MCReadyOrder == 0 :> <<>> @@ 1 :> <<a, b>> @@ 2 :> <<idle, d>>

None == [t \in Thread |-> {}]
MCControls == a :> {b} @@ None
MCCreates == a :> {b, c, d} @@ None

(* The hypothesis of the theorems in ThreadProofs, unless b is to sleep while a deletes it. *)
ASSUME b \notin Sleepers => Disciplined
=============================================================================
