----------------------------- MODULE MCSemaphore -----------------------------
(* Semaphores on an instance with three worker threads and the idle thread: *)
(* two threads of equal priority and a more urgent one that runs first.     *)
EXTENDS Semaphore

CONSTANTS a, b, c, idle

MCBasePrio == a :> 0 @@ b :> 1 @@ c :> 1 @@ idle :> 2
MCReadyOrder == 0 :> <<>> @@ 1 :> <<b, c>> @@ 2 :> <<idle>>
=============================================================================
