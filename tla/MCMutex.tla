------------------------------- MODULE MCMutex -------------------------------
(* Mutexes on an instance with an urgent thread a, a middle one b, a low    *)
(* one c and the idle thread.                                               *)
EXTENDS Mutex

CONSTANTS a, b, c, idle, m1, m2

MCBasePrio == a :> 0 @@ b :> 1 @@ c :> 2 @@ idle :> 3
MCReadyOrder == 0 :> <<>> @@ 1 :> <<b>> @@ 2 :> <<c>> @@ 3 :> <<idle>>

(* c uses both; a and b each wait for one of them. *)
UsesBoth == a :> {m1} @@ b :> {m2} @@ c :> {m1, m2} @@ idle :> {}
(* The same, but the two contend for the same mutex. *)
UsesTwo == a :> {m1} @@ b :> {m1} @@ c :> {m1, m2} @@ idle :> {}
(* b uses no mutex and only competes for the processor. *)
UsesHog == a :> {m1} @@ b :> {} @@ c :> {m1} @@ idle :> {}

(* The urgent thread gets the mutex it waits for although b, more urgent    *)
(* than the owner c, never blocks: bounded priority inversion.              *)
UrgentAcquires == \A m \in Mutexes : a \in On(k, m) ~> a \notin On(k, m)
=============================================================================
