-------------------------- MODULE AbstractSemaphore --------------------------
(***************************************************************************)
(* What a semaphore promises to the threads that use it.  A unit is        *)
(* available, or it has been granted to one client that was waiting, and   *)
(* no unit is available beside a waiting client.  A wait ends by being     *)
(* granted a unit, or fails and has none.  Lists, priorities, timers and   *)
(* the scheduler do not show.                                              *)
(***************************************************************************)
EXTENDS Naturals

CONSTANTS Client, InitUnits, MaxUnits

VARIABLES
  available,   \* units that the next client may take
  waiting,     \* the clients that wait for a unit
  granted      \* the clients that have waited and been given one

Init == available = InitUnits /\ waiting = {} /\ granted = {}

Take ==
  /\ available > 0
  /\ available' = available - 1
  /\ UNCHANGED <<waiting, granted>>

Wait(c) ==
  /\ available = 0
  /\ c \notin waiting \cup granted
  /\ waiting' = waiting \cup {c}
  /\ UNCHANGED <<available, granted>>

(* A release makes a unit available only when nobody waits. *)
Release ==
  /\ waiting = {}
  /\ available < MaxUnits
  /\ available' = available + 1
  /\ UNCHANGED <<waiting, granted>>

Grant(c) ==
  /\ c \in waiting
  /\ waiting' = waiting \ {c}
  /\ granted' = granted \cup {c}
  /\ UNCHANGED available

(* The client that was granted a unit returns with it. *)
Return(c) ==
  /\ c \in granted
  /\ granted' = granted \ {c}
  /\ UNCHANGED <<available, waiting>>

(* A wait that fails (time-out, reset, deletion) *)
Fail(c) ==
  /\ c \in waiting
  /\ waiting' = waiting \ {c}
  /\ UNCHANGED <<available, granted>>

(* A reset leaves no client waiting and takes back no unit that was granted. *)
Reset ==
  /\ waiting = {}
  /\ available' \in 0 .. MaxUnits
  /\ UNCHANGED <<waiting, granted>>

Next ==
  \/ Take \/ Release \/ Reset
  \/ \E c \in Client : Wait(c) \/ Grant(c) \/ Return(c) \/ Fail(c)

Spec == Init /\ [][Next]_<<available, waiting, granted>>
=============================================================================
