------------------------------- MODULE MCTimer -------------------------------
(* Hard timers on a small instance: a tick of three bits, a periodic timer p *)
(* and a one-shot timer s.                                                  *)
EXTENDS Timer

CONSTANTS p, s, c1, c2

Nop(t) == {<<"none", t>>}

(* Each client has a timer of its own; p may stop or start itself and s may *)
(* detach itself.                                                           *)
OwnTimers == [uses     |-> c1 :> {s} @@ c2 :> {p},
              callback |-> p :> Nop(p) \cup {<<"stop", p>>, <<"start", p>>}
                        @@ s :> Nop(s) \cup {<<"detach", s>>}]

(* The periodic timer p may stop itself and is started and stopped by s. *)
Driven == [uses     |-> c1 :> {s} @@ c2 :> {},
           callback |-> p :> Nop(p) \cup {<<"stop", p>>}
                     @@ s :> Nop(s) \cup {<<"stop", p>>, <<"start", p>>}]

Programs == {OwnTimers, Driven}

(* The hypotheses of the theorems in TimerProofs *)
ASSUME TimesFit /\ \A q \in Programs : Separate(q) /\ SelfCallsFit(q)
=============================================================================
