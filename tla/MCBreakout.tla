------------------------------ MODULE MCBreakout ------------------------------
(* Small instances of Breakout: two rooms. *)
EXTENDS Breakout

\* What comes after an oddity is not followed any further, except a refused
\* token, which leaves the seat where it was.
FirstOddity == me.odd \subseteq {"refused"}

\* A press comes with a failure or the deadline and nothing else, and the host
\* acts no more than once until a request for a room is answered.  Only inputs
\* are cut off, no step that fairness asks for.
Paired ==
    /\ spent'.user > 0 /\ spent'.faults > 0 => spent'.host = 0
    /\ spent'.user > 0 /\ relay'.late => spent'.host <= 1
    /\ me'.joinRequest # None \/ (\E m \in me'.moves : m.kind = "request") => spent'.host <= 1
=============================================================================
