--------------------------- MODULE OutboxPromise ---------------------------
(***************************************************************************)
(* What the publish outbox promises, without tabs, chains or replays:      *)
(* an event handed to it is kept until some relay set chosen for it has    *)
(* been asked in full, and only then, or once it is given up, forgotten.   *)
(* The same event may be handed over, aimed and asked again.               *)
(***************************************************************************)

CONSTANTS
    Events,     \* signed events
    Urls        \* relays, normalized

VARIABLES
    kept,       \* events the outbox holds
    goals,      \* event -> relay sets chosen for it
    asked,      \* event -> relays asked
    excused     \* events given up for age or attempts, or whose entry could not be written

vars == <<kept, goals, asked, excused>>

Init ==
    /\ kept = {} /\ excused = {}
    /\ goals = [e \in Events |-> {}]
    /\ asked = [e \in Events |-> {}]

Served(e) == \E R \in goals[e] : R \subseteq asked[e]

Keep(e) ==
    /\ kept' = kept \cup {e}
    /\ UNCHANGED <<goals, asked, excused>>

\* One relay set for an event and those sent along with it.
Aim(S, R) ==
    /\ goals' = [e \in Events |-> IF e \in S THEN goals[e] \cup {R} ELSE goals[e]]
    /\ UNCHANGED <<kept, asked, excused>>

Ask(e, S) ==
    /\ asked' = [asked EXCEPT ![e] = @ \cup S]
    /\ UNCHANGED <<kept, goals, excused>>

Excuse(e) ==
    /\ excused' = excused \cup {e}
    /\ UNCHANGED <<kept, goals, asked>>

Forget(e) ==
    /\ e \in kept
    /\ e \in excused \/ Served(e)
    /\ kept' = kept \ {e}
    /\ UNCHANGED <<goals, asked, excused>>

Next ==
    \/ \E e \in Events : Keep(e) \/ Excuse(e) \/ Forget(e)
    \/ \E S \in SUBSET Events, R \in SUBSET Urls : Aim(S, R)
    \/ \E e \in Events, S \in SUBSET Urls : Ask(e, S)

Spec == Init /\ [][Next]_vars /\ \A e \in Events : WF_vars(Forget(e))
=============================================================================
