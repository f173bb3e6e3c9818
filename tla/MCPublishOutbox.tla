--------------------------- MODULE MCPublishOutbox ---------------------------
(* Small instances of PublishOutbox. *)
EXTENDS PublishOutbox

CONSTANTS e1, e2, r1, r2, r1raw

\* wss://r1/ and wss://r2/ are normalized, "wss://r1" is the same relay as the first.
MCUrls == {r1, r2, r1raw}
MCNorm == (r1 :> r1) @@ (r2 :> r2) @@ (r1raw :> r1)

MCIdentity == [u \in Urls |-> u]

MCSymmetry == Permutations(Tabs) \cup Permutations(Urls)

MCBoth == {{r1, r2}}
MCSetsAndEmpty == {{}, {r1, r2}, {r1raw}}

\* Two replays of a tab overlap only after the publish has ended with one relay
\* computed, and nothing fails or expires before they are done; a write fails or time
\* passes.  What this cuts off is no step that fairness asks for.
MCOverlaps ==
    /\ \/ \A t \in Tabs : rp[<<t, 2>>].pc = "idle"
       \/ /\ now = 0 /\ spent.crashes + spent.failures = 0
          /\ \A e \in Events : live[e].phase = "over" /\ hist[e].computed \subseteq {{r1}}
    /\ now = 0 \/ spent.failures = 0

MCNoCompanions == [e \in Events |-> {}]
\* e1 is an article, e2 the licence attestation of its cover image
MCLicence == [e \in Events |-> IF e = e1 THEN {e2} ELSE {}]
=============================================================================
