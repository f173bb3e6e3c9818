------------------------ MODULE MCPublishOutboxShared ------------------------
(***************************************************************************)
(* Two ways in which an entry of the outbox has several writers, in one    *)
(* instance: two tabs publish and replay one event, or a tab enqueues an   *)
(* event that is being published once more, as the companion of another    *)
(* event, and may be closed.                                               *)
(***************************************************************************)
EXTENDS MCPublishOutbox

SomeRelays == SUBSET Urls \ {{}}

TwoTabs ==
    /\ live[e2].phase = "new" /\ spent.crashes = 0
    /\ hist[e1].computed \subseteq {{r1, r2}}

\* No replay runs or has listed the article, and one tab publishes.
ArticleAndLicence ==
    /\ ~hist[e1].shared /\ \A p \in Replays : rp[p].pc = "idle"
    /\ \A e, f \in Events : live[e].tab = live[f].tab \/ None \in {live[e].tab, live[f].tab}

OneOrTheOther == TwoTabs \/ ArticleAndLicence
=============================================================================
