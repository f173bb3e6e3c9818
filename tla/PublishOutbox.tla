--------------------------- MODULE PublishOutbox ---------------------------
(***************************************************************************)
(* The persistent publish outbox: services/publish-outbox.js, with the     *)
(* publish paths of services/publish-service.js that write it.             *)
(*                                                                         *)
(* An entry per event lives in IndexedDB, which every tab shares and which *)
(* survives a closed tab.  Each tab applies its own writes in call order   *)
(* through a serial chain; setPendingRelays and markRelayDone read the     *)
(* entry in one transaction and write it back in a second one, so another  *)
(* tab can write in between.  A replay (boot, "online" event) is not       *)
(* guarded against another replay of the same tab.                         *)
(***************************************************************************)
EXTENDS Naturals, SequencesExt

CONSTANTS
    Events,             \* signed events
    Urls,               \* relay URLs as relay lists spell them
    Norm,               \* normalizeURL: Urls -> Urls
    RelaySets,          \* what computePublishRelays may return
    Tabs,               \* browser tabs on the same origin
    Slots,              \* replays one tab may have in flight
    CompanionsOf,       \* the events publishEventOptimistic sends along
    MaxAttempts,        \* OUTBOX_MAX_ATTEMPTS
    MaxAge,             \* OUTBOX_MAX_AGE_MS, in steps of the model's clock
    MaxNow,             \* bound: the clock stops here
    MaxCrashes,         \* bound: tabs closed
    MaxWriteFailures,   \* bound: writes that reject
    None                \* null / undefined

Replays == Tabs \X Slots
TabOf(p) == p[1]

NormalizeAll(R) == {Norm[r] : r \in R}

Entry == [pending : {None} \cup SUBSET Urls, attempts : 0..MaxAttempts, born : 0..MaxNow]

\* One write (or listing) queued on a tab's serial chain; `by` is the replay
\* that awaits it, None for the publish paths, which do not.
Op ==
    [kind : {"put"}, ev : Events, entry : Entry, by : Replays \cup {None}]
    \cup [kind : {"set"}, ev : Events, relays : SUBSET Urls, by : Replays \cup {None}]
    \cup [kind : {"done"}, ev : Events, relay : Urls, by : Replays \cup {None}]
    \cup [kind : {"remove"}, ev : Events, by : Replays]
    \cup [kind : {"list"}, by : Replays]

ASSUME OutboxAssumption ==
    /\ MaxAttempts \in Nat \ {0} /\ MaxAge \in Nat /\ MaxNow \in Nat
    /\ MaxCrashes \in Nat /\ MaxWriteFailures \in Nat
    /\ IsFiniteSet(Urls) /\ IsFiniteSet(Events)
    /\ Norm \in [Urls -> Urls] /\ \A u \in Urls : Norm[Norm[u]] = Norm[u]
    /\ RelaySets \subseteq SUBSET Urls
    /\ CompanionsOf \in [Events -> SUBSET Events]
    /\ None \notin Events \cup Tabs \cup Replays
    /\ \A x \in SUBSET Urls : x # None
    /\ \A x \in Entry : x # None

VARIABLES
    store,      \* IndexedDB: event -> entry or None
    chain,      \* tab -> queue of Op
    got,        \* tab -> the entry its chain's head has read, None before
    live,       \* event -> its own publish (publishEvent / -Optimistic)
    comp,       \* event -> its publish as a companion of another event
    rp,         \* replay -> where replayOutbox is
    now,        \* Date.now(), coarse
    spent,      \* crashes and write failures so far
    hist        \* history, read by the properties only

vars == <<store, chain, got, live, comp, rp, now, spent, hist>>

LivePhases == {"new", "computing", "fanout", "over"}
ReplayPcs == {"idle", "listing", "next", "dropping", "computing", "setting",
              "counting", "putting", "publish", "mark", "marking"}

LiveRun == [phase : LivePhases, tab : Tabs \cup {None}, waiting : SUBSET Urls]
ReplayRun == [pc : ReplayPcs, now : 0..MaxNow,
              todo : [Events -> {None} \cup Entry], ev : Events \cup {None},
              relays : SUBSET Urls, results : SUBSET Urls]
History == [target : {None} \cup SUBSET Urls, computed : SUBSET SUBSET Urls,
            asked : SUBSET Urls, answered : SUBSET Urls, durable : BOOLEAN,
            shared : BOOLEAN, gaveUp : BOOLEAN, faulty : BOOLEAN]

IdleReplay == [pc |-> "idle", now |-> 0, todo |-> [e \in Events |-> None],
               ev |-> None, relays |-> {}, results |-> {}]
NoCompanionRun == [tab |-> None, relays |-> {}]

Init ==
    /\ store = [e \in Events |-> None]
    /\ chain = [t \in Tabs |-> <<>>]
    /\ got = [t \in Tabs |-> None]
    /\ live = [e \in Events |-> [phase |-> "new", tab |-> None, waiting |-> {}]]
    /\ comp = [e \in Events |-> NoCompanionRun]
    /\ rp = [p \in Replays |-> IdleReplay]
    /\ now = 0
    /\ spent = [crashes |-> 0, failures |-> 0]
    /\ hist = [e \in Events |->
                [target |-> None,       \* the relay set its own publish computed
                 computed |-> {},       \* every relay set any publish of it was given
                 asked |-> {},          \* relays an attempt has come back from
                 answered |-> {},       \* relays that gave a definitive answer
                 durable |-> FALSE,     \* its enqueue reached IndexedDB
                 shared |-> FALSE,      \* a replay listed it, or it was a companion
                 gaveUp |-> FALSE,      \* a replay dropped it for age or attempts
                 faulty |-> FALSE]]     \* a write of its entry was rejected

----------------------------------------------------------------------------
(* The serial chain of a tab. *)

EnqueueOp(e, P) ==
    [kind |-> "put", ev |-> e, by |-> None,
     entry |-> [pending |-> P, attempts |-> 0, born |-> now]]
SetOp(e, R, by) == [kind |-> "set", ev |-> e, relays |-> NormalizeAll(R), by |-> by]
DoneOp(e, r, by) == [kind |-> "done", ev |-> e, relay |-> Norm[r], by |-> by]

Queue(t, ops) == chain' = [chain EXCEPT ![t] = @ \o ops]

\* What an awaiting replay does once its write is through.
Continue(run) ==
    [run EXCEPT !.pc =
        CASE @ \in {"listing", "dropping"} -> "next"
          [] @ = "setting" -> "counting"
          [] @ = "putting" -> "publish"
          [] @ = "marking" -> IF run.results = {} THEN "next" ELSE "mark"
          [] OTHER -> @]

\* The head operation of t's chain completes and its caller continues.
Complete(t) ==
    LET op == Head(chain[t]) IN
    /\ chain' = [chain EXCEPT ![t] = Tail(@)]
    /\ got' = [got EXCEPT ![t] = None]
    /\ rp' = IF op.by = None THEN rp ELSE [rp EXCEPT ![op.by] = Continue(@)]

ExecPut(t) ==
    /\ chain[t] # <<>> /\ Head(chain[t]).kind = "put"
    /\ LET op == Head(chain[t]) IN
       /\ store' = [store EXCEPT ![op.ev] = op.entry]
       /\ hist' = [hist EXCEPT ![op.ev].durable = TRUE]
    /\ Complete(t)
    /\ UNCHANGED <<live, comp, now, spent>>

ExecRemove(t) ==
    /\ chain[t] # <<>> /\ Head(chain[t]).kind = "remove"
    /\ store' = [store EXCEPT ![Head(chain[t]).ev] = None]
    /\ Complete(t)
    /\ UNCHANGED <<live, comp, now, spent, hist>>

\* Mutant: entries without a relay set are not listed.
ExecList_known(t) ==
    /\ chain[t] # <<>> /\ Head(chain[t]).kind = "list"
    /\ LET known(e) == store[e] # None /\ store[e].pending # None IN
       rp' = [rp EXCEPT ![Head(chain[t]).by].pc = "next",
                        ![Head(chain[t]).by].todo =
                            [e \in Events |-> IF known(e) THEN store[e] ELSE None]]
    /\ chain' = [chain EXCEPT ![t] = Tail(@)]
    /\ hist' = [e \in Events |-> [hist[e] EXCEPT !.shared = @ \/ store[e] # None]]
    /\ UNCHANGED <<store, got, live, comp, now, spent>>

ExecList(t) ==
    /\ chain[t] # <<>> /\ Head(chain[t]).kind = "list"
    /\ rp' = [rp EXCEPT ![Head(chain[t]).by].pc = "next", ![Head(chain[t]).by].todo = store]
    /\ chain' = [chain EXCEPT ![t] = Tail(@)]
    /\ hist' = [e \in Events |-> [hist[e] EXCEPT !.shared = @ \/ store[e] # None]]
    /\ UNCHANGED <<store, got, live, comp, now, spent>>

\* First transaction of setPendingRelays / markRelayDone.
ReadEntry(t) ==
    /\ chain[t] # <<>> /\ Head(chain[t]).kind \in {"set", "done"} /\ got[t] = None
    /\ LET e == Head(chain[t]).ev IN
       \/ /\ store[e] = None
          /\ Complete(t)
       \/ /\ store[e] # None
          /\ got' = [got EXCEPT ![t] = store[e]]
          /\ UNCHANGED <<chain, rp>>
    /\ UNCHANGED <<store, live, comp, now, spent, hist>>

\* Mutant: the entry is deleted while one relay is still pending.
WithoutRelay_early(entry, r) ==
    LET left == (IF entry.pending = None THEN {} ELSE entry.pending) \ {r}
    IN IF Cardinality(left) <= 1 THEN None ELSE [entry EXCEPT !.pending = left]

\* What markRelayDone leaves of the entry it read.
WithoutRelay(entry, r) ==
    LET left == (IF entry.pending = None THEN {} ELSE entry.pending) \ {r}
    IN IF left = {} THEN None ELSE [entry EXCEPT !.pending = left]

\* Second transaction of setPendingRelays / markRelayDone.
WriteEntry(t) ==
    /\ got[t] # None
    /\ LET op == Head(chain[t]) IN
       store' = [store EXCEPT ![op.ev] =
                   IF op.kind = "set" THEN [got[t] EXCEPT !.pending = op.relays]
                   ELSE WithoutRelay(got[t], op.relay)]
    /\ Complete(t)
    /\ UNCHANGED <<live, comp, now, spent, hist>>

\* The head operation rejects (a transaction error, or normalizeURL throwing
\* on a malformed URL inside setPendingRelays); serial() logs it and goes on.
\* A listing that rejects lists nothing.
WriteFails(t) ==
    /\ spent.failures < MaxWriteFailures
    /\ chain[t] # <<>>
    /\ hist' = IF Head(chain[t]).kind = "list" THEN hist
               ELSE [hist EXCEPT ![Head(chain[t]).ev].faulty = TRUE]
    /\ Complete(t)
    /\ spent' = [spent EXCEPT !.failures = @ + 1]
    /\ UNCHANGED <<store, live, comp, now>>

----------------------------------------------------------------------------
(* publishEvent, and the outbox half of publishEventOptimistic. *)

Publish(e, t) ==
    /\ live[e].phase = "new"
    /\ live' = [live EXCEPT ![e] = [phase |-> "computing", tab |-> t, waiting |-> {}]]
    /\ Queue(t, <<EnqueueOp(e, None)>>)
    /\ UNCHANGED <<store, got, comp, rp, now, spent, hist>>

\* The companions of e: signed events that were published on their own before
\* (the licence modal saved) and are not on their way as companions already.
Riders(e) == {c \in CompanionsOf[e] \ {e} : live[c].phase # "new" /\ comp[c].tab = None}

\* computePublishRelays resolves; then, without an await in between,
\* setPendingRelays, publishCompanions and the start of the fan-out.
ComputePublishRelays(e, R) ==
    /\ live[e].phase = "computing"
    /\ LET t == live[e].tab
           puts == SetToSeq({EnqueueOp(c, NormalizeAll(R)) : c \in Riders(e)})
       IN /\ Queue(t, <<SetOp(e, R, None)>> \o puts)
          /\ comp' = [c \in Events |->
                IF c \in Riders(e) /\ R # {} THEN [tab |-> t, relays |-> R] ELSE comp[c]]
    /\ hist' = [c \in Events |->
          IF c = e THEN [hist[c] EXCEPT !.target = NormalizeAll(R),
                                        !.computed = @ \cup {NormalizeAll(R)}]
          ELSE IF c \in Riders(e) THEN [hist[c] EXCEPT !.shared = TRUE,
                                        !.computed = @ \cup {NormalizeAll(R)}]
          ELSE hist[c]]
    /\ live' = [live EXCEPT ![e].phase = IF R = {} THEN "over" ELSE "fanout",
                            ![e].waiting = R]
    /\ UNCHANGED <<store, got, rp, now, spent>>

\* One relay of the fan-out resolves; when it was the last one the publish ends.
Settle(e, r) ==
    live' = [live EXCEPT ![e].waiting = @ \ {r},
                         ![e].phase = IF live[e].waiting = {r} THEN "over" ELSE @]

\* publishToRelay: the relay said OK true or OK false.
RelayAnswers(e, r) ==
    /\ live[e].phase = "fanout" /\ r \in live[e].waiting
    /\ Settle(e, r)
    /\ Queue(live[e].tab, <<DoneOp(e, r, None)>>)
    /\ hist' = [hist EXCEPT ![e].asked = @ \cup {Norm[r]}, ![e].answered = @ \cup {Norm[r]}]
    /\ UNCHANGED <<store, got, comp, rp, now, spent>>

\* Mutant: markRelayDone in a finally clause, for a relay that threw, too.
RelayUnreachable_marks(e, r) ==
    /\ live[e].phase = "fanout" /\ r \in live[e].waiting
    /\ Settle(e, r)
    /\ Queue(live[e].tab, <<DoneOp(e, r, None)>>)
    /\ hist' = [hist EXCEPT ![e].asked = @ \cup {Norm[r]}]
    /\ UNCHANGED <<store, got, comp, rp, now, spent>>

\* publishToRelay: connection error or timeout.
RelayUnreachable(e, r) ==
    /\ live[e].phase = "fanout" /\ r \in live[e].waiting
    /\ Settle(e, r)
    /\ hist' = [hist EXCEPT ![e].asked = @ \cup {Norm[r]}]
    /\ UNCHANGED <<store, chain, got, comp, rp, now, spent>>

\* publishCompanions: publishToRelays resolves for all relays at once; `ok`
\* are those that accepted, the others refused or could not be reached.
CompanionResults(c, ok, refused) ==
    /\ comp[c].tab # None /\ ok \subseteq comp[c].relays
    /\ refused \subseteq comp[c].relays \ ok
    /\ Queue(comp[c].tab, SetToSeq({DoneOp(c, r, None) : r \in ok}))
    /\ hist' = [hist EXCEPT ![c].asked = @ \cup NormalizeAll(comp[c].relays),
                            ![c].answered = @ \cup NormalizeAll(ok \cup refused)]
    /\ comp' = [comp EXCEPT ![c] = NoCompanionRun]
    /\ UNCHANGED <<store, got, live, rp, now, spent>>

----------------------------------------------------------------------------
(* replayOutbox, as startPublishOutboxReplay runs it. *)

StartReplay(p) ==
    /\ rp[p].pc = "idle"
    /\ rp' = [rp EXCEPT ![p].pc = "listing", ![p].now = now]
    /\ Queue(TabOf(p), <<[kind |-> "list", by |-> p]>>)
    /\ UNCHANGED <<store, got, live, comp, now, spent, hist>>

\* Mutant: one replay too many.
Expired_late(p, entry) == rp[p].now - entry.born > MaxAge \/ entry.attempts > MaxAttempts

Expired(p, entry) == rp[p].now - entry.born > MaxAge \/ entry.attempts >= MaxAttempts

Drop(p, e) == Queue(TabOf(p), <<[kind |-> "remove", ev |-> e, by |-> p]>>)

\* Mutant: the attempt is not counted.
Count_not(p, e, entry, relays) ==
    Queue(TabOf(p), <<[kind |-> "put", ev |-> e, by |-> p,
                       entry |-> [entry EXCEPT !.pending = relays]]>>)

\* put({ ...entry, attempts: entry.attempts + 1, pending: relays }): the copy
\* the replay listed, and relays as they are, not normalized.
Count(p, e, entry, relays) ==
    Queue(TabOf(p), <<[kind |-> "put", ev |-> e, by |-> p,
                       entry |-> [entry EXCEPT !.attempts = @ + 1, !.pending = relays]]>>)

ReplayGivesUp(p, e) ==
    /\ rp[p].pc = "next" /\ rp[p].todo[e] # None /\ Expired(p, rp[p].todo[e])
    /\ Drop(p, e)
    /\ rp' = [rp EXCEPT ![p].pc = "dropping", ![p].todo[e] = None]
    /\ hist' = [hist EXCEPT ![e].gaveUp = TRUE]
    /\ UNCHANGED <<store, got, live, comp, now, spent>>

\* An entry whose relay set is known: count the attempt.
ReplayResumes(p, e) ==
    LET entry == rp[p].todo[e] IN
    /\ rp[p].pc = "next" /\ entry # None /\ ~Expired(p, entry) /\ entry.pending # None
    /\ Count(p, e, entry, entry.pending)
    /\ rp' = [rp EXCEPT ![p].pc = "putting", ![p].ev = e, ![p].relays = entry.pending]
    /\ UNCHANGED <<store, got, live, comp, now, spent, hist>>

\* An entry whose publish never got to a relay set: compute it first.
ReplayRecomputes(p, e) ==
    LET entry == rp[p].todo[e] IN
    /\ rp[p].pc = "next" /\ entry # None /\ ~Expired(p, entry) /\ entry.pending = None
    /\ rp' = [rp EXCEPT ![p].pc = "computing", ![p].ev = e]
    /\ UNCHANGED <<store, chain, got, live, comp, now, spent, hist>>

\* Mutant: an entry whose relays are not known yet is dropped.
ReplayHasRelays_blank(p, R) ==
    /\ rp[p].pc = "computing"
    /\ Drop(p, rp[p].ev)
    /\ rp' = [rp EXCEPT ![p].pc = "dropping", ![p].todo[rp[p].ev] = None]
    /\ hist' = [hist EXCEPT ![rp[p].ev].computed = @ \cup {NormalizeAll(R)}]
    /\ UNCHANGED <<store, got, live, comp, now, spent>>

ReplayHasRelays(p, R) ==
    /\ rp[p].pc = "computing"
    /\ LET e == rp[p].ev IN
       /\ \/ /\ R = {}
             /\ Drop(p, e)
             /\ rp' = [rp EXCEPT ![p].pc = "dropping", ![p].todo[e] = None]
          \/ /\ R # {}
             /\ Queue(TabOf(p), <<SetOp(e, R, p)>>)
             /\ rp' = [rp EXCEPT ![p].pc = "setting", ![p].relays = R]
       /\ hist' = [hist EXCEPT ![e].computed = @ \cup {NormalizeAll(R)}]
    /\ UNCHANGED <<store, got, live, comp, now, spent>>

ReplayCounts(p) ==
    LET e == rp[p].ev IN
    /\ rp[p].pc = "counting"
    /\ Count(p, e, rp[p].todo[e], rp[p].relays)
    /\ rp' = [rp EXCEPT ![p].pc = "putting"]
    /\ UNCHANGED <<store, got, live, comp, now, spent, hist>>

\* publishToRelays: every relay has a result; ok:false also stands for a
\* relay that could not be reached, so only `answers` really answered.
ReplayPublishes(p, answers) ==
    LET e == rp[p].ev IN
    /\ rp[p].pc = "publish" /\ answers \subseteq rp[p].relays
    /\ rp' = [rp EXCEPT ![p].pc = IF rp[p].relays = {} THEN "next" ELSE "mark",
                        ![p].results = rp[p].relays, ![p].todo[e] = None]
    /\ hist' = [hist EXCEPT ![e].asked = @ \cup NormalizeAll(rp[p].relays),
                            ![e].answered = @ \cup NormalizeAll(answers)]
    /\ UNCHANGED <<store, chain, got, live, comp, now, spent>>

\* The publish throws (a URL the pool refuses): on to the next entry.
ReplayPublishThrows(p) ==
    /\ rp[p].pc = "publish"
    /\ rp' = [rp EXCEPT ![p].pc = "next", ![p].todo[rp[p].ev] = None]
    /\ UNCHANGED <<store, chain, got, live, comp, now, spent, hist>>

\* for (const r of responses) await markRelayDone(entry.id, r.from)
ReplayMarks(p, r) ==
    /\ rp[p].pc = "mark" /\ r \in rp[p].results
    /\ Queue(TabOf(p), <<DoneOp(rp[p].ev, r, p)>>)
    /\ rp' = [rp EXCEPT ![p].pc = "marking", ![p].results = @ \ {r}]
    /\ UNCHANGED <<store, got, live, comp, now, spent, hist>>

ReplayEnds(p) ==
    /\ rp[p].pc = "next" /\ \A e \in Events : rp[p].todo[e] = None
    /\ rp' = [rp EXCEPT ![p] = IdleReplay]
    /\ UNCHANGED <<store, chain, got, live, comp, now, spent, hist>>

----------------------------------------------------------------------------
(* Environment. *)

TimePasses ==
    /\ now < MaxNow
    /\ now' = now + 1
    /\ UNCHANGED <<store, chain, got, live, comp, rp, spent, hist>>

\* The tab is closed (or reloads): what is only in its memory is gone.
Crash(t) ==
    /\ spent.crashes < MaxCrashes
    /\ spent' = [spent EXCEPT !.crashes = @ + 1]
    /\ chain' = [chain EXCEPT ![t] = <<>>]
    /\ got' = [got EXCEPT ![t] = None]
    /\ live' = [e \in Events |-> IF live[e].tab = t
                  THEN [phase |-> "over", tab |-> None, waiting |-> {}] ELSE live[e]]
    /\ comp' = [e \in Events |-> IF comp[e].tab = t THEN NoCompanionRun ELSE comp[e]]
    /\ rp' = [p \in Replays |-> IF TabOf(p) = t THEN IdleReplay ELSE rp[p]]
    /\ UNCHANGED <<store, now, hist>>

ChainStep(t) ==
    ExecPut(t) \/ ExecRemove(t) \/ ExecList(t) \/ ReadEntry(t) \/ WriteEntry(t)

LiveStep(e) ==
    \/ \E R \in RelaySets : ComputePublishRelays(e, R)
    \/ \E r \in Urls : RelayAnswers(e, r) \/ RelayUnreachable(e, r)
    \/ \E ok, refused \in SUBSET comp[e].relays : CompanionResults(e, ok, refused)

ReplayStep(p) ==
    \/ \E e \in Events : ReplayGivesUp(p, e) \/ ReplayResumes(p, e) \/ ReplayRecomputes(p, e)
    \/ \E R \in RelaySets : ReplayHasRelays(p, R)
    \/ ReplayCounts(p)
    \/ \E answers \in SUBSET rp[p].relays : ReplayPublishes(p, answers)
    \/ ReplayPublishThrows(p)
    \/ \E r \in Urls : ReplayMarks(p, r)
    \/ ReplayEnds(p)

Next ==
    \/ \E e \in Events, t \in Tabs : Publish(e, t)
    \/ \E e \in Events : LiveStep(e)
    \/ \E t \in Tabs : ChainStep(t) \/ WriteFails(t) \/ Crash(t)
    \/ \E p \in Replays : StartReplay(p) \/ ReplayStep(p)
    \/ TimePasses

Spec == Init /\ [][Next]_vars

\* IndexedDB transactions complete, a running replay goes on, and a tab starts
\* one again and again (boot and "online" events).
Fairness ==
    /\ \A t \in Tabs : WF_vars(ChainStep(t)) /\ WF_vars(\E s \in Slots : StartReplay(<<t, s>>))
    /\ \A p \in Replays : WF_vars(ReplayStep(p))

FairSpec == Spec /\ Fairness

----------------------------------------------------------------------------
(* Properties. *)

TypeOK ==
    /\ store \in [Events -> {None} \cup Entry]
    /\ chain \in [Tabs -> Seq(Op)]
    /\ got \in [Tabs -> {None} \cup Entry]
    /\ live \in [Events -> LiveRun]
    /\ comp \in [Events -> [tab : Tabs \cup {None}, relays : SUBSET Urls]]
    /\ rp \in [Replays -> ReplayRun]
    /\ now \in 0..MaxNow
    /\ spent \in [crashes : 0..MaxCrashes, failures : 0..MaxWriteFailures]
    /\ hist \in [Events -> History]

\* The outbox's promise for a publish no replay has picked up yet: from the
\* moment its enqueue is in IndexedDB, and whatever tab closes when, every
\* relay of its set that has not answered is still pending there (the set not
\* being recorded yet counts as all of it pending), and the entry is only gone
\* once every relay has answered.
LiveKeepsUnanswered ==
    \A e \in Events :
        LET h == hist[e] IN
        (h.durable /\ ~h.shared /\ ~h.faulty) =>
            \/ store[e] = None /\ h.target # None /\ h.target \subseteq h.answered
            \/ store[e] # None /\ (\/ store[e].pending = None
                                   \/ h.target # None /\ h.target \ h.answered \subseteq store[e].pending)

\* The same with replays, concurrent replays, companions and several tabs:
\* an event that reached IndexedDB leaves it only when some relay set that
\* was computed for it has been asked in full, or a replay gave it up for age
\* or attempts; until then the relays not asked yet are pending.
AskedBeforeForgotten ==
    \A e \in Events :
        LET h == hist[e] IN
        (h.durable /\ ~h.gaveUp /\ ~h.faulty) =>
            IF store[e] = None THEN \E R \in h.computed : R \subseteq h.asked
            ELSE \/ store[e].pending = None
                 \/ \E R \in h.computed : R \ h.asked \subseteq NormalizeAll(store[e].pending)

\* What the header of publish-outbox.js promises: a relay leaves an entry only
\* on a definitive answer (OK true or an explicit rejection), so every relay of
\* the event's own publish that has not answered is pending until the entry is
\* given up.  The code does not keep it: see the runs that expect a violation.
UnansweredStaysPending ==
    \A e \in Events :
        LET h == hist[e] IN
        (h.durable /\ ~h.gaveUp /\ ~h.faulty /\ h.target # None) =>
            IF store[e] = None THEN h.target \subseteq h.answered
            ELSE \/ store[e].pending = None
                 \/ h.target \ h.answered \subseteq NormalizeAll(store[e].pending)

\* An entry does not stay forever: delivered, refused, too old or out of
\* attempts, it leaves IndexedDB in the end, whatever replays overlap.
OutboxDrains == \A e \in Events : <>[](store[e] = None)

\* A publish that reached IndexedDB is carried through even if its tab is
\* closed at once: some relay set of it is asked in full, or a replay gives it
\* up (or a later write of its entry is rejected).
DurableGetsAsked ==
    \A e \in Events : hist[e].durable ~>
        (hist[e].gaveUp \/ hist[e].faulty \/ \E R \in hist[e].computed : R \subseteq hist[e].asked)

\* Tabs, chains, replays and companions together do what OutboxPromise says.
Promise == INSTANCE OutboxPromise WITH
    kept <- {e \in Events : store[e] # None},
    goals <- [e \in Events |-> hist[e].computed],
    asked <- [e \in Events |-> hist[e].asked],
    excused <- {e \in Events : hist[e].gaveUp \/ hist[e].faulty}

ImplementsPromise == Promise!Spec

\* The safety part of it, for instances without fairness.
KeepsPromise == Promise!Init /\ [][Promise!Next]_(Promise!vars)
=============================================================================
