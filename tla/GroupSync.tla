------------------------------ MODULE GroupSync ------------------------------
(***************************************************************************)
(* One shared webxdc session of a channel as one client sees it:           *)
(* createGroupSync of webxdc/group-sync.js.  The client pages backward     *)
(* through the state events the groups relay has stored, folds them in,    *)
(* and then subscribes from an overlap before the newest of them.  Peers   *)
(* publish all the while, with clocks of their own.                        *)
(*                                                                         *)
(* An event is named by its place in the relay's log.  Realtime frames,    *)
(* which are not stored, are not modelled.                                 *)
(***************************************************************************)
EXTENDS Naturals, Sequences, FiniteSets, SequencesExt

CONSTANTS
    Limit,      \* PAGE_LIMIT
    MaxPages,   \* MAX_PAGES
    Overlap,    \* LIVE_OVERLAP_SEC
    Skew,       \* how far created_at may be from the relay's time, either way
    MaxTime,    \* bound: ticks of the clock
    MaxEvents,  \* bound: events in the log
    MaxSends,   \* bound: events the client publishes itself
    MaxErrors   \* bound: requests the relay closes with an error

ASSUME GroupSyncAssumption ==
    /\ Limit \in Nat \ {0} /\ MaxPages \in Nat \ {0}
    /\ Overlap \in Nat /\ Skew \in Nat /\ 2 * Skew <= Overlap
    /\ MaxTime \in Nat /\ MaxEvents \in Nat /\ MaxSends \in Nat /\ MaxErrors \in Nat

Phases == {"closed", "paging", "live", "retrying", "dead", "stopped"}

VARIABLES
    now,       \* the time
    log,       \* created_at of the events the relay stores, in the order it stored them
    phase,     \* what the session is doing
    page,      \* pages it has received
    until,     \* {} or the bound of the next page
    collected, \* events of the pages so far
    since,     \* lower bound of the live subscription
    updates,   \* what the app sees, in order
    sending,   \* own events stored by the relay whose publish has not resolved
    sends, errors,
    authRetried,
    cut        \* the backfill ended without having seen the start of the log (history)

vars == <<now, log, phase, page, until, collected, since, updates, sending,
          sends, errors, authRetried, cut>>
backfill == <<page, until, collected>>
relay == <<now, log>>
budget == <<sends, errors>>

Stored == 1..Len(log)
Seen == Range(updates)

Init ==
    /\ now = 0 /\ log = <<>>
    /\ phase = "closed" /\ page = 0 /\ until = {} /\ collected = {} /\ since = 0
    /\ updates = <<>> /\ sending = {}
    /\ sends = 0 /\ errors = 0
    /\ authRetried = FALSE /\ cut = FALSE

-----------------------------------------------------------------------------
\* The world: time, and what the other members of the session publish.

Tick ==
    /\ now < MaxTime /\ now' = now + 1
    /\ UNCHANGED <<log, phase, backfill, since, updates, sending, budget, authRetried, cut>>

\* A clock, or a slow signature, puts created_at off the time of storing.
Stamps == {at \in 0..MaxTime + Skew : at <= now + Skew /\ now <= at + Skew}

PeerPublishes ==
    /\ Len(log) < MaxEvents
    /\ \E at \in Stamps : log' = Append(log, at)
    /\ UNCHANGED <<now, phase, backfill, since, updates, sending, budget, authRetried, cut>>

-----------------------------------------------------------------------------
\* append: an event is taken once.

\* Mutant: the echo of an own event is taken again.
Append1_echo(seq, i) == Append(seq, i)
Append1(seq, i) == IF i \in Range(seq) THEN seq ELSE Append(seq, i)

Before(i, j) == log[i] < log[j] \/ (log[i] = log[j] /\ i < j)

\* By created_at, then in the order of the ids.
Sorted(events) ==
    CHOOSE seq \in [1..Cardinality(events) -> events] : \A k, l \in DOMAIN seq : k < l => Before(seq[k], seq[l])

\* Mutant: what is already shown is sorted in with the backfill.
Folded_spliced(seq, events) == Sorted(events \cup Range(seq))
\* The backfill is sorted once and appended.
Folded(seq, events) == seq \o Sorted(events \ Range(seq))

Newest(events) == CHOOSE at \in {log[i] : i \in events} : \A i \in events : log[i] <= at
Oldest(events) == CHOOSE at \in {log[i] : i \in events} : \A i \in events : at <= log[i]

\* Mutant: the live subscription starts at the newest event.
LiveSince_newest(events) == IF events = {} THEN 0 ELSE Newest(events)
LiveSince(events) == IF events = {} \/ Newest(events) < Overlap THEN 0 ELSE Newest(events) - Overlap

\* The end of startBackfill, whatever was collected.
GoLive(events) ==
    /\ updates' = Folded(updates, events)
    /\ since' = LiveSince(events)
    /\ phase' = "live"
    /\ UNCHANGED backfill

-----------------------------------------------------------------------------
\* The session.

Open ==
    /\ phase = "closed" /\ phase' = "paging"
    /\ UNCHANGED <<relay, backfill, since, updates, sending, budget, authRetried, cut>>

Matching == {i \in Stored : until = {} \/ \A at \in until : log[i] <= at}

\* The newest events of S, newest first: what a relay has sent of S at some point.
Leading(S) == {R \in SUBSET S : \A i \in R, j \in S \ R : log[j] <= log[i]}

\* Mutant: the cap is compared after the page has been counted.
Capped_late == page = MaxPages
Capped == page = MaxPages - 1

\* Mutant: the boundary second is not asked for again.
NextUntil_exclusive(events) == {IF Oldest(events) = 0 THEN 0 ELSE Oldest(events) - 1}
NextUntil(events) == {Oldest(events)}

\* A page of events came; truncated if the page's own timer cut it short.
PageComes(events, truncated) ==
    LET fresh == events \ collected
        all   == collected \cup fresh
        final == ~truncated /\ Cardinality(events) < Limit
    IN IF fresh = {}
       THEN GoLive(all) /\ cut' = (cut \/ (all # {} /\ ~final))
       ELSE IF final
       THEN GoLive(all) /\ UNCHANGED cut
       ELSE IF Capped
       THEN GoLive(all) /\ cut' = TRUE
       ELSE /\ collected' = all
            /\ page' = page + 1
            /\ until' = NextUntil(events)
            /\ UNCHANGED <<phase, since, updates, cut>>

\* The relay answers with the newest events of the window, or the timer ends the
\* page when it has sent some of them.
Page ==
    /\ phase = "paging"
    /\ \E answer \in Leading(Matching) :
          /\ Cardinality(answer) <= Limit
          /\ \/ /\ Cardinality(answer) = Limit \/ answer = Matching
                /\ PageComes(answer, FALSE)
             \/ PageComes(answer, TRUE)
    /\ UNCHANGED <<relay, sending, budget, authRetried>>

\* The relay closes the page: the first time for want of AUTH the backfill starts
\* over (authenticate() rejecting is one more error), else the session does without.
PageFails ==
    /\ phase = "paging" /\ errors < MaxErrors /\ errors' = errors + 1
    /\ \/ /\ ~authRetried /\ authRetried' = TRUE
          /\ page' = 0 /\ until' = {} /\ collected' = {}
          /\ UNCHANGED <<phase, since, updates>>
       \/ GoLive({}) /\ UNCHANGED authRetried
    /\ UNCHANGED <<relay, sending, sends, cut>>

\* The live subscription sends stored and new events alike, in any order.
Deliver ==
    /\ phase = "live"
    /\ \E i \in Stored \ Seen : log[i] >= since /\ updates' = Append1(updates, i)
    /\ UNCHANGED <<relay, phase, backfill, since, sending, budget, authRetried, cut>>

\* The relay closes the subscription: one retry if it wanted AUTH, else it is gone.
LiveFails ==
    /\ phase = "live" /\ errors < MaxErrors /\ errors' = errors + 1
    /\ IF authRetried
       THEN phase' = "dead" /\ UNCHANGED authRetried
       ELSE phase' \in {"retrying", "dead"} /\ authRetried' = (phase' = "retrying")
    /\ UNCHANGED <<relay, backfill, since, updates, sending, sends, cut>>

\* authenticate() resolved: openLiveSubscription(since) again.  Or it rejected.
Reopen ==
    /\ phase = "retrying" /\ phase' \in {"live", "dead"}
    /\ UNCHANGED <<relay, backfill, since, updates, sending, budget, authRetried, cut>>

\* sendState, up to the relay's storing the event.
Send ==
    /\ phase \notin {"closed", "stopped"} /\ sends < MaxSends /\ sends' = sends + 1
    /\ Len(log) < MaxEvents
    /\ \E at \in Stamps : log' = Append(log, at)
    /\ sending' = sending \cup {Len(log) + 1}
    /\ UNCHANGED <<now, phase, backfill, since, updates, errors, authRetried, cut>>

\* The publish resolved, or its answer was lost.
Sent ==
    /\ \E i \in sending : /\ updates' \in {updates, Append1(updates, i)}
                          /\ sending' = sending \ {i}
    /\ UNCHANGED <<relay, phase, backfill, since, budget, authRetried, cut>>

Stop ==
    /\ phase \notin {"closed", "stopped"} /\ phase' = "stopped"
    /\ UNCHANGED <<relay, backfill, since, updates, sending, budget, authRetried, cut>>

Next ==
    \/ Tick \/ PeerPublishes
    \/ Open \/ Page \/ PageFails \/ Deliver \/ LiveFails \/ Reopen \/ Send \/ Sent \/ Stop

Spec == Init /\ [][Next]_vars

\* A page ends by its timer, authenticate() by its time limit, and a live
\* subscription sends what matches it.
FairSpec == Spec /\ WF_vars(Page) /\ WF_vars(Deliver) /\ WF_vars(Reopen)

-----------------------------------------------------------------------------

TypeOK ==
    /\ now \in 0..MaxTime /\ log \in Seq(0..MaxTime + Skew) /\ Len(log) <= MaxEvents
    /\ phase \in Phases
    /\ page \in 0..MaxPages - 1 /\ collected \subseteq Stored
    /\ until \in {{}} \cup {{at} : at \in 0..MaxTime + Skew} /\ since \in 0..MaxTime + Skew
    /\ updates \in Seq(Stored) /\ sending \subseteq Stored
    /\ sends \in 0..MaxSends /\ errors \in 0..MaxErrors
    /\ authRetried \in BOOLEAN /\ cut \in BOOLEAN

\* The app sees every event once, however backfill, live stream and the echoes of
\* own events overlap.
SeenOnce == \A i, j \in 1..Len(updates) : updates[i] = updates[j] => i = j

\* Serials never reshuffle: what the app has seen stays where it is, a late event
\* with an older created_at comes last.
SerialsStay == [][IsPrefix(updates, updates')]_updates

\* No event falls between backfill and live stream, whatever was published while
\* the pages came and however far the peers' clocks are apart within the overlap:
\* what is not yet shown matches the live subscription.  Excused is a backfill
\* that gave up before the start of the log (cut).
NoGap == phase \in {"live", "retrying"} /\ ~cut => \A i \in Stored \ Seen : log[i] >= since

\* A session that stays open sees in the end all that was published.
Converges == <>[](phase \in {"closed", "dead", "stopped"} \/ cut \/ Seen = Stored)
=============================================================================
