-------------------------- MODULE RailLayoutSync --------------------------
(***************************************************************************)
(* The rail's arrangement, synced across a user's devices through an       *)
(* encrypted replaceable event: rail/rail-layout-sync.svelte.js with       *)
(* rail-layout-gate.js, rail-layout-event.js, the local copy of            *)
(* rail-layout-store.svelte.js and the wiring in routes/+layout.svelte.    *)
(*                                                                         *)
(* One device is modelled in full.  Every await is a place where all the   *)
(* others run: decrypting a layout that arrived, signing an edit, waiting  *)
(* for the relays.  The user may switch accounts, edit again, and edit on  *)
(* another device in between.                                              *)
(***************************************************************************)
EXTENDS Naturals, FiniteSets, Sequences

CONSTANTS
    Accounts,       \* accounts of a device
    Devices,        \* the devices that are looked at, see Device
    LookupRelays,   \* possible answers to "are there relays to look up": subset of BOOLEAN
    Skew,           \* MAX_FUTURE_SKEW
    MaxLayouts,     \* bound: arrangements made, here and elsewhere
    None            \* null

\* A device: the accounts whose signer can NIP-44, and the bounds: arrangements
\* made here and by other devices, account switches (the first login included),
\* decrypts, signatures, lookups and publishes that fail, how far the clock of
\* another device may be ahead, and when its own stops.
Device ==
    [nip44 : SUBSET Accounts, edits : Nat, others : Nat, switches : Nat, failures : Nat,
     ahead : Nat, time : Nat]

\* The n-th arrangement made, for account `by`.
Layout == [by : Accounts, n : 1..MaxLayouts]
Statuses == {"idle", "loading", "absent", "loaded", "locked", "unavailable"}

ASSUME RailAssumption ==
    /\ None \notin Accounts /\ None \notin [at : Nat, id : Nat, layout : Layout]
    /\ Devices \subseteq Device
    /\ LookupRelays \subseteq BOOLEAN
    /\ {Skew, MaxLayouts} \subseteq Nat
    /\ \A d \in Devices : d.edits + d.others <= MaxLayouts

VARIABLES
    device,     \* never changes
    active,     \* manager.active
    toFollow,   \* accounts whose initializeRailLayoutSync is still to run
    following,  \* activePubkey
    session,    \* how many times it was initialized
    status, remote, stamp, blocked,     \* the module's state; stamp is an event
    asking,     \* the address lookup of this session is outstanding
    watching,   \* subscribed to the event store for `following`
    held,       \* event store: account -> the newest event it was given
    adopts,     \* adoptRemoteEvent runs that await the decrypt
    pubs,       \* publishRailLayout runs that await the signer or the relays
    cache,      \* localStorage: account -> arrangement
    relays,     \* account -> the events some relay holds or held
    now, spent,
    hist        \* history, read by the properties only

\* A kind 30078 event with created_at and id; its author is layout.by.
Event ==
    LET bump == IF device.ahead > Skew THEN device.ahead ELSE Skew
    IN [at : 0..(device.time + bump), id : 1..MaxLayouts, layout : Layout]

local == <<following, session, status, remote, stamp, blocked, asking, watching>>
vars == <<device, active, toFollow, local, held, adopts, pubs, cache, relays, now, spent, hist>>

Init ==
    /\ device \in Devices
    /\ active = None /\ toFollow = <<>> /\ following = None /\ session = 0
    /\ status = "idle" /\ remote = None /\ stamp = None /\ blocked = FALSE
    /\ asking = FALSE /\ watching = FALSE
    /\ held = [a \in Accounts |-> None]
    /\ adopts = {} /\ pubs = {}
    /\ cache = [a \in Accounts |-> None]
    /\ relays = [a \in Accounts |-> {}]
    /\ now = 0
    /\ spent = [edits |-> 0, others |-> 0, switches |-> 0, failures |-> 0]
    /\ hist = [read |-> {},         \* events this device has read or made
               newest |-> [a \in Accounts |-> None],    \* newest of those it adopted or landed
               answered |-> FALSE,  \* this session heard from the relays or the event store
               unheard |-> FALSE,   \* this session's lookup failed
               hasty |-> FALSE,     \* the lookup completed during the decrypt of what it brought
               late |-> FALSE,      \* what this session adopted or landed last was not the newest held
               crossed |-> FALSE,   \* an edit of an earlier session landed since it last adopted
               unsent |-> {},       \* accounts with an unpublished edit since they last adopted
               wrong |-> {}]        \* what an edit that was published here did wrong

----------------------------------------------------------------------------
(* rail-layout-event.js and rail-layout-gate.js. *)

IsNewer(candidate, current) ==
    current # None => \/ candidate.at > current.at
                      \/ candidate.at = current.at /\ candidate.id < current.id

\* Mutant: the bump is not bounded.
NextCreatedAt_unbounded(current) ==
    IF current = None \/ current.at < now THEN now ELSE current.at + 1
\* Mutant: the clock alone.
NextCreatedAt_now(current) == now

NextCreatedAt(current) ==
    IF current = None \/ current.at < now THEN now
    ELSE IF current.at + 1 > now + Skew THEN None ELSE current.at + 1

\* Mutant: an event that cannot be read does not close the gate.
CanPublish_locked(s) == s \in {"loaded", "absent", "locked"}
\* Mutant: what is not yet known does not close the gate.
CanPublish_eager(s) == s # "locked"
CanPublish(s) == s \in {"loaded", "absent"}

Newest(ev, current) == IF IsNewer(ev, current) THEN ev ELSE current

----------------------------------------------------------------------------
(* Environment: failures. *)

Fails == spent.failures < device.failures /\ spent' = [spent EXCEPT !.failures = @ + 1]

----------------------------------------------------------------------------
(* The session of an account. *)

\* The account manager switches; the layout's effect schedules the follow-up.
Switch(a) ==
    /\ a # active /\ spent.switches < device.switches
    /\ active' = a
    /\ toFollow' = Append(toFollow, a)
    /\ spent' = [spent EXCEPT !.switches = @ + 1]
    /\ UNCHANGED <<device, local, held, adopts, pubs, cache, relays, now, hist>>

\* Mutant: of two events of one second the later id wins nothing.
Offered_strict(ev, s) ==
    IF (stamp = None \/ ev.at > stamp.at) /\ active \in device.nip44
    THEN {[acct |-> ev.layout.by, ev |-> ev, signer |-> active, session |-> s]} ELSE {}

\* adoptRemoteEvent up to its await: the tasks it leaves.
Offered(ev, s) ==
    IF IsNewer(ev, stamp) /\ active \in device.nip44
    THEN {[acct |-> ev.layout.by, ev |-> ev, signer |-> active, session |-> s]} ELSE {}

\* The decrypt of the newest event held for the followed account is awaited.
Awaited == \E t \in adopts : t.acct = following /\ t.ev = held[following]

Forget == remote' = None /\ stamp' = None /\ blocked' = FALSE

\* cleanupRailLayoutSync, then initializeRailLayoutSync of an account (logout: None).
Follow(ask) ==
    /\ toFollow # <<>>
    /\ LET a == Head(toFollow) IN
       /\ following' = a
       /\ IF a = None
          THEN status' = "idle" /\ asking' = FALSE /\ watching' = FALSE /\ adopts' = adopts
          ELSE IF active \notin device.nip44
          THEN status' = "unavailable" /\ asking' = FALSE /\ watching' = FALSE /\ adopts' = adopts
          ELSE /\ status' = IF ask THEN "loading" ELSE "unavailable"
               /\ asking' = ask /\ watching' = TRUE
               /\ adopts' = adopts \cup
                     IF held[a] = None THEN {}
                     ELSE {[acct |-> a, ev |-> held[a], signer |-> active, session |-> session + 1]}
    /\ Forget
    /\ toFollow' = Tail(toFollow)
    /\ session' = session + 1
    /\ hist' = [hist EXCEPT !.answered = FALSE, !.unheard = FALSE, !.hasty = FALSE,
                            !.late = FALSE, !.crossed = FALSE]
    /\ UNCHANGED <<device, active, held, pubs, cache, relays, now, spent>>

\* Mutant: completing leaves the status alone.
LookupCompletes_silent ==
    /\ asking /\ asking' = FALSE
    /\ hist' = [hist EXCEPT !.answered = TRUE]
    /\ UNCHANGED <<device, active, toFollow, following, session, status, remote, stamp, blocked, watching,
                   held, adopts, pubs, cache, relays, now, spent>>

\* The address loader completes.
LookupCompletes ==
    /\ asking /\ asking' = FALSE
    /\ status' = IF status = "loading" THEN "absent" ELSE status
    /\ hist' = [hist EXCEPT !.answered = TRUE, !.hasty = Awaited]
    /\ UNCHANGED <<device, active, toFollow, following, session, remote, stamp, blocked, watching,
                   held, adopts, pubs, cache, relays, now, spent>>

LookupFails ==
    /\ asking /\ asking' = FALSE /\ Fails
    /\ hist' = [hist EXCEPT !.unheard = TRUE]
    /\ UNCHANGED <<device, active, toFollow, following, session, status, remote, stamp, blocked, watching,
                   held, adopts, pubs, cache, relays, now>>

\* The event store is given an event of a; it keeps the newest and tells the subscriber.
Arrive(a, ev) ==
    /\ ev \in relays[a] /\ IsNewer(ev, held[a])
    /\ held' = [held EXCEPT ![a] = ev]
    /\ IF watching /\ following = a
       THEN /\ adopts' = adopts \cup Offered(ev, session)
            /\ status' = IF IsNewer(ev, stamp) /\ active \notin device.nip44 THEN "unavailable" ELSE status
            /\ hist' = [hist EXCEPT !.answered = TRUE]
       ELSE /\ UNCHANGED <<adopts, status>>
            /\ hist' = [hist EXCEPT !.late = @ \/ following = a]
    /\ UNCHANGED <<device, active, toFollow, following, session, remote, stamp, blocked, asking, watching,
                   pubs, cache, relays, now, spent>>

\* Mutant: an account switch during the decrypt goes unnoticed.
Stale_not(task) == FALSE

\* The account was switched while the decrypt was awaited.
Stale(task) == following # task.acct
\* The layout is decrypted and adopted.
Adopt(task) ==
    /\ task \in adopts /\ task.signer = task.acct
    /\ adopts' = adopts \ {task}
    /\ IF Stale(task) THEN UNCHANGED <<status, remote, stamp, cache, hist>>
       ELSE /\ stamp' = task.ev /\ remote' = task.ev.layout /\ status' = "loaded"
            /\ cache' = [cache EXCEPT ![task.acct] = task.ev.layout]
            /\ hist' = [hist EXCEPT !.read = @ \cup {task.ev}, !.answered = TRUE,
                                    !.newest[task.acct] = Newest(task.ev, @),
                                    !.late = task.ev # held[task.acct], !.crossed = FALSE,
                                    !.unsent = @ \ {task.acct}]
    /\ UNCHANGED <<device, active, toFollow, following, session, blocked, asking, watching,
                   held, pubs, relays, now, spent>>

\* It cannot be decrypted (another account's signer, a signer that refuses), or
\* its payload is of another version.
AdoptFails(task) ==
    /\ task \in adopts
    /\ IF task.signer = task.acct THEN Fails ELSE UNCHANGED spent
    /\ adopts' = adopts \ {task}
    /\ status' = IF Stale(task) THEN status ELSE "locked"
    /\ UNCHANGED <<device, active, toFollow, following, session, remote, stamp, blocked, asking, watching,
                   held, pubs, cache, relays, now, hist>>

----------------------------------------------------------------------------
(* The user's edits. *)

NewLayout(a) == [by |-> a, n |-> spent.edits + spent.others + 1]

\* What an edit of a that is published with created_at `at` does wrong: it was
\* made over a layout that was not read, cannot beat one known here, or came
\* before any answer.
Wrong(a, at) ==
    (IF held[a] = None \/ held[a] \in hist.read THEN {}
     ELSE IF hist.late THEN {"late"} ELSE IF hist.hasty /\ status = "absent" THEN {"hasty"}
     ELSE IF Awaited THEN {"awaited"} ELSE {"unread"})
    \cup (IF hist.newest[a] # None /\ at <= hist.newest[a].at /\ ~hist.late /\ ~Awaited
          THEN {"losing"} ELSE {})
    \cup (IF hist.answered \/ hist.crossed THEN {} ELSE {"unasked"})

Unsent(a) == hist' = [hist EXCEPT !.unsent = @ \cup {a}]

\* writeRailLayout: the local copy, then publishRailLayout up to its first await.
Edit ==
    /\ active # None /\ spent.edits < device.edits
    /\ LET L == NewLayout(active)
           at == NextCreatedAt(stamp)
           refused == ~CanPublish(status) \/ active \notin device.nip44 \/ at = None
       IN
       /\ cache' = [cache EXCEPT ![active] = L]
       /\ IF active # following
          THEN UNCHANGED <<status, blocked, pubs>> /\ Unsent(active)
          ELSE IF refused
          THEN /\ blocked' = TRUE
               /\ status' = IF CanPublish(status) /\ active \notin device.nip44 THEN "unavailable" ELSE status
               /\ pubs' = pubs /\ Unsent(active)
          ELSE /\ pubs' = pubs \cup {[layout |-> L, at |-> at, ev |-> None, session |-> session]}
               /\ UNCHANGED <<status, blocked>>
               /\ hist' = [hist EXCEPT !.wrong = @ \cup Wrong(active, at)]
    /\ spent' = [spent EXCEPT !.edits = @ + 1]
    /\ UNCHANGED <<device, active, toFollow, following, session, remote, stamp, asking, watching,
                   held, adopts, relays, now>>

UsedIds == {ev.id : ev \in UNION {relays[a] : a \in Accounts}} \cup
           {p.ev.id : p \in {q \in pubs : q.ev # None}}

\* Encrypted and signed: it goes to the relays.
Sign(p, id) ==
    /\ p \in pubs /\ p.ev = None /\ id \notin UsedIds
    /\ LET ev == [at |-> p.at, id |-> id, layout |-> p.layout] IN
       /\ pubs' = (pubs \ {p}) \cup {[p EXCEPT !.ev = ev]}
       /\ hist' = [hist EXCEPT !.read = @ \cup {ev}]
    /\ UNCHANGED <<device, active, toFollow, local, held, adopts, cache, relays, now, spent>>

SignFails(p) ==
    /\ p \in pubs /\ p.ev = None /\ Fails
    /\ pubs' = pubs \ {p}
    /\ blocked' = TRUE
    /\ Unsent(p.layout.by)
    /\ UNCHANGED <<device, active, toFollow, following, session, status, remote, stamp, asking, watching,
                   held, adopts, cache, relays, now>>

\* eventStore.add(signed); the subscriber sees it before remoteStamp is set.
Store(a, ev) ==
    /\ held' = [held EXCEPT ![a] = Newest(ev, @)]
    /\ adopts' = adopts \cup
         IF IsNewer(ev, held[a]) /\ watching /\ following = a THEN Offered(ev, session) ELSE {}

\* publishEvent resolves with at least one success.
Land(p) ==
    /\ p \in pubs /\ p.ev # None
    /\ LET a == p.layout.by IN
       /\ relays' = [relays EXCEPT ![a] = @ \cup {p.ev}]
       /\ Store(a, p.ev)
       /\ hist' = [hist EXCEPT !.newest[a] = Newest(p.ev, @),
                               !.late = following = None \/ p.ev # held'[following],
                               !.crossed = @ \/ p.session # session]
    /\ pubs' = pubs \ {p}
    /\ stamp' = p.ev /\ remote' = p.layout /\ status' = "loaded" /\ blocked' = FALSE
    /\ UNCHANGED <<device, active, toFollow, following, session, asking, watching, cache, now, spent>>

\* No relay says OK (one may have the event all the same: its answer is late).
Reject(p, reached) ==
    /\ p \in pubs /\ p.ev # None /\ Fails
    /\ pubs' = pubs \ {p}
    /\ blocked' = TRUE
    /\ relays' = IF reached THEN [relays EXCEPT ![p.layout.by] = @ \cup {p.ev}] ELSE relays
    /\ Unsent(p.layout.by)
    /\ UNCHANGED <<device, active, toFollow, following, session, status, remote, stamp, asking, watching,
                   held, adopts, cache, now>>

----------------------------------------------------------------------------
(* Other devices, and time. *)

OtherDevice(a, at, id) ==
    /\ spent.others < device.others
    /\ at <= now + device.ahead /\ id \notin UsedIds
    /\ relays' = [relays EXCEPT ![a] = @ \cup {[at |-> at, id |-> id, layout |-> NewLayout(a)]}]
    /\ spent' = [spent EXCEPT !.others = @ + 1]
    /\ UNCHANGED <<device, active, toFollow, local, held, adopts, pubs, cache, now, hist>>

Tick ==
    /\ now < device.time /\ now' = now + 1
    /\ UNCHANGED <<device, active, toFollow, local, held, adopts, pubs, cache, relays, spent, hist>>

SignerStep ==
    \/ \E task \in adopts : Adopt(task) \/ AdoptFails(task)
    \/ \E p \in pubs : (\E id \in 1..MaxLayouts : Sign(p, id)) \/ SignFails(p)
RelayStep == \E p \in pubs : Land(p) \/ \E reached \in BOOLEAN : Reject(p, reached)
LookupStep == LookupCompletes \/ LookupFails
FollowStep == \E ask \in LookupRelays : Follow(ask)

Next ==
    \/ \E a \in Accounts \cup {None} : Switch(a)
    \/ FollowStep \/ LookupStep
    \/ \E a \in Accounts : \E ev \in relays[a] : Arrive(a, ev)
    \/ SignerStep
    \/ Edit
    \/ RelayStep
    \/ \E a \in Accounts, at \in 0..(device.time + device.ahead), id \in 1..MaxLayouts : OtherDevice(a, at, id)
    \/ Tick

Spec == Init /\ [][Next]_vars

\* Promises that are awaited settle: scheduled code runs, the lookup ends, the
\* signer and the relays answer or time out.
FairSpec == Spec /\ WF_vars(FollowStep) /\ WF_vars(LookupStep) /\ WF_vars(SignerStep) /\ WF_vars(RelayStep)

----------------------------------------------------------------------------
(* Properties. *)

TypeOK ==
    /\ device \in Devices
    /\ active \in Accounts \cup {None} /\ following \in Accounts \cup {None}
    /\ toFollow \in Seq(Accounts \cup {None}) /\ session \in 0..device.switches
    /\ status \in Statuses /\ remote \in Layout \cup {None} /\ stamp \in Event \cup {None}
    /\ blocked \in BOOLEAN /\ asking \in BOOLEAN /\ watching \in BOOLEAN
    /\ held \in [Accounts -> Event \cup {None}]
    /\ \A t \in adopts : t.ev \in Event /\ t.acct \in Accounts /\ t.signer \in Accounts
    /\ \A p \in pubs : p.layout \in Layout /\ p.ev \in Event \cup {None}
    /\ cache \in [Accounts -> Layout \cup {None}]
    /\ relays \in [Accounts -> SUBSET Event]

\* An edit is only published once the relays or the event store were heard from
\* in this session, unless a publish of an earlier session landed in it (the
\* code then calls the layout loaded, :273).
AnsweredFirst == "unasked" \notin hist.wrong

\* "The loader completing without an event is the ONLY evidence that nothing is
\* stored": an edit made because the session's lookup found nothing does not
\* replace a layout which that lookup had brought and nobody has read.
AbsentHoldsNone == "hasty" \notin hist.wrong

\* What the code keeps of "the remote is known well enough to replace it", whatever
\* decrypts, signatures, publishes and account switches interleave: when an edit
\* is published the newest event the device was given has been read, or its decrypt is
\* still awaited (:112), or an older one was adopted (:180) or landed (:271) since.
ReadBeforeReplaced == "unread" \notin hist.wrong

\* "The created_at a local edit must carry to actually win": it is later than
\* that of every event of the account that was adopted or landed here before,
\* in those same cases.  (Edits that overlap in flight carry the same one.)
EditsWin == "losing" \notin hist.wrong

\* The remote state is that of the account that is followed, unless a publish of
\* an earlier session landed and nothing was adopted since.
RemoteIsOwn == remote # None /\ ~hist.crossed => following # None /\ remote.by = following

\* When a session whose layout is loaded has come to rest, the arrangement it
\* shows is the newest the device was given, and so is the local copy unless an
\* edit could not be published: nothing that arrived, landed or failed on the way,
\* in any order, was passed over.  Left out: the older one of two adopted or landed last.
RestShowsNewest ==
    toFollow = <<>> /\ adopts = {} /\ pubs = {} /\ watching /\ status = "loaded"
        /\ ~hist.late /\ ~hist.crossed
    => /\ held[following] # None
       /\ stamp = held[following] /\ remote = held[following].layout
       /\ following \notin hist.unsent => cache[following] = remote

\* "Still loading" resolves on its own, unless the session's lookup fails.
LoadingResolves == status = "loading" ~> status # "loading" \/ hist.unheard
=============================================================================
