------------------------- MODULE OptimisticPublish -------------------------
(***************************************************************************)
(* publishEventOptimistic of services/publish-service.js and the           *)
(* persistent cache of stores/event-cache.svelte.js, for one replaceable   *)
(* address (kind:pubkey:d).                                                *)
(*                                                                         *)
(* A version is shown before any relay has it.  When every relay fails,    *)
(* it is taken out of the event store and of IndexedDB and the version it  *)
(* replaced is put back, across four awaits; meanwhile the cache pipeline, *)
(* other devices, cache reads, outbox replays and reloads go on.           *)
(***************************************************************************)
EXTENDS Naturals, FiniteSets, FiniteSetsExt

CONSTANTS
    Edits,          \* publishEventOptimistic calls that may be under way at once
    Cacheable,      \* possible answers of isCacheableEvent: subset of BOOLEAN
    MaxVersions,    \* bound: versions ever made, here and on other devices
    MaxFaults       \* bound: reloads of the page, and IndexedDB calls that reject

ASSUME OptimisticAssumption ==
    /\ Cacheable \subseteq BOOLEAN
    /\ MaxVersions \in Nat /\ MaxFaults \in Nat

\* Versions are numbered by created_at, over all devices; 0 is "no version".
Version == 0..MaxVersions
\* An instance in memory, and whether it carries the from-cache marker.
Instance == [v : Version, cached : BOOLEAN]
Nothing == [v |-> 0, cached |-> FALSE]

Pcs == {"idle", "fanout", "flushing", "reading", "deleting", "restoring", "recaching"}
Publish == [pc : Pcs, v : Version, prev : Instance]
Idle == [pc |-> "idle", v |-> 0, prev |-> Nothing]

VARIABLES
    made,       \* how many versions exist
    mem,        \* the event store's version of the address
    buffer,     \* persistEventsToCache: inserted, the batch is not flushed yet
    queue,      \* nostr-idb's write queue
    idb,        \* the row of the address in IndexedDB
    pub,        \* edit -> its publishEventOptimistic
    owed,       \* versions the outbox still holds
    relays,     \* versions some relay accepted
    cacheable,  \* isCacheableEvent of the address
    faults,
    hist        \* history, read by the properties only

vars == <<made, mem, buffer, queue, idb, pub, owed, relays, cacheable, faults, hist>>

Init ==
    /\ made = 0 /\ mem = Nothing /\ buffer = {} /\ queue = {} /\ idb = 0
    /\ pub = [p \in Edits |-> Idle]
    /\ owed = {} /\ relays = {} /\ faults = 0
    /\ cacheable \in Cacheable
    /\ hist = [known |-> {},    \* versions memory held and a relay was known to hold
               cut |-> {},      \* versions whose rollback a reload or IndexedDB cut off
             unsaved |-> {},  \* versions IndexedDB refused to take back
               echoed |-> {},   \* versions that came back while their publish was under way
               replaced |-> {}] \* versions on a relay that a failed publish had replaced

Fault == faults < MaxFaults /\ faults' = faults + 1

UnderWay == \E p \in Edits : pub[p].pc # "idle"

\* eventStore.add: a replaceable event is inserted if it is newer than the one
\* held; the pipeline is offered what does not come from the cache.
Add(instance) ==
    IF instance.v > mem.v
    THEN /\ mem' = instance
         /\ buffer' = IF instance.cached THEN buffer ELSE buffer \cup {instance.v}
    ELSE UNCHANGED <<mem, buffer>>

\* History: v came back, perhaps while its own publish is under way.
Echo(v) == IF \E p \in Edits : pub[p].v = v THEN [hist EXCEPT !.echoed = @ \cup {v}] ELSE hist

\* nostr-idb's writes: the newer version wins the row.
Written == Max({idb} \cup queue)
WriteQueue == idb' = Written /\ queue' = {}

----------------------------------------------------------------------------
(* publishEventOptimistic. *)

\* Mutant: the version it replaces is read after the optimistic add.
Replaced_late(v) == [v |-> v, cached |-> FALSE]
\* getReplacedVersion: what memory holds before v is added.
Replaced(v) == mem

\* The user saves a new version: it is in the outbox and shown at once.
Edit(p) ==
    /\ pub[p].pc = "idle" /\ made < MaxVersions
    /\ LET v == made + 1 IN
       /\ made' = v
       /\ owed' = owed \cup {v}
       /\ pub' = [pub EXCEPT ![p] = [pc |-> "fanout", v |-> v, prev |-> Replaced(v)]]
       /\ Add([v |-> v, cached |-> FALSE])
    /\ UNCHANGED <<queue, idb, relays, cacheable, faults, hist>>

\* Some relay said OK; the outbox may still hold v for the others.
Succeed(p) ==
    /\ pub[p].pc = "fanout"
    /\ relays' = relays \cup {pub[p].v}
    /\ hist' = [hist EXCEPT !.known = @ \cup {pub[p].v}]
    /\ pub' = [pub EXCEPT ![p] = Idle]
    /\ owed' \in {owed, owed \ {pub[p].v}}
    /\ UNCHANGED <<made, mem, buffer, queue, idb, cacheable, faults>>

\* eventStore.remove
Remove(v) == mem' = IF mem.v = v THEN Nothing ELSE mem

\* No relay said OK: each refused it (the outbox lets go of it), or did not
\* answer; one that did not answer may hold it all the same.
Fail(p, reached, refused) ==
    /\ pub[p].pc = "fanout" /\ ~(reached /\ refused)
    /\ relays' = IF reached THEN relays \cup {pub[p].v} ELSE relays
    /\ owed' = IF refused THEN owed \ {pub[p].v} ELSE owed
    /\ Remove(pub[p].v)
    /\ pub' = [pub EXCEPT ![p].pc = "flushing"]
    /\ hist' = [hist EXCEPT !.replaced = @ \cup ({pub[p].prev.v} \cap relays)]
    /\ UNCHANGED <<made, buffer, queue, idb, cacheable, faults>>

\* uncacheEvent: pending writes are flushed first.
UncacheFlush(p) ==
    /\ pub[p].pc = "flushing"
    /\ WriteQueue
    /\ pub' = [pub EXCEPT ![p].pc = "reading"]
    /\ UNCHANGED <<made, mem, buffer, owed, relays, cacheable, faults, hist>>

IsStored(v) == idb = v

UncacheRead(p) ==
    /\ pub[p].pc = "reading"
    /\ pub' = [pub EXCEPT ![p].pc = IF IsStored(pub[p].v) THEN "deleting" ELSE "restoring"]
    /\ UNCHANGED <<made, mem, buffer, queue, idb, owed, relays, cacheable, faults, hist>>

\* nostrIDB.deleteEvent(uid): the row, whatever it holds by now.
UncacheDelete(p) ==
    /\ pub[p].pc = "deleting"
    /\ idb' = 0
    /\ pub' = [pub EXCEPT ![p].pc = "restoring"]
    /\ UNCHANGED <<made, mem, buffer, queue, owed, relays, cacheable, faults, hist>>

\* A flush that rejects keeps what it should have written, or loses it.
FlushFails == queue' \in {queue, {}}

\* uncacheEvent's catch: the flush, the read or the delete rejects.
UncacheFails(p) ==
    /\ pub[p].pc \in {"flushing", "reading", "deleting"} /\ Fault
    /\ IF pub[p].pc = "flushing" THEN FlushFails ELSE UNCHANGED queue
    /\ pub' = [pub EXCEPT ![p].pc = "restoring"]
    /\ hist' = [hist EXCEPT !.cut = @ \cup {pub[p].v}]
    /\ UNCHANGED <<made, mem, buffer, idb, owed, relays, cacheable>>

Restore(p) ==
    /\ pub[p].pc = "restoring"
    /\ IF pub[p].prev.v \in {0, pub[p].v}
       THEN pub' = [pub EXCEPT ![p] = Idle] /\ UNCHANGED <<mem, buffer>>
       ELSE pub' = [pub EXCEPT ![p].pc = "recaching"] /\ Add(pub[p].prev)
    /\ UNCHANGED <<made, queue, idb, owed, relays, cacheable, faults, hist>>

\* Mutant: the restored version is left to the pipeline, which drops what came
\* from the cache.
Recache_not(p) ==
    /\ pub[p].pc = "recaching" /\ pub' = [pub EXCEPT ![p] = Idle]
    /\ UNCHANGED <<made, mem, buffer, queue, idb, owed, relays, cacheable, faults, hist>>

\* recacheEvent: straight into nostr-idb.
Recache(p) ==
    /\ pub[p].pc = "recaching"
    /\ queue' = IF cacheable THEN queue \cup {pub[p].prev.v} ELSE queue
    /\ pub' = [pub EXCEPT ![p] = Idle]
    /\ UNCHANGED <<made, mem, buffer, idb, owed, relays, cacheable, faults, hist>>

\* recacheEvent's catch: the add or the flush rejects.
RecacheFails(p) ==
    /\ pub[p].pc = "recaching" /\ cacheable /\ Fault
    /\ FlushFails
    /\ pub' = [pub EXCEPT ![p] = Idle]
    /\ hist' = [hist EXCEPT !.unsaved = @ \cup {pub[p].prev.v}]
    /\ UNCHANGED <<made, mem, buffer, idb, owed, relays, cacheable>>

PublishStep(p) ==
    \/ Edit(p) \/ Succeed(p)
    \/ \E reached, refused \in BOOLEAN : Fail(p, reached, refused)
    \/ UncacheFlush(p) \/ UncacheRead(p) \/ UncacheDelete(p) \/ UncacheFails(p)
    \/ Restore(p) \/ Recache(p) \/ RecacheFails(p)

----------------------------------------------------------------------------
(* The cache pipeline. *)

\* Mutant: membership is not checked again when the batch is flushed.
StillHeld_any(v) == TRUE
\* eventStore.hasEvent at flush time.
StillHeld(v) == mem.v = v

\* The batch of persistEventsToCache is flushed.
Flush ==
    /\ buffer # {}
    /\ queue' = queue \cup {v \in buffer : cacheable /\ StillHeld(v)}
    /\ buffer' = {}
    /\ UNCHANGED <<made, mem, idb, pub, owed, relays, cacheable, faults, hist>>

\* nostr-idb writes its queue every writeInterval.
Write ==
    /\ queue # {} /\ WriteQueue
    /\ UNCHANGED <<made, mem, buffer, pub, owed, relays, cacheable, faults, hist>>

\* A loader's first stage: cacheRequest (which sees the write queue).
ReadCache ==
    /\ Written > mem.v
    /\ Add([v |-> Written, cached |-> TRUE])
    /\ hist' = Echo(Written)
    /\ UNCHANGED <<made, queue, idb, pub, owed, relays, cacheable, faults>>

----------------------------------------------------------------------------
(* Relays, other devices, the outbox, reloads. *)

OtherDevice ==
    /\ made < MaxVersions /\ made' = made + 1
    /\ relays' = relays \cup {made + 1}
    /\ UNCHANGED <<mem, buffer, queue, idb, pub, owed, cacheable, faults, hist>>

\* A relay delivers a version to the event store.
Arrive(v) ==
    /\ v \in relays /\ v > mem.v
    /\ Add([v |-> v, cached |-> FALSE])
    /\ hist' = [Echo(v) EXCEPT !.known = @ \cup {v}]
    /\ UNCHANGED <<made, queue, idb, pub, owed, relays, cacheable, faults>>

\* A replay of the outbox delivers v (onDelivered), or every relay refuses it.
Replay(v, delivered) ==
    /\ v \in owed
    /\ owed' = owed \ {v}
    /\ IF delivered
       THEN /\ relays' = relays \cup {v}
            /\ Add([v |-> v, cached |-> FALSE])
            /\ hist' = IF v >= mem.v THEN [Echo(v) EXCEPT !.known = @ \cup {v}] ELSE Echo(v)
       ELSE UNCHANGED <<relays, mem, buffer, hist>>
    /\ UNCHANGED <<made, queue, idb, pub, cacheable, faults>>

\* The page is reloaded: IndexedDB and the outbox stay.
Reload ==
    /\ Fault
    /\ mem' = Nothing /\ buffer' = {} /\ queue' = {}
    /\ pub' = [p \in Edits |-> Idle]
    /\ hist' = [hist EXCEPT !.known = {}, !.replaced = {},
                            !.cut = @ \cup ({pub[p].v : p \in Edits} \ {0})]
    /\ UNCHANGED <<made, idb, owed, relays, cacheable>>

Next ==
    \/ \E p \in Edits : PublishStep(p)
    \/ Flush \/ Write \/ ReadCache
    \/ OtherDevice
    \/ \E v \in relays : Arrive(v)
    \/ \E v \in owed, delivered \in BOOLEAN : Replay(v, delivered)
    \/ Reload

Spec == Init /\ [][Next]_vars

----------------------------------------------------------------------------
(* Properties. *)

Types ==
    /\ made \in Version /\ mem \in Instance /\ idb \in Version
    /\ buffer \subseteq Version /\ queue \subseteq Version
    /\ pub \in [Edits -> Publish]
    /\ owed \subseteq Version /\ relays \subseteq Version
    /\ cacheable \in BOOLEAN /\ faults \in 0..MaxFaults
    /\ hist \in [known : SUBSET Version, cut : SUBSET Version, unsaved : SUBSET Version,
                echoed : SUBSET Version, replaced : SUBSET Version]

\* Types, and what a publish will put back is older than what it publishes.
TypeOK == Types /\ \A p \in Edits : pub[p].pc # "idle" => pub[p].prev.v < pub[p].v

\* No publish is under way and the pipeline has run dry.
AtRest == ~UnderWay /\ buffer = {} /\ queue = {}

\* A failed edit leaves nothing behind: at rest, neither memory nor IndexedDB
\* shows a version no relay accepted (unless a reload or an IndexedDB error cut its
\* rollback off, or the cache was read while it was being rolled back).
NoPhantom == AtRest => {mem.v, idb} \subseteq relays \cup hist.cut \cup hist.echoed \cup {0}

\* The rollback loses nothing from memory: at rest it is not behind a version it
\* once held that a relay was known to hold (unless the news came while that
\* version's own publish was under way, and was rolled back with it).
NothingLost == AtRest => \A v \in hist.known \ hist.echoed : mem.v >= v

\* What a failed edit had replaced is put back for good: at rest it, or a newer
\* version, is in memory and survives a reload (unless IndexedDB refused to take
\* it, or a newer one, back).
ReplacedIsBack ==
    AtRest => \A v \in hist.replaced : mem.v >= v /\ (cacheable /\ (\A w \in hist.unsaved : w < v) => idb >= v)
=============================================================================
