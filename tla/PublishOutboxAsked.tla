------------------------- MODULE PublishOutboxAsked -------------------------
(***************************************************************************)
(* PublishOutbox forgets an event only when some relay set computed for it *)
(* has been asked in full, and so implements the steps of OutboxPromise,   *)
(* for any events, relays, tabs, replays, companions and crashes.          *)
(*                                                                         *)
(* AskedBeforeForgotten is not inductive: copies of an entry are all over  *)
(* the place (queued, read, listed), and any of them may be written back.  *)
(* The strengthening says of an event that is still open that each copy    *)
(* lists what has still to be asked, or has no relay set yet; and that a   *)
(* markRelayDone, which deletes an entry without a relay set, meets none:  *)
(* it is the publish's own, and behind its own setPendingRelays.           *)
(***************************************************************************)
EXTENDS PublishOutboxKeeps

\* Some relay set of e has been asked in full.
Served(e) == \E R \in hist[e].computed : R \subseteq hist[e].asked

\* Nothing allows e to be forgotten yet.
Open(e) == ~hist[e].gaveUp /\ ~hist[e].faulty /\ ~Served(e)

\* The pending relays P are all that some relay set of e still lacks.
Covers(e, P) ==
    P # None /\ \E R \in hist[e].computed : R \ hist[e].asked \subseteq NormalizeAll(P)
FineEntry(e, x) == x # None => x.pending = None \/ Covers(e, x.pending)

OpFine(e, op) ==
    /\ op.kind = "put" => FineEntry(e, op.entry)
    /\ op.kind = "set" => Covers(e, op.relays)
    /\ op.kind = "done" => op.relay \in hist[e].asked /\ Norm[op.relay] = op.relay
    /\ op.kind # "remove"

\* What is stored, queued, read, listed and sent of e.
StoreFine(e) == FineEntry(e, store[e]) /\ (hist[e].durable => store[e] # None)
ChainFine(e) ==
    \A t \in Tabs, i \in Idx, k \in EntryKinds : OpAt(t, i, e, k) => OpFine(e, chain[t][i])
ReadFine(e) ==
    \A t \in Tabs : (got[t] # None /\ Head(chain[t]).ev = e) => FineEntry(e, got[t])
ReplayFine(e) ==
    \A p \in Replays :
        /\ FineEntry(e, rp[p].todo[e])
        /\ rp[p].ev = e =>
              /\ rp[p].pc \in {"setting", "counting", "putting", "publish"} => Covers(e, rp[p].relays)
              /\ rp[p].pc \notin {"mark", "marking"}
CompanionFine(e) == comp[e].tab # None => NormalizeAll(comp[e].relays) \in hist[e].computed

CopiesFine(e) ==
    StoreFine(e) /\ ChainFine(e) /\ ReadFine(e) /\ ReplayFine(e) /\ CompanionFine(e)

\* The enqueue of the publish of e, and its setPendingRelays.
FirstAt(t, i, e) == OpAt(t, i, e, "put") /\ chain[t][i].entry.pending = None
OwnSetAt(t, i, e) == OpAt(t, i, e, "set") /\ chain[t][i].by = None
LaterAt(t, i, e) == OwnSetAt(t, i, e) \/ OpAt(t, i, e, "done")

\* No entry of e lacks its relay set, and none that does will be written.
Known(e) == store[e] = None \/ store[e].pending # None
Settled(e) == Known(e) /\ \A t \in Tabs, i \in Idx : ~FirstAt(t, i, e)

FirstIsFirst(e) ==
    \A t \in Tabs, i \in Idx : FirstAt(t, i, e) =>
        /\ live[e].tab = t /\ live[e].phase # "new"
        /\ \A j \in Idx : LaterAt(t, j, e) => i < j
LaterIsOwn(e) ==
    \A t \in Tabs, j \in Idx : LaterAt(t, j, e) => live[e].tab = t /\ live[e].phase \in {"fanout", "over"}
DoneIsLast(e) ==
    \A t \in Tabs, j \in Idx : OpAt(t, j, e, "done") =>
        Settled(e) \/ \E i \in Idx : i < j /\ OwnSetAt(t, i, e)
FanoutHasSet(e) ==
    live[e].phase = "fanout" => Settled(e) \/ \E i \in Idx : OwnSetAt(live[e].tab, i, e)
DoneReadSet(e) ==
    \A t \in Tabs : (got[t] # None /\ Head(chain[t]).ev = e /\ Head(chain[t]).kind = "done") =>
        got[t].pending # None

InOrder(e) ==
    FirstIsFirst(e) /\ LaterIsOwn(e) /\ DoneIsLast(e) /\ FanoutHasSet(e) /\ DoneReadSet(e)

AInv == TInv /\ \A e \in Events : Open(e) => CopiesFine(e) /\ InOrder(e)

----------------------------------------------------------------------------
(* What is asked stays asked, so that what is fine stays fine. *)

Grows(e) ==
    /\ hist[e].asked \subseteq hist'[e].asked /\ hist[e].computed \subseteq hist'[e].computed
    /\ hist[e].gaveUp => hist'[e].gaveUp
    /\ hist[e].faulty => hist'[e].faulty

LEMMA GrowsFine ==
    ASSUME NEW e \in Events, Grows(e)
    PROVE  /\ Open(e)' => Open(e)
           /\ \A P : Covers(e, P) => Covers(e, P)'
           /\ \A x : FineEntry(e, x) => FineEntry(e, x)'
           /\ \A op : OpFine(e, op) => OpFine(e, op)'
<1>1. Served(e) => Served(e)'
  BY DEF Served, Grows
<1>2. Open(e)' => Open(e)
  BY <1>1 DEF Open, Grows
<1>3. ASSUME NEW P, Covers(e, P) PROVE Covers(e, P)'
  BY <1>3 DEF Covers, Grows
<1>4. ASSUME NEW x, FineEntry(e, x) PROVE FineEntry(e, x)'
  BY <1>3, <1>4 DEF FineEntry
<1>5. ASSUME NEW op, OpFine(e, op) PROVE OpFine(e, op)'
  BY <1>3, <1>4, <1>5 DEF OpFine, Grows
<1> QED BY <1>2, <1>3, <1>4, <1>5

----------------------------------------------------------------------------
(* Popping and pushing operations. *)

LEMMA PopChainFine ==
    ASSUME TInv, NEW e \in Events, ChainFine(e), Grows(e), NEW t \in Tabs, chain[t] # <<>>,
           chain' = [chain EXCEPT ![t] = Tail(@)]
    PROVE  ChainFine(e)'
<1> SUFFICES ASSUME NEW u \in Tabs, NEW i \in Idx, NEW k \in EntryKinds, OpAt(u, i, e, k)'
             PROVE  OpFine(e, chain[u][i])'
  BY DEF ChainFine
<1>1. OpAt(u, i + Shift(u, t), e, k) /\ chain'[u][i] = chain[u][i + Shift(u, t)]
  BY PopOps
<1>2. i + Shift(u, t) \in Idx
  BY DEF Shift, Idx
<1>3. OpFine(e, chain[u][i + Shift(u, t)])
  BY <1>1, <1>2 DEF ChainFine
<1> QED BY <1>1, <1>3, GrowsFine

LEMMA PushChainFine ==
    ASSUME TInv, NEW e \in Events, ChainFine(e), Grows(e), NEW t \in Tabs, NEW ops \in Seq(Op), Queue(t, ops),
           \A n \in 1..Len(ops) : ops[n].kind = "list" \/ ops[n].ev # e \/ OpFine(e, ops[n])'
    PROVE  ChainFine(e)'
<1> SUFFICES ASSUME NEW u \in Tabs, NEW i \in Idx, NEW k \in EntryKinds, OpAt(u, i, e, k)'
             PROVE  OpFine(e, chain[u][i])'
  BY DEF ChainFine
<1>1. CASE OpAt(u, i, e, k) /\ chain'[u][i] = chain[u][i]
  <2>1. OpFine(e, chain[u][i])
    BY <1>1 DEF ChainFine
  <2> QED BY <1>1, <2>1, GrowsFine
<1>2. CASE u = t /\ \E n \in 1..Len(ops) : /\ i = Len(chain[t]) + n /\ chain'[t][i] = ops[n]
                                           /\ ops[n].kind = k /\ ops[n].ev = e
  BY <1>2 DEF EntryKinds
<1> QED BY <1>1, <1>2, PushOps

\* What concerns the order is moved one place forward.
LEMMA PopPlaces ==
    ASSUME TInv, NEW e \in Events, NEW t \in Tabs, chain[t] # <<>>, chain' = [chain EXCEPT ![t] = Tail(@)]
    PROVE  \A u \in Tabs, i \in Idx :
              /\ i + Shift(u, t) \in Idx
              /\ FirstAt(u, i, e)' => FirstAt(u, i + Shift(u, t), e)
              /\ OwnSetAt(u, i, e)' <=> OwnSetAt(u, i + Shift(u, t), e)
              /\ OpAt(u, i, e, "done")' <=> OpAt(u, i + Shift(u, t), e, "done")
<1>1. "put" \in EntryKinds /\ "set" \in EntryKinds /\ "done" \in EntryKinds
  BY DEF EntryKinds
<1>2. \A u \in Tabs, i \in Idx, k \in EntryKinds :
         /\ OpAt(u, i, e, k)' <=> OpAt(u, i + Shift(u, t), e, k)
         /\ OpAt(u, i, e, k)' => chain'[u][i] = chain[u][i + Shift(u, t)]
  BY PopOps
<1>3. \A u \in Tabs, i \in Idx : i + Shift(u, t) \in Idx
  BY DEF Shift, Idx
<1> QED BY <1>1, <1>2, <1>3 DEF FirstAt, OwnSetAt

LEMMA PopInOrder ==
    ASSUME TInv, NEW e \in Events, InOrder(e), NEW t \in Tabs, chain[t] # <<>>,
           chain' = [chain EXCEPT ![t] = Tail(@)], got' = [got EXCEPT ![t] = None], live'[e] = live[e],
           Settled(e) => Known(e)', OwnSetAt(t, 1, e) => Known(e)'
    PROVE  InOrder(e)'
<1> DEFINE at(u, i) == i + Shift(u, t)
<1>1. \A u \in Tabs, i \in Idx :
         /\ at(u, i) \in Idx
         /\ FirstAt(u, i, e)' => FirstAt(u, at(u, i), e)
         /\ OwnSetAt(u, i, e)' <=> OwnSetAt(u, at(u, i), e)
         /\ OpAt(u, i, e, "done")' <=> OpAt(u, at(u, i), e, "done")
  BY PopPlaces
<1>2. \A u \in Tabs, i, j \in Idx : at(u, i) < at(u, j) => i < j
  BY DEF Shift, Idx
<1>3. \A u \in Tabs, i \in Idx : OwnSetAt(u, i, e) =>
         (u = t /\ i = 1) \/ \E k \in Idx : i = at(u, k) /\ OwnSetAt(u, k, e)'
  <2> SUFFICES ASSUME NEW u \in Tabs, NEW i \in Idx, OwnSetAt(u, i, e), ~(u = t /\ i = 1)
               PROVE  \E k \in Idx : i = at(u, k) /\ OwnSetAt(u, k, e)'
    OBVIOUS
  <2>1. i - Shift(u, t) \in Idx /\ i = at(u, i - Shift(u, t))
    BY DEF Shift, Idx
  <2> QED BY <1>1, <2>1
<1>4. Settled(e) => Settled(e)'
  BY <1>1 DEF Settled
<1>5. ASSUME OwnSetAt(t, 1, e) PROVE Settled(e)'
  <2>1. live[e].tab = t
    BY <1>5 DEF InOrder, LaterIsOwn, LaterAt, Idx
  <2>2. ASSUME NEW u \in Tabs, NEW i \in Idx, FirstAt(u, i, e) PROVE FALSE
    BY <1>5, <2>1, <2>2 DEF InOrder, FirstIsFirst, LaterAt, Idx
  <2> QED BY <1>1, <1>5, <2>2 DEF Settled
<1>6. FirstIsFirst(e)'
  BY <1>1, <1>2 DEF InOrder, FirstIsFirst, LaterAt
<1>7. LaterIsOwn(e)'
  BY <1>1 DEF InOrder, LaterIsOwn, LaterAt
<1>8. DoneIsLast(e)'
  <2> SUFFICES ASSUME NEW u \in Tabs, NEW j \in Idx, OpAt(u, j, e, "done")', ~Settled(e)'
               PROVE  \E i \in Idx : i < j /\ OwnSetAt(u, i, e)'
    BY DEF DoneIsLast
  <2>1. PICK i \in Idx : i < at(u, j) /\ OwnSetAt(u, i, e)
    BY <1>1, <1>4 DEF InOrder, DoneIsLast
  <2>2. PICK k \in Idx : i = at(u, k) /\ OwnSetAt(u, k, e)'
    BY <1>3, <1>5, <2>1
  <2> QED BY <1>2, <2>1, <2>2
<1>9. FanoutHasSet(e)'
  <2>1. ASSUME live[e].phase = "fanout", ~Settled(e)' PROVE \E i \in Idx : OwnSetAt(live[e].tab, i, e)'
    <3>1. live[e].tab \in Tabs
      BY <2>1 DEF TInv, Shape, LiveShape
    <3>2. PICK i \in Idx : OwnSetAt(live[e].tab, i, e)
      BY <1>4, <2>1 DEF InOrder, FanoutHasSet
    <3> QED BY <1>3, <1>5, <2>1, <3>1, <3>2
  <2> QED BY <2>1 DEF FanoutHasSet, OwnSetAt, OpAt
<1>10. DoneReadSet(e)'
  BY DEF InOrder, DoneReadSet, TInv, TypeOK
<1> QED BY <1>6, <1>7, <1>8, <1>9, <1>10 DEF InOrder

\* An operation that does not matter to the order of the writes of e.
Neutral(e, op) ==
    \/ op.kind = "list" \/ op.ev # e
    \/ op.kind = "put" /\ op.entry.pending # None
    \/ op.kind = "set" /\ op.by # None
    \/ op.kind = "remove"

\* What a publish whose fan-out is running may queue besides.
FanoutDone(e, t, op) ==
    op.kind = "done" /\ op.ev = e /\ live[e].phase = "fanout" /\ live[e].tab = t

LEMMA PushPlaces ==
    ASSUME TInv, NEW e \in Events, NEW t \in Tabs, NEW ops \in Seq(Op), Queue(t, ops),
           \A n \in 1..Len(ops) : Neutral(e, ops[n]) \/ FanoutDone(e, t, ops[n])
    PROVE  \A u \in Tabs, i \in Idx :
              /\ FirstAt(u, i, e)' <=> FirstAt(u, i, e)
              /\ OwnSetAt(u, i, e)' <=> OwnSetAt(u, i, e)
              /\ OpAt(u, i, e, "done") => OpAt(u, i, e, "done")'
              /\ OpAt(u, i, e, "done")' =>
                    \/ OpAt(u, i, e, "done")
                    \/ /\ u = t /\ live[e].phase = "fanout" /\ live[e].tab = t
                       /\ \A k \in Idx : FirstAt(t, k, e) \/ OwnSetAt(t, k, e) => k < i
<1>1. "put" \in EntryKinds /\ "set" \in EntryKinds /\ "done" \in EntryKinds
  BY DEF EntryKinds
<1>2. \A u \in Tabs, i \in Idx, k \in EntryKinds :
         /\ OpAt(u, i, e, k) => OpAt(u, i, e, k)' /\ chain'[u][i] = chain[u][i]
         /\ OpAt(u, i, e, k)' =>
               \/ OpAt(u, i, e, k) /\ chain'[u][i] = chain[u][i]
               \/ /\ u = t
                  /\ \E n \in 1..Len(ops) : /\ i = Len(chain[t]) + n /\ chain'[t][i] = ops[n]
                                            /\ ops[n].kind = k /\ ops[n].ev = e
  BY PushOps
<1>3. Len(chain[t]) \in Nat /\ \A k \in Idx, n \in 1..Len(ops) :
         FirstAt(t, k, e) \/ OwnSetAt(t, k, e) => k < Len(chain[t]) + n
  BY LenProperties DEF FirstAt, OwnSetAt, OpAt, TInv, TypeOK, Idx
<1> SUFFICES ASSUME NEW u \in Tabs, NEW i \in Idx
             PROVE  /\ FirstAt(u, i, e)' <=> FirstAt(u, i, e)
                    /\ OwnSetAt(u, i, e)' <=> OwnSetAt(u, i, e)
                    /\ OpAt(u, i, e, "done") => OpAt(u, i, e, "done")'
                    /\ OpAt(u, i, e, "done")' =>
                          \/ OpAt(u, i, e, "done")
                          \/ /\ u = t /\ live[e].phase = "fanout" /\ live[e].tab = t
                             /\ \A k \in Idx : FirstAt(t, k, e) \/ OwnSetAt(t, k, e) => k < i
  OBVIOUS
<1>4. FirstAt(u, i, e) => FirstAt(u, i, e)'
  BY <1>1, <1>2 DEF FirstAt
<1>5. FirstAt(u, i, e)' => FirstAt(u, i, e)
  BY <1>1, <1>2 DEF FirstAt, Neutral, FanoutDone
<1>6. OwnSetAt(u, i, e) => OwnSetAt(u, i, e)'
  BY <1>1, <1>2 DEF OwnSetAt
<1>7. OwnSetAt(u, i, e)' => OwnSetAt(u, i, e)
  BY <1>1, <1>2 DEF OwnSetAt, Neutral, FanoutDone
<1>8. OpAt(u, i, e, "done") => OpAt(u, i, e, "done")'
  BY <1>1, <1>2
<1>9. ASSUME OpAt(u, i, e, "done")', ~OpAt(u, i, e, "done")
      PROVE  /\ u = t /\ live[e].phase = "fanout" /\ live[e].tab = t
             /\ \A k \in Idx : FirstAt(t, k, e) \/ OwnSetAt(t, k, e) => k < i
  <2>1. u = t
    BY <1>1, <1>2, <1>9
  <2>2. PICK n \in 1..Len(ops) : /\ i = Len(chain[t]) + n
                                 /\ ops[n].kind = "done" /\ ops[n].ev = e
    BY <1>1, <1>2, <1>9
  <2>3. FanoutDone(e, t, ops[n])
    BY <2>2 DEF Neutral
  <2> QED BY <1>3, <2>1, <2>2, <2>3 DEF FanoutDone
<1> QED BY <1>4, <1>5, <1>6, <1>7, <1>8, <1>9

LEMMA PushInOrder ==
    ASSUME TInv, NEW e \in Events, InOrder(e), NEW t \in Tabs, NEW ops \in Seq(Op), Queue(t, ops),
           got' = got, store' = store, live'[e].tab = live[e].tab,
           live'[e].phase = live[e].phase \/ (live[e].phase = "fanout" /\ live'[e].phase = "over"),
           \A n \in 1..Len(ops) : Neutral(e, ops[n]) \/ FanoutDone(e, t, ops[n])
    PROVE  InOrder(e)'
<1>1. \A u \in Tabs, i \in Idx :
         /\ FirstAt(u, i, e)' <=> FirstAt(u, i, e)
         /\ OwnSetAt(u, i, e)' <=> OwnSetAt(u, i, e)
         /\ OpAt(u, i, e, "done") => OpAt(u, i, e, "done")'
         /\ OpAt(u, i, e, "done")' =>
               \/ OpAt(u, i, e, "done")
               \/ /\ u = t /\ live[e].phase = "fanout" /\ live[e].tab = t
                  /\ \A k \in Idx : FirstAt(t, k, e) \/ OwnSetAt(t, k, e) => k < i
  BY PushPlaces
<1>2. Settled(e)' <=> Settled(e)
  BY <1>1 DEF Settled, Known
<1>3. FirstIsFirst(e)'
  BY <1>1 DEF InOrder, FirstIsFirst, LaterAt
<1>4. LaterIsOwn(e)'
  BY <1>1 DEF InOrder, LaterIsOwn, LaterAt
<1>5. DoneIsLast(e)'
  <2> SUFFICES ASSUME NEW u \in Tabs, NEW j \in Idx, OpAt(u, j, e, "done")', ~Settled(e)
               PROVE  \E i \in Idx : i < j /\ OwnSetAt(u, i, e)'
    BY <1>2 DEF DoneIsLast
  <2>1. CASE OpAt(u, j, e, "done")
    BY <1>1, <2>1 DEF InOrder, DoneIsLast
  <2>2. CASE ~OpAt(u, j, e, "done")
    <3>1. /\ u = t /\ live[e].phase = "fanout" /\ live[e].tab = t
          /\ \A k \in Idx : FirstAt(t, k, e) \/ OwnSetAt(t, k, e) => k < j
      BY <1>1, <2>2
    <3>2. PICK i \in Idx : OwnSetAt(t, i, e)
      BY <3>1 DEF InOrder, FanoutHasSet
    <3> QED BY <1>1, <3>1, <3>2
  <2> QED BY <2>1, <2>2
<1>6. FanoutHasSet(e)'
  <2>1. ASSUME live'[e].phase = "fanout", ~Settled(e)
        PROVE  \E i \in Idx : OwnSetAt(live[e].tab, i, e)'
    <3>1. live[e].tab \in Tabs /\ live[e].phase = "fanout"
      BY <2>1 DEF TInv, Shape, LiveShape
    <3>2. PICK i \in Idx : OwnSetAt(live[e].tab, i, e)
      BY <2>1, <3>1 DEF InOrder, FanoutHasSet
    <3> QED BY <1>1, <3>1, <3>2
  <2> QED BY <1>2, <2>1 DEF FanoutHasSet, OwnSetAt, OpAt
<1>7. DoneReadSet(e)'
  <2>1. \A u \in Tabs : chain[u] # <<>> => Head(chain'[u]) = Head(chain[u])
    BY QueueStep
  <2> QED BY <2>1 DEF InOrder, DoneReadSet, TInv, Shape, ChainShape
<1> QED BY <1>3, <1>4, <1>5, <1>6, <1>7 DEF InOrder

\* A step that neither queues nor completes an operation.
LEMMA StayInOrder ==
    ASSUME TInv, NEW e \in Events, InOrder(e), UNCHANGED <<chain, got, store>>, live'[e].tab = live[e].tab,
           live'[e].phase = live[e].phase \/ (live[e].phase = "fanout" /\ live'[e].phase = "over")
    PROVE  InOrder(e)'
<1>1. \A u, i : /\ FirstAt(u, i, e)' <=> FirstAt(u, i, e)
                /\ OwnSetAt(u, i, e)' <=> OwnSetAt(u, i, e)
                /\ LaterAt(u, i, e)' <=> LaterAt(u, i, e)
                /\ OpAt(u, i, e, "done")' <=> OpAt(u, i, e, "done")
  BY DEF FirstAt, OwnSetAt, LaterAt, OpAt
<1>2. Settled(e)' <=> Settled(e)
  BY <1>1 DEF Settled, Known
<1>3. FirstIsFirst(e)' /\ LaterIsOwn(e)' /\ DoneIsLast(e)'
  BY <1>1, <1>2 DEF InOrder, FirstIsFirst, LaterIsOwn, DoneIsLast
<1>4. FanoutHasSet(e)' /\ DoneReadSet(e)'
  BY <1>1, <1>2 DEF InOrder, FanoutHasSet, DoneReadSet
<1> QED BY <1>3, <1>4 DEF InOrder

----------------------------------------------------------------------------
(* The steps of a tab's chain. *)

LEMMA CompleteReplayFine ==
    ASSUME TInv, NEW e \in Events, ReplayFine(e), Grows(e), NEW t \in Tabs, chain[t] # <<>>, Complete(t)
    PROVE  ReplayFine(e)'
<1>1. Head(chain[t]) \in Op
  BY HeadTailProperties DEF TInv, TypeOK
<1>2. Head(chain[t]).by \in Replays \cup {None}
  BY <1>1 DEF Op
<1> SUFFICES ASSUME NEW q \in Replays
             PROVE  /\ FineEntry(e, rp[q].todo[e])'
                    /\ rp'[q].ev = e =>
                          /\ rp'[q].pc \in {"setting", "counting", "putting", "publish"} =>
                                Covers(e, rp[q].relays)'
                          /\ rp'[q].pc \notin {"mark", "marking"}
  BY DEF ReplayFine
<1>3. /\ rp'[q].ev = rp[q].ev /\ rp'[q].todo = rp[q].todo /\ rp'[q].relays = rp[q].relays
      /\ rp'[q].pc = rp[q].pc \/ rp'[q].pc = Continue(rp[q]).pc
  <2>1. CASE Head(chain[t]).by = None
    BY <2>1 DEF Complete
  <2>2. CASE Head(chain[t]).by # None
    <3>1. PICK p \in Replays : p = Head(chain[t]).by
      BY <1>2, <2>2
    <3>2. rp' = [rp EXCEPT ![p] = [rp[p] EXCEPT !.pc = Continue(rp[p]).pc]]
      BY <2>2, <3>1, ContinueType DEF Complete
    <3> QED BY <3>2 DEF TInv, TypeOK, ReplayRun
  <2> QED BY <2>1, <2>2
<1>4. rp[q] \in ReplayRun
  BY DEF TInv, TypeOK
<1>5. Continue(rp[q]).pc = CASE rp[q].pc \in {"listing", "dropping"} -> "next"
                             [] rp[q].pc = "setting" -> "counting"
                             [] rp[q].pc = "putting" -> "publish"
                             [] rp[q].pc = "marking" -> IF rp[q].results = {} THEN "next" ELSE "mark"
                             [] OTHER -> rp[q].pc
  BY <1>4 DEF Continue, ReplayRun
<1>6. /\ Continue(rp[q]).pc \in {"setting", "counting", "putting", "publish"} =>
            rp[q].pc \in {"setting", "counting", "putting", "publish"}
      /\ Continue(rp[q]).pc \in {"mark", "marking"} => rp[q].pc \in {"mark", "marking"}
  BY <1>5
<1>7. FineEntry(e, rp[q].todo[e]) /\ (rp[q].ev = e /\
         rp[q].pc \in {"setting", "counting", "putting", "publish"} => Covers(e, rp[q].relays))
      /\ (rp[q].ev = e => rp[q].pc \notin {"mark", "marking"})
  BY DEF ReplayFine
<1>8. FineEntry(e, rp[q].todo[e])'
  BY <1>3, <1>7, GrowsFine
<1>9. ASSUME rp'[q].ev = e, rp'[q].pc \in {"setting", "counting", "putting", "publish"}
      PROVE  Covers(e, rp[q].relays)'
  <2>1. Covers(e, rp[q].relays)
    BY <1>3, <1>6, <1>7, <1>9
  <2> QED BY <1>3, <2>1, GrowsFine
<1>10. rp'[q].ev = e => rp'[q].pc \notin {"mark", "marking"}
  BY <1>3, <1>6, <1>7
<1> QED BY <1>8, <1>9, <1>10

\* The head of t's chain completes: what is left to show is what it stored.
LEMMA CompleteAsks ==
    ASSUME TInv, NEW e \in Events, CopiesFine(e), InOrder(e), Grows(e), NEW t \in Tabs, chain[t] # <<>>,
           Complete(t), live' = live, comp' = comp, StoreFine(e)',
           Settled(e) => Known(e)', OwnSetAt(t, 1, e) => Known(e)'
    PROVE  CopiesFine(e)' /\ InOrder(e)'
<1>1. chain' = [chain EXCEPT ![t] = Tail(@)] /\ got' = [got EXCEPT ![t] = None]
  BY DEF Complete
<1>2. InOrder(e)'
  BY <1>1, PopInOrder
<1>3. ChainFine(e)'
  BY <1>1, PopChainFine DEF CopiesFine
<1>4. ReplayFine(e)'
  BY CompleteReplayFine DEF CopiesFine
<1>5. ReadFine(e)'
  <2> SUFFICES ASSUME NEW u \in Tabs, got'[u] # None, Head(chain'[u]).ev = e
               PROVE  FineEntry(e, got[u])'
    BY DEF ReadFine
  <2>1. u # t /\ got'[u] = got[u] /\ chain'[u] = chain[u]
    BY <1>1 DEF TInv, TypeOK
  <2>2. FineEntry(e, got[u])
    BY <2>1 DEF CopiesFine, ReadFine
  <2> QED BY <2>1, <2>2, GrowsFine
<1>6. CompanionFine(e)'
  BY DEF CopiesFine, CompanionFine, Grows
<1> QED BY <1>2, <1>3, <1>4, <1>5, <1>6 DEF CopiesFine

\* Taking a relay that was asked off the list leaves it as good as it was.
LEMMA MarkCovers ==
    ASSUME NEW e \in Events, NEW P \in SUBSET Urls, Covers(e, P), NEW r \in hist[e].asked, Norm[r] = r
    PROVE  Covers(e, P \ {r}) /\ (P \ {r} = {} => Served(e))
<1>1. PICK R \in hist[e].computed : R \ hist[e].asked \subseteq NormalizeAll(P)
  BY DEF Covers
<1>2. R \ hist[e].asked \subseteq NormalizeAll(P \ {r})
  BY <1>1 DEF NormalizeAll
<1>3. P \ {r} # None
  BY OutboxAssumption
<1>4. P \ {r} = {} => R \subseteq hist[e].asked
  BY <1>2 DEF NormalizeAll
<1> QED BY <1>2, <1>3, <1>4 DEF Covers, Served

\* A write back of an entry of e, while nothing allows e to be forgotten.
LEMMA WriteFine ==
    ASSUME TInv, NEW e \in Events, Open(e), CopiesFine(e), InOrder(e), NEW t \in Tabs, WriteEntry(t),
           Head(chain[t]).ev = e
    PROVE  store'[e] \in Entry /\ FineEntry(e, store'[e]) /\ store'[e].pending # None
<1>1. /\ chain[t] # <<>> /\ Head(chain[t]).kind \in {"set", "done"} /\ Head(chain[t]).kind # "list"
      /\ got[t] # None /\ got[t] \in Entry /\ got[t].pending \in {None} \cup SUBSET Urls
  BY DEF WriteEntry, TInv, TypeOK, Shape, ChainShape, Entry
<1>2. /\ Head(chain[t]) \in Op /\ Head(chain[t]) = chain[t][1] /\ 1 \in Idx
      /\ Head(chain[t]).kind \in EntryKinds /\ OpAt(t, 1, e, Head(chain[t]).kind)
  BY <1>1, HeadOp
<1>3. OpFine(e, Head(chain[t])) /\ FineEntry(e, got[t])
  BY <1>1, <1>2 DEF CopiesFine, ChainFine, ReadFine
<1>4. store'[e] = IF Head(chain[t]).kind = "set" THEN [got[t] EXCEPT !.pending = Head(chain[t]).relays]
                  ELSE WithoutRelay(got[t], Head(chain[t]).relay)
  BY DEF WriteEntry, TInv, TypeOK
<1>5. CASE Head(chain[t]).kind = "set"
  <2>1. Head(chain[t]).relays \in SUBSET Urls /\ Covers(e, Head(chain[t]).relays)
    BY <1>2, <1>3, <1>5 DEF Op, OpFine
  <2>2. store'[e] \in Entry /\ store'[e].pending = Head(chain[t]).relays
    BY <1>1, <1>4, <1>5, <2>1 DEF Entry
  <2> QED BY <2>1, <2>2 DEF FineEntry, Covers
<1>6. CASE Head(chain[t]).kind = "done"
  <2> DEFINE r == Head(chain[t]).relay
             left == got[t].pending \ {r}
  <2>1. r \in hist[e].asked /\ Norm[r] = r
    BY <1>3, <1>6 DEF OpFine
  <2>2. got[t].pending # None
    BY <1>1, <1>6 DEF InOrder, DoneReadSet
  <2>3. got[t].pending \in SUBSET Urls /\ Covers(e, got[t].pending)
    BY <1>1, <1>3, <2>2 DEF FineEntry
  <2>4. Covers(e, left) /\ left # {}
    BY <2>1, <2>3, MarkCovers DEF Open
  <2>5. store'[e] = [got[t] EXCEPT !.pending = left]
    BY <1>4, <1>6, <2>2, <2>4 DEF WithoutRelay
  <2>6. store'[e] \in Entry /\ store'[e].pending = left
    BY <1>1, <2>3, <2>5 DEF Entry
  <2> QED BY <2>4, <2>6 DEF FineEntry, Covers
<1> QED BY <1>1, <1>5, <1>6

Asks(e) == CopiesFine(e) /\ InOrder(e)

\* An open event was open before, and its copies in order.
LEMMA WasOpen ==
    ASSUME AInv, NEW e \in Events, Grows(e), Open(e)'
    PROVE  TInv /\ Open(e) /\ CopiesFine(e) /\ InOrder(e)
  BY GrowsFine DEF AInv

\* A step of a tab's chain.
LEMMA ChainAsks ==
    ASSUME AInv, NEW t \in Tabs, ChainStep(t) \/ WriteFails(t), NEW e \in Events, Open(e)'
    PROVE  Asks(e)'
<1> USE DEF Asks
<1>1. TInv /\ hist \in [Events -> History] /\ store \in [Events -> {None} \cup Entry]
  BY DEF AInv, TInv, TypeOK
<1>2. CASE ExecPut(t)
  <2>1. /\ chain[t] # <<>> /\ Head(chain[t]) \in Op /\ Head(chain[t]).kind = "put"
        /\ Head(chain[t]).ev \in Events /\ Head(chain[t]).entry \in Entry
        /\ OpAt(t, 1, Head(chain[t]).ev, "put") /\ 1 \in Idx /\ Head(chain[t]) = chain[t][1]
    BY <1>1, <1>2, HeadOp DEF ExecPut, Op
  <2> DEFINE o == Head(chain[t]).ev
  <2>2. /\ hist' = [hist EXCEPT ![o] = [hist[o] EXCEPT !.durable = TRUE]]
        /\ store' = [store EXCEPT ![o] = Head(chain[t]).entry]
        /\ live' = live /\ comp' = comp /\ Complete(t)
    BY <1>1, <1>2, <2>1 DEF ExecPut, History
  <2>3. /\ hist'[e].asked = hist[e].asked /\ hist'[e].computed = hist[e].computed
        /\ hist'[e].gaveUp = hist[e].gaveUp /\ hist'[e].faulty = hist[e].faulty
        /\ e # o => hist'[e].durable = hist[e].durable
        /\ store'[e] = IF e = o THEN Head(chain[t]).entry ELSE store[e]
    BY <1>1, <2>1, <2>2 DEF History
  <2>4. Grows(e)
    BY <2>3 DEF Grows
  <2>5. Open(e) /\ CopiesFine(e) /\ InOrder(e)
    BY <2>4, WasOpen
  <2>6. ~OwnSetAt(t, 1, e)
    BY <2>1 DEF OwnSetAt, OpAt
  <2>7. CASE e = o
    <3>1. OpFine(e, Head(chain[t])) /\ Head(chain[t]).entry # None
      BY <2>1, <2>5, <2>7, OutboxAssumption DEF CopiesFine, ChainFine, EntryKinds
    <3>2. FineEntry(e, Head(chain[t]).entry)
      BY <2>1, <3>1 DEF OpFine
    <3>3. StoreFine(e)'
      BY <2>3, <2>4, <2>7, <3>1, <3>2, GrowsFine DEF StoreFine
    <3>4. Settled(e) => Known(e)'
      BY <2>1, <2>3, <2>7 DEF Settled, Known, FirstAt
    <3> QED BY <1>1, <2>1, <2>2, <2>4, <2>5, <2>6, <3>3, <3>4, CompleteAsks
  <2>8. CASE e # o
    <3>1. StoreFine(e)'
      BY <2>3, <2>4, <2>5, <2>8, GrowsFine DEF CopiesFine, StoreFine
    <3>2. Settled(e) => Known(e)'
      BY <2>3, <2>8 DEF Settled, Known
    <3> QED BY <1>1, <2>1, <2>2, <2>4, <2>5, <2>6, <3>1, <3>2, CompleteAsks
  <2> QED BY <2>7, <2>8
<1>3. CASE ExecRemove(t)
  <2>1. /\ chain[t] # <<>> /\ Head(chain[t]) \in Op /\ Head(chain[t]).kind = "remove"
        /\ Head(chain[t]).ev \in Events
        /\ OpAt(t, 1, Head(chain[t]).ev, "remove") /\ 1 \in Idx /\ Head(chain[t]) = chain[t][1]
    BY <1>1, <1>3, HeadOp DEF ExecRemove
  <2>2. /\ store' = [store EXCEPT ![Head(chain[t]).ev] = None]
        /\ live' = live /\ hist' = hist /\ comp' = comp /\ Complete(t)
    BY <1>3 DEF ExecRemove
  <2>3. Grows(e)
    BY <2>2 DEF Grows
  <2>4. Open(e) /\ CopiesFine(e) /\ InOrder(e)
    BY <2>3, WasOpen
  <2>5. Head(chain[t]).ev # e
    BY <2>1, <2>4 DEF CopiesFine, ChainFine, OpFine, EntryKinds
  <2>6. store'[e] = store[e]
    BY <1>1, <2>2, <2>5
  <2>7. StoreFine(e)' /\ (Settled(e) => Known(e)') /\ ~OwnSetAt(t, 1, e)
    BY <2>1, <2>2, <2>3, <2>4, <2>6, GrowsFine DEF CopiesFine, StoreFine, Settled, Known, OwnSetAt, OpAt
  <2> QED BY <1>1, <2>1, <2>2, <2>3, <2>4, <2>7, CompleteAsks
<1>4. CASE ExecList(t)
  <2>1. hist' = [f \in Events |-> [hist[f] EXCEPT !.shared = @ \/ store[f] # None]]
    BY <1>4 DEF ExecList
  <2>2. /\ hist'[e].asked = hist[e].asked /\ hist'[e].computed = hist[e].computed
        /\ hist'[e].gaveUp = hist[e].gaveUp /\ hist'[e].faulty = hist[e].faulty
        /\ hist'[e].durable = hist[e].durable
    BY <1>1, <2>1 DEF History
  <2>3. Grows(e)
    BY <2>2 DEF Grows
  <2>4. Open(e) /\ CopiesFine(e) /\ InOrder(e)
    BY <2>3, WasOpen
  <2>5. /\ chain[t] # <<>> /\ chain' = [chain EXCEPT ![t] = Tail(@)] /\ got' = [got EXCEPT ![t] = None]
        /\ Head(chain[t]).kind = "list" /\ store' = store /\ live' = live /\ comp' = comp
    BY <1>1, <1>4 DEF ExecList, TInv, TypeOK, Shape, ChainShape
  <2>6. ~OwnSetAt(t, 1, e)
    BY <1>1, <2>5, HeadTailProperties DEF OwnSetAt, OpAt, TInv, TypeOK
  <2>7. InOrder(e)'
    BY <1>1, <2>4, <2>5, <2>6, PopInOrder DEF Settled, Known
  <2>8. ChainFine(e)'
    BY <1>1, <2>3, <2>4, <2>5, PopChainFine DEF CopiesFine
  <2>9. StoreFine(e)' /\ CompanionFine(e)'
    BY <2>2, <2>3, <2>4, <2>5, GrowsFine DEF CopiesFine, StoreFine, CompanionFine
  <2>10. ReadFine(e)'
    <3> SUFFICES ASSUME NEW u \in Tabs, got'[u] # None, Head(chain'[u]).ev = e
                 PROVE  FineEntry(e, got[u])'
      BY DEF ReadFine
    <3>1. got'[u] = got[u] /\ chain'[u] = chain[u]
      BY <1>1, <2>5 DEF TInv, TypeOK
    <3>2. FineEntry(e, got[u])
      BY <2>4, <3>1 DEF CopiesFine, ReadFine
    <3> QED BY <2>3, <3>1, <3>2, GrowsFine
  <2>11. ReplayFine(e)'
    <3> SUFFICES ASSUME NEW q \in Replays
                 PROVE  /\ FineEntry(e, rp[q].todo[e])'
                        /\ rp'[q].ev = e =>
                              /\ rp'[q].pc \in {"setting", "counting", "putting", "publish"} =>
                                    Covers(e, rp[q].relays)'
                              /\ rp'[q].pc \notin {"mark", "marking"}
      BY DEF ReplayFine
    <3>1. Head(chain[t]) \in Op
      BY <1>1, <2>5, HeadTailProperties DEF TInv, TypeOK
    <3>2. Head(chain[t]).by \in Replays
      BY <2>5, <3>1 DEF Op
    <3>3. CASE q = Head(chain[t]).by
      <4>1. rp'[q].todo = store /\ rp'[q].pc = "next"
        BY <1>1, <1>4, <3>2, <3>3 DEF ExecList, TInv, TypeOK, ReplayRun
      <4>2. FineEntry(e, store[e])
        BY <2>4 DEF CopiesFine, StoreFine
      <4> QED BY <2>3, <4>1, <4>2, GrowsFine
    <3>4. CASE q # Head(chain[t]).by
      <4>1. rp'[q] = rp[q]
        BY <1>1, <1>4, <3>2, <3>4 DEF ExecList, TInv, TypeOK
      <4> QED BY <2>3, <2>4, <4>1, GrowsFine DEF CopiesFine, ReplayFine
    <3> QED BY <3>3, <3>4
  <2> QED BY <2>7, <2>8, <2>9, <2>10, <2>11 DEF CopiesFine
<1>5. CASE ReadEntry(t)
  <2>1. /\ chain[t] # <<>> /\ Head(chain[t]) \in Op /\ Head(chain[t]).kind \in {"set", "done"}
        /\ Head(chain[t]) = chain[t][1] /\ 1 \in Idx /\ Head(chain[t]).ev \in Events
        /\ OpAt(t, 1, Head(chain[t]).ev, Head(chain[t]).kind)
    BY <1>1, <1>5, HeadOp DEF ReadEntry
  <2>2. /\ hist' = hist /\ store' = store /\ live' = live /\ comp' = comp
    BY <1>5 DEF ReadEntry
  <2>3. Grows(e)
    BY <2>2 DEF Grows
  <2>4. Open(e) /\ CopiesFine(e) /\ InOrder(e)
    BY <2>3, WasOpen
  <2>5. StoreFine(e)'
    BY <2>2, <2>3, <2>4, GrowsFine DEF CopiesFine, StoreFine
  <2>6. CASE Complete(t) /\ store[Head(chain[t]).ev] = None
    <3>1. (Settled(e) => Known(e)') /\ (OwnSetAt(t, 1, e) => Known(e)')
      BY <2>1, <2>2, <2>6 DEF Settled, Known, OwnSetAt, OpAt
    <3> QED BY <1>1, <2>1, <2>2, <2>3, <2>4, <2>5, <2>6, <3>1, CompleteAsks
  <2>7. CASE /\ store[Head(chain[t]).ev] # None
             /\ got' = [got EXCEPT ![t] = store[Head(chain[t]).ev]] /\ chain' = chain /\ rp' = rp
    <3>1. ChainFine(e)' /\ ReplayFine(e)' /\ CompanionFine(e)'
      BY <2>2, <2>4, <2>7 DEF CopiesFine, ChainFine, ReplayFine, CompanionFine, OpFine, FineEntry,
         Covers, OpAt
    <3>2. \A u \in Tabs : got'[u] = IF u = t THEN store[Head(chain[t]).ev] ELSE got[u]
      BY <1>1, <2>7 DEF TInv, TypeOK
    <3>3. ReadFine(e)'
      <4> SUFFICES ASSUME NEW u \in Tabs, got'[u] # None, Head(chain[u]).ev = e
                   PROVE  FineEntry(e, got[u])'
        BY <2>7 DEF ReadFine
      <4>1. FineEntry(e, got'[u])
        BY <2>4, <3>2 DEF CopiesFine, ReadFine, StoreFine
      <4> QED BY <2>2, <4>1 DEF FineEntry, Covers
    <3>4. \A u, i : /\ FirstAt(u, i, e)' <=> FirstAt(u, i, e)
                    /\ OwnSetAt(u, i, e)' <=> OwnSetAt(u, i, e)
                    /\ LaterAt(u, i, e)' <=> LaterAt(u, i, e)
                    /\ OpAt(u, i, e, "done")' <=> OpAt(u, i, e, "done")
      BY <2>7 DEF FirstAt, OwnSetAt, LaterAt, OpAt
    <3>5. Settled(e)' <=> Settled(e)
      BY <2>2, <3>4 DEF Settled, Known
    <3>6. FirstIsFirst(e)' /\ LaterIsOwn(e)' /\ DoneIsLast(e)' /\ FanoutHasSet(e)'
      BY <2>2, <2>4, <3>4, <3>5 DEF InOrder, FirstIsFirst, LaterIsOwn, DoneIsLast, FanoutHasSet
    <3>7. DoneReadSet(e)'
      <4> SUFFICES ASSUME NEW u \in Tabs, got'[u] # None, Head(chain[u]).ev = e, Head(chain[u]).kind = "done"
                   PROVE  got'[u].pending # None
        BY <2>7 DEF DoneReadSet
      <4>1. CASE u # t
        BY <2>4, <3>2, <4>1 DEF InOrder, DoneReadSet
      <4>2. CASE u = t
        <5>1. Settled(e)
          BY <2>1, <2>4, <4>2 DEF InOrder, DoneIsLast, Idx
        <5> QED BY <3>2, <4>2, <5>1 DEF Settled, Known
      <4> QED BY <4>1, <4>2
    <3> QED BY <2>5, <3>1, <3>3, <3>6, <3>7 DEF CopiesFine, InOrder
  <2> QED BY <1>5, <2>6, <2>7 DEF ReadEntry
<1>6. CASE WriteEntry(t)
  <2>1. /\ chain[t] # <<>> /\ Head(chain[t]).kind \in {"set", "done"} /\ Head(chain[t]).kind # "list"
    BY <1>1, <1>6 DEF WriteEntry, TInv, Shape, ChainShape
  <2>2. Head(chain[t]).ev \in Events /\ Head(chain[t]) = chain[t][1]
    BY <1>1, <2>1, HeadOp
  <2>3. hist' = hist /\ live' = live /\ comp' = comp /\ Complete(t)
    BY <1>6 DEF WriteEntry
  <2>4. Grows(e)
    BY <2>3 DEF Grows
  <2>5. Open(e) /\ CopiesFine(e) /\ InOrder(e)
    BY <2>4, WasOpen
  <2>6. CASE Head(chain[t]).ev = e
    <3>1. store'[e] \in Entry /\ FineEntry(e, store'[e]) /\ store'[e].pending # None
      BY <1>1, <1>6, <2>5, <2>6, WriteFine
    <3>2. store'[e] # None
      BY <3>1, OutboxAssumption
    <3>3. StoreFine(e)' /\ Known(e)'
      BY <2>3, <3>1, <3>2 DEF StoreFine, FineEntry, Covers, Known
    <3> QED BY <1>1, <2>1, <2>3, <2>4, <2>5, <3>3, CompleteAsks
  <2>7. CASE Head(chain[t]).ev # e
    <3>1. store'[e] = store[e]
      BY <1>1, <1>6, <2>2, <2>7 DEF WriteEntry
    <3>2. StoreFine(e)' /\ (Settled(e) => Known(e)') /\ ~OwnSetAt(t, 1, e)
      BY <2>2, <2>3, <2>5, <2>7, <3>1 DEF CopiesFine, StoreFine, FineEntry, Covers, Settled, Known,
         OwnSetAt, OpAt
    <3> QED BY <1>1, <2>1, <2>3, <2>4, <2>5, <3>2, CompleteAsks
  <2> QED BY <2>6, <2>7
<1>7. CASE WriteFails(t)
  <2> DEFINE op == Head(chain[t])
  <2>1. chain[t] # <<>> /\ op = chain[t][1] /\ (op.kind # "list" => op.ev \in Events)
    BY <1>1, <1>7, HeadOp, HeadTailProperties DEF WriteFails, TInv, TypeOK
  <2>2. IF op.kind = "list" THEN hist' = hist
        ELSE hist' = [hist EXCEPT ![op.ev] = [hist[op.ev] EXCEPT !.faulty = TRUE]]
    BY <1>1, <1>7, <2>1 DEF WriteFails, History
  <2>3. op.kind = "list" \/ e # op.ev
    BY <1>1, <2>1, <2>2 DEF Open, History
  <2>4. hist'[e] = hist[e]
    BY <1>1, <2>1, <2>2, <2>3
  <2>5. Grows(e)
    BY <2>4 DEF Grows
  <2>6. Open(e) /\ CopiesFine(e) /\ InOrder(e)
    BY <2>5, WasOpen
  <2>7. store' = store /\ live' = live /\ comp' = comp /\ Complete(t)
    BY <1>7 DEF WriteFails
  <2>8. StoreFine(e)' /\ (Settled(e) => Known(e)') /\ ~OwnSetAt(t, 1, e)
    BY <2>1, <2>3, <2>4, <2>5, <2>6, <2>7, GrowsFine DEF CopiesFine, StoreFine, Settled, Known, OwnSetAt, OpAt
  <2> QED BY <1>1, <2>1, <2>5, <2>6, <2>7, <2>8, CompleteAsks
<1> QED BY <1>2, <1>3, <1>4, <1>5, <1>6, <1>7 DEF ChainStep

----------------------------------------------------------------------------
(* The steps of a publish. *)

\* Pushing at the end of a chain leaves what has been read alone.
LEMMA PushReads ==
    ASSUME TInv, NEW e \in Events, ReadFine(e), DoneReadSet(e), Grows(e), NEW t \in Tabs, NEW ops \in Seq(Op),
           Queue(t, ops), got' = got
    PROVE  ReadFine(e)' /\ DoneReadSet(e)'
<1>1. \A u \in Tabs : chain[u] # <<>> => Head(chain'[u]) = Head(chain[u])
  BY QueueStep
<1>2. \A u \in Tabs : got[u] # None => Head(chain'[u]) = Head(chain[u])
  BY <1>1 DEF TInv, Shape, ChainShape
<1>3. ReadFine(e)'
  <2> SUFFICES ASSUME NEW u \in Tabs, got[u] # None, Head(chain'[u]).ev = e
               PROVE  FineEntry(e, got[u])'
    BY DEF ReadFine
  <2>1. FineEntry(e, got[u])
    BY <1>2 DEF ReadFine
  <2> QED BY <2>1, GrowsFine
<1>4. DoneReadSet(e)'
  BY <1>2 DEF DoneReadSet
<1> QED BY <1>3, <1>4

LEMMA StoreStays ==
    ASSUME NEW e \in Events, StoreFine(e), Grows(e), store' = store, hist'[e].durable = hist[e].durable
    PROVE  StoreFine(e)'
  BY GrowsFine DEF StoreFine

LEMMA ReplaysStay ==
    ASSUME NEW e \in Events, ReplayFine(e), Grows(e), rp' = rp
    PROVE  ReplayFine(e)'
  BY GrowsFine DEF ReplayFine

\* Operations that do not disturb the order of e are appended to a chain.
LEMMA PushAsks ==
    ASSUME TInv, NEW e \in Events, CopiesFine(e), InOrder(e), Grows(e),
           NEW t \in Tabs, NEW ops \in Seq(Op), Queue(t, ops),
           got' = got, store' = store, hist'[e].durable = hist[e].durable,
           live'[e].tab = live[e].tab,
           live'[e].phase = live[e].phase \/ (live[e].phase = "fanout" /\ live'[e].phase = "over"),
           \A n \in 1..Len(ops) : Neutral(e, ops[n]) \/ FanoutDone(e, t, ops[n]),
           \A n \in 1..Len(ops) : ops[n].kind = "list" \/ ops[n].ev # e \/ OpFine(e, ops[n])',
           ReplayFine(e)', CompanionFine(e)'
    PROVE  Asks(e)'
<1>1. InOrder(e)'
  BY PushInOrder
<1>2. ChainFine(e)'
  BY PushChainFine DEF CopiesFine
<1>3. ReadFine(e)'
  BY PushReads DEF CopiesFine, InOrder
<1>4. StoreFine(e)'
  BY StoreStays DEF CopiesFine
<1> QED BY <1>1, <1>2, <1>3, <1>4 DEF CopiesFine, Asks

\* Nothing is queued, read or stored.
LEMMA StayAsks ==
    ASSUME TInv, NEW e \in Events, CopiesFine(e), InOrder(e), Grows(e),
           UNCHANGED <<chain, got, store>>, hist'[e].durable = hist[e].durable,
           live'[e].tab = live[e].tab,
           live'[e].phase = live[e].phase \/ (live[e].phase = "fanout" /\ live'[e].phase = "over"),
           ReplayFine(e)', CompanionFine(e)'
    PROVE  Asks(e)'
<1>1. InOrder(e)'
  BY StayInOrder
<1>2. ChainFine(e)'
  <2> SUFFICES ASSUME NEW u \in Tabs, NEW i \in Idx, NEW k \in EntryKinds, OpAt(u, i, e, k)
               PROVE  OpFine(e, chain[u][i])'
    BY DEF ChainFine, OpAt
  <2>1. OpFine(e, chain[u][i])
    BY DEF CopiesFine, ChainFine
  <2> QED BY <2>1, GrowsFine
<1>3. ReadFine(e)'
  BY GrowsFine DEF CopiesFine, ReadFine
<1>4. StoreFine(e)'
  BY StoreStays DEF CopiesFine
<1> QED BY <1>1, <1>2, <1>3, <1>4 DEF CopiesFine, Asks

LEMMA PublishAsks ==
    ASSUME AInv, NEW f \in Events, NEW t \in Tabs, Publish(f, t), NEW e \in Events, Open(e)'
    PROVE  Asks(e)'
<1>1. hist' = hist /\ Grows(e)
  BY DEF Publish, Grows
<1>2. TInv /\ Open(e) /\ CopiesFine(e) /\ InOrder(e)
  BY <1>1, WasOpen
<1>3. PICK ops : ops = <<EnqueueOp(f, None)>>
  OBVIOUS
<1>4. /\ ops \in Seq(Op) /\ ops[1].kind = "put" /\ ops[1].ev = f /\ ops[1].entry.pending = None
      /\ 1 \in 1..Len(ops) /\ \A n \in 1..Len(ops) : n = 1
  BY <1>2, <1>3, OpTypes DEF TInv, EnqueueOp
<1>5. Queue(t, ops) /\ got' = got /\ store' = store /\ comp' = comp /\ rp' = rp
  BY <1>3 DEF Publish
<1>6. ReplayFine(e)' /\ CompanionFine(e)'
  BY <1>1, <1>2, <1>5, ReplaysStay DEF CopiesFine, CompanionFine
<1>7. CASE e # f
  <2>1. live'[e] = live[e]
    BY <1>2, <1>7 DEF Publish, TInv, TypeOK
  <2> QED BY <1>1, <1>2, <1>4, <1>5, <1>6, <1>7, <2>1, PushAsks DEF Neutral
<1>8. CASE e = f
  <2>1. "put" \in EntryKinds /\ "set" \in EntryKinds /\ "done" \in EntryKinds
    BY DEF EntryKinds
  <2>2. PICK last \in Idx :
           /\ OpAt(t, last, e, "put")' /\ chain'[t][last] = ops[1]
           /\ \A u \in Tabs, i \in Idx, k \in EntryKinds : OpAt(u, i, e, k)' =>
                 \/ OpAt(u, i, e, k) /\ chain'[u][i] = chain[u][i]
                 \/ u = t /\ i = last /\ k = "put"
    BY <1>2, <1>4, <1>5, <1>8, <2>1, PushOwn
  <2>3. live[e].phase = "new" /\ live'[e].phase = "computing" /\ live'[e].tab = t
    BY <1>2, <1>8 DEF Publish, TInv, TypeOK
  <2>4. \A u \in Tabs, i \in Idx : ~FirstAt(u, i, e) /\ ~LaterAt(u, i, e)
    BY <1>2, <2>3 DEF InOrder, FirstIsFirst, LaterIsOwn
  <2>5. \A u \in Tabs, i \in Idx : ~LaterAt(u, i, e)'
    BY <2>1, <2>2, <2>4 DEF LaterAt, OwnSetAt
  <2>6. \A u \in Tabs, i \in Idx : FirstAt(u, i, e)' => u = t /\ i = last
    BY <2>1, <2>2, <2>4 DEF FirstAt
  <2>7. FirstIsFirst(e)' /\ LaterIsOwn(e)' /\ DoneIsLast(e)' /\ FanoutHasSet(e)'
    BY <2>3, <2>5, <2>6 DEF FirstIsFirst, LaterIsOwn, DoneIsLast, FanoutHasSet, LaterAt
  <2>8. ReadFine(e)' /\ DoneReadSet(e)'
    BY <1>1, <1>2, <1>4, <1>5, PushReads DEF CopiesFine, InOrder
  <2>9. ChainFine(e)'
    <3>1. \A n \in 1..Len(ops) : OpFine(e, ops[n])'
      BY <1>4 DEF OpFine, FineEntry
    <3> QED BY <1>1, <1>2, <1>4, <1>5, <3>1, PushChainFine DEF CopiesFine
  <2>10. StoreFine(e)'
    BY <1>1, <1>2, <1>5, StoreStays DEF CopiesFine
  <2> QED BY <1>6, <2>7, <2>8, <2>9, <2>10 DEF Asks, CopiesFine, InOrder
<1> QED BY <1>7, <1>8

LEMMA ComputeAsks ==
    ASSUME AInv, NEW f \in Events, NEW R \in RelaySets, ComputePublishRelays(f, R), NEW e \in Events, Open(e)'
    PROVE  Asks(e)'
<1>1. TInv /\ hist \in [Events -> History] /\ R \in SUBSET Urls /\ NormalizeAll(R) \in SUBSET Urls
  BY OutboxAssumption, OpTypes DEF AInv, TInv, TypeOK
<1>2. PICK t \in Tabs : t = live[f].tab
  BY <1>1 DEF ComputePublishRelays, TInv, Shape, LiveShape
<1>3. PICK ops : ops = RiderOps(f, R)
  OBVIOUS
<1>4. /\ ops \in Seq(Op) /\ 1 \in 1..Len(ops) /\ ops[1] = SetOp(f, R, None)
      /\ \A n \in 1..Len(ops) :
            n = 1 \/ \E c \in Riders(f) : ops[n] = EnqueueOp(c, NormalizeAll(R))
  BY <1>1, <1>3, ComputeOps
<1>5. Queue(t, ops) /\ got' = got /\ store' = store /\ rp' = rp
  BY <1>2, <1>3 DEF ComputePublishRelays, RiderOps
<1>6. /\ hist'[e] = IF e = f THEN [hist[e] EXCEPT !.target = NormalizeAll(R),
                                                  !.computed = @ \cup {NormalizeAll(R)}]
                     ELSE IF e \in Riders(f) THEN [hist[e] EXCEPT !.shared = TRUE,
                                                  !.computed = @ \cup {NormalizeAll(R)}]
                     ELSE hist[e]
      /\ hist[e] \in History /\ f \notin Riders(f)
  BY <1>1 DEF ComputePublishRelays, Riders
<1>7. /\ hist'[e].asked = hist[e].asked /\ hist'[e].durable = hist[e].durable
      /\ hist'[e].gaveUp = hist[e].gaveUp /\ hist'[e].faulty = hist[e].faulty
      /\ hist[e].computed \subseteq hist'[e].computed
      /\ e = f \/ e \in Riders(f) => NormalizeAll(R) \in hist'[e].computed
  BY <1>6 DEF History
<1>8. Grows(e)
  BY <1>7 DEF Grows
<1>9. Open(e) /\ CopiesFine(e) /\ InOrder(e)
  BY <1>8, WasOpen
<1>10. e = f \/ e \in Riders(f) => Covers(e, NormalizeAll(R))'
  <2>1. ASSUME NormalizeAll(R) \in hist'[e].computed PROVE Covers(e, NormalizeAll(R))'
    <3>1. NormalizeAll(NormalizeAll(R)) = NormalizeAll(R) /\ NormalizeAll(R) # None
      BY <1>1, OutboxAssumption DEF NormalizeAll
    <3> QED BY <2>1, <3>1 DEF Covers
  <2> QED BY <1>7, <2>1
<1>11. ReplayFine(e)'
  BY <1>5, <1>8, <1>9, ReplaysStay DEF CopiesFine
<1>12. CompanionFine(e)'
  <2>1. comp'[e] = IF e \in Riders(f) /\ R # {} THEN [tab |-> t, relays |-> R] ELSE comp[e]
    BY <1>2 DEF ComputePublishRelays
  <2> QED BY <1>7, <1>9, <2>1 DEF CopiesFine, CompanionFine
<1>13. /\ ops[1].kind = "set" /\ ops[1].ev = f /\ ops[1].relays = NormalizeAll(R) /\ ops[1].by = None
       /\ \A n \in 1..Len(ops) : n = 1 \/
             (ops[n].ev \in Riders(f) /\ ops[n].kind = "put" /\ ops[n].entry.pending = NormalizeAll(R))
  <2>1. ASSUME NEW n \in 1..Len(ops), n # 1
        PROVE  ops[n].ev \in Riders(f) /\ ops[n].kind = "put" /\ ops[n].entry.pending = NormalizeAll(R)
    <3>1. PICK c \in Riders(f) : ops[n] = EnqueueOp(c, NormalizeAll(R))
      BY <1>4, <2>1
    <3> QED BY <3>1 DEF EnqueueOp
  <2> QED BY <1>4, <2>1 DEF SetOp
<1>14. \A n \in 1..Len(ops) : ops[n].ev # e \/ OpFine(e, ops[n])'
  <2> SUFFICES ASSUME NEW n \in 1..Len(ops), ops[n].ev = e PROVE OpFine(e, ops[n])'
    OBVIOUS
  <2>1. Covers(e, NormalizeAll(R))'
    BY <1>10, <1>13
  <2> QED BY <1>13, <2>1 DEF OpFine, FineEntry
<1>15. CASE e # f
  <2>1. live'[e] = live[e]
    BY <1>1, <1>15 DEF ComputePublishRelays, TInv, TypeOK
  <2>2. \A n \in 1..Len(ops) : Neutral(e, ops[n])
    BY <1>1, <1>13, <1>15, OutboxAssumption DEF Neutral
  <2> QED BY <1>1, <1>4, <1>5, <1>7, <1>8, <1>9, <1>11, <1>12, <1>14, <2>1, <2>2, PushAsks
<1>16. CASE e = f
  <2>1. "put" \in EntryKinds /\ "set" \in EntryKinds /\ "done" \in EntryKinds
    BY DEF EntryKinds
  <2>2. \A n \in 1..Len(ops) : n = 1 \/ ops[n].ev # e
    BY <1>6, <1>13, <1>16
  <2>3. PICK last \in Idx :
           /\ OpAt(t, last, e, "set")' /\ chain'[t][last] = ops[1]
           /\ \A u \in Tabs, i \in Idx, k \in EntryKinds :
                 /\ OpAt(u, i, e, k) => (u = t => i < last)
                 /\ OpAt(u, i, e, k)' =>
                       \/ OpAt(u, i, e, k) /\ chain'[u][i] = chain[u][i]
                       \/ u = t /\ i = last /\ k = "set"
    BY <1>1, <1>4, <1>5, <1>13, <1>16, <2>1, <2>2, PushOwn
  <2>4. live[e].phase = "computing"
    BY <1>16 DEF ComputePublishRelays
  <2>5. live'[e].tab = t /\ live'[e].phase \in {"over", "fanout"}
    BY <1>1, <1>2, <1>16 DEF ComputePublishRelays, TInv, TypeOK, LiveRun
  <2>6. \A u \in Tabs, i \in Idx : ~LaterAt(u, i, e)
    BY <1>9, <2>4 DEF InOrder, LaterIsOwn
  <2>7. \A u \in Tabs, i \in Idx : LaterAt(u, i, e)' => u = t /\ i = last
    BY <2>1, <2>3, <2>6 DEF LaterAt, OwnSetAt
  <2>8. \A u \in Tabs, i \in Idx : FirstAt(u, i, e)' => FirstAt(u, i, e)
    BY <2>1, <2>3 DEF FirstAt
  <2>9. \A u \in Tabs, i \in Idx : ~OpAt(u, i, e, "done")'
    BY <2>1, <2>3, <2>6 DEF LaterAt
  <2>10. FirstIsFirst(e)'
    <3>1. \A i \in Idx : FirstAt(t, i, e) => i < last
      BY <2>1, <2>3 DEF FirstAt
    <3> QED BY <1>2, <1>9, <1>16, <2>5, <2>7, <2>8, <3>1 DEF InOrder, FirstIsFirst
  <2>11. LaterIsOwn(e)' /\ DoneIsLast(e)'
    BY <2>5, <2>7, <2>9 DEF LaterIsOwn, DoneIsLast
  <2>12. FanoutHasSet(e)'
    <3>1. OwnSetAt(t, last, e)'
      BY <1>13, <2>3 DEF OwnSetAt
    <3> QED BY <2>5, <3>1 DEF FanoutHasSet, OwnSetAt, OpAt
  <2>13. ReadFine(e)' /\ DoneReadSet(e)'
    BY <1>1, <1>4, <1>5, <1>8, <1>9, PushReads DEF CopiesFine, InOrder
  <2>14. ChainFine(e)'
    BY <1>1, <1>4, <1>5, <1>8, <1>9, <1>14, PushChainFine DEF CopiesFine
  <2>15. StoreFine(e)'
    BY <1>5, <1>7, <1>8, <1>9, StoreStays DEF CopiesFine
  <2> QED BY <1>11, <1>12, <2>10, <2>11, <2>12, <2>13, <2>14, <2>15 DEF Asks, CopiesFine, InOrder
<1> QED BY <1>15, <1>16

LEMMA AnswersAsks ==
    ASSUME AInv, NEW f \in Events, NEW r \in Urls, RelayAnswers(f, r), NEW e \in Events, Open(e)'
    PROVE  Asks(e)'
<1>1. TInv /\ hist \in [Events -> History]
  BY DEF AInv, TInv, TypeOK
<1>2. PICK t \in Tabs : t = live[f].tab
  BY <1>1 DEF RelayAnswers, TInv, Shape, LiveShape
<1>3. PICK ops : ops = <<DoneOp(f, r, None)>>
  OBVIOUS
<1>4. /\ ops \in Seq(Op) /\ ops[1].kind = "done" /\ ops[1].ev = f /\ ops[1].relay = Norm[r]
      /\ \A n \in 1..Len(ops) : n = 1
  BY <1>1, <1>3, OpTypes DEF TInv, DoneOp
<1>5. Queue(t, ops) /\ got' = got /\ store' = store /\ rp' = rp /\ comp' = comp
  BY <1>2, <1>3 DEF RelayAnswers
<1>6. /\ hist'[e].durable = hist[e].durable /\ hist'[e].computed = hist[e].computed
      /\ hist'[e].gaveUp = hist[e].gaveUp /\ hist'[e].faulty = hist[e].faulty
      /\ hist[e].asked \subseteq hist'[e].asked
      /\ e = f => Norm[r] \in hist'[e].asked
  <2>1. hist' = [hist EXCEPT ![f] = [hist[f] EXCEPT !.asked = @ \cup {Norm[r]}, !.answered = @ \cup {Norm[r]}]]
    BY <1>1 DEF RelayAnswers, History
  <2> QED BY <1>1, <2>1 DEF History
<1>7. Grows(e)
  BY <1>6 DEF Grows
<1>8. Open(e) /\ CopiesFine(e) /\ InOrder(e)
  BY <1>7, WasOpen
<1>9. /\ live'[e].tab = live[e].tab
      /\ live'[e].phase = live[e].phase \/ (live[e].phase = "fanout" /\ live'[e].phase = "over")
  BY <1>1 DEF RelayAnswers, Settle, TInv, TypeOK, LiveRun
<1>10. \A n \in 1..Len(ops) : Neutral(e, ops[n]) \/ FanoutDone(e, t, ops[n])
  BY <1>2, <1>4 DEF RelayAnswers, Neutral, FanoutDone
<1>11. \A n \in 1..Len(ops) : ops[n].ev # e \/ OpFine(e, ops[n])'
  BY <1>4, <1>6, OutboxAssumption DEF OpFine
<1>12. ReplayFine(e)' /\ CompanionFine(e)'
  BY <1>5, <1>6, <1>7, <1>8, ReplaysStay DEF CopiesFine, CompanionFine
<1> QED BY <1>1, <1>4, <1>5, <1>6, <1>7, <1>8, <1>9, <1>10, <1>11, <1>12, PushAsks

LEMMA UnreachableAsks ==
    ASSUME AInv, NEW f \in Events, NEW r \in Urls, RelayUnreachable(f, r), NEW e \in Events, Open(e)'
    PROVE  Asks(e)'
<1>1. TInv /\ hist \in [Events -> History]
  BY DEF AInv, TInv, TypeOK
<1>2. /\ hist'[e].durable = hist[e].durable /\ hist'[e].computed = hist[e].computed
      /\ hist'[e].gaveUp = hist[e].gaveUp /\ hist'[e].faulty = hist[e].faulty
      /\ hist[e].asked \subseteq hist'[e].asked
  <2>1. hist' = [hist EXCEPT ![f] = [hist[f] EXCEPT !.asked = @ \cup {Norm[r]}]]
    BY <1>1 DEF RelayUnreachable, History
  <2> QED BY <1>1, <2>1 DEF History
<1>3. Grows(e)
  BY <1>2 DEF Grows
<1>4. Open(e) /\ CopiesFine(e) /\ InOrder(e)
  BY <1>3, WasOpen
<1>5. /\ live'[e].tab = live[e].tab
      /\ live'[e].phase = live[e].phase \/ (live[e].phase = "fanout" /\ live'[e].phase = "over")
  BY <1>1 DEF RelayUnreachable, Settle, TInv, TypeOK, LiveRun
<1>6. ReplayFine(e)' /\ CompanionFine(e)'
  BY <1>2, <1>3, <1>4, ReplaysStay DEF RelayUnreachable, CopiesFine, CompanionFine
<1> QED BY <1>1, <1>2, <1>3, <1>4, <1>5, <1>6, StayAsks DEF RelayUnreachable

\* A companion run serves its event: all its relays have been asked.
LEMMA CompanionAsks ==
    ASSUME AInv, NEW c \in Events, NEW ok \in SUBSET comp[c].relays, NEW refused \in SUBSET comp[c].relays,
           CompanionResults(c, ok, refused), NEW e \in Events, Open(e)'
    PROVE  Asks(e)'
<1>1. TInv /\ hist \in [Events -> History] /\ comp[c].relays \in SUBSET Urls /\ comp[c].tab # None
  BY DEF AInv, TInv, TypeOK, CompanionResults
<1>2. PICK t \in Tabs : t = comp[c].tab
  BY <1>1 DEF TInv, TypeOK
<1>3. PICK ops : ops = AcceptedOps(c, ok)
  OBVIOUS
<1>4. ops \in Seq(Op) /\ \A n \in 1..Len(ops) : ops[n].ev = c
  <2>1. ops \in Seq(Op) /\ \A n \in 1..Len(ops) : \E r \in ok : ops[n] = DoneOp(c, r, None)
    BY <1>1, <1>3, CompanionOps
  <2>2. ASSUME NEW n \in 1..Len(ops) PROVE ops[n].ev = c
    <3>1. PICK r \in ok : ops[n] = DoneOp(c, r, None)
      BY <2>1
    <3> QED BY <3>1 DEF DoneOp
  <2> QED BY <2>1, <2>2
<1>5. Queue(t, ops) /\ got' = got /\ store' = store /\ live' = live /\ rp' = rp
  BY <1>2, <1>3 DEF CompanionResults, AcceptedOps
<1>6. /\ hist'[e].durable = hist[e].durable /\ hist'[e].computed = hist[e].computed
      /\ hist'[e].gaveUp = hist[e].gaveUp /\ hist'[e].faulty = hist[e].faulty
      /\ hist[e].asked \subseteq hist'[e].asked
      /\ e = c => NormalizeAll(comp[c].relays) \subseteq hist'[e].asked
  <2>1. hist' = [hist EXCEPT ![c] = [hist[c] EXCEPT !.asked = @ \cup NormalizeAll(comp[c].relays),
                                                   !.answered = @ \cup NormalizeAll(ok \cup refused)]]
    BY <1>1 DEF CompanionResults, History
  <2> QED BY <1>1, <2>1 DEF History
<1>7. Grows(e)
  BY <1>6 DEF Grows
<1>8. Open(e) /\ CopiesFine(e) /\ InOrder(e)
  BY <1>7, WasOpen
<1>9. e # c
  BY <1>1, <1>6, <1>8 DEF Open, Served, CopiesFine, CompanionFine
<1>10. comp'[e] = comp[e]
  BY <1>1, <1>9 DEF CompanionResults, TInv, TypeOK
<1>11. ReplayFine(e)' /\ CompanionFine(e)'
  BY <1>5, <1>6, <1>7, <1>8, <1>10, ReplaysStay DEF CopiesFine, CompanionFine
<1> QED BY <1>1, <1>4, <1>5, <1>6, <1>7, <1>8, <1>9, <1>11, PushAsks DEF Neutral

----------------------------------------------------------------------------
(* A tab is closed; the steps of a replay. *)

LEMMA CrashAsks ==
    ASSUME AInv, NEW t \in Tabs, Crash(t), NEW e \in Events, Open(e)'
    PROVE  Asks(e)'
<1>1. hist' = hist /\ store' = store /\ Grows(e)
  BY DEF Crash, Grows
<1>2. TInv /\ Open(e) /\ CopiesFine(e) /\ InOrder(e)
  BY <1>1, WasOpen
<1>3. /\ chain' = [chain EXCEPT ![t] = <<>>] /\ got' = [got EXCEPT ![t] = None]
      /\ live'[e] = IF live[e].tab = t THEN [phase |-> "over", tab |-> None, waiting |-> {}] ELSE live[e]
      /\ comp'[e] = IF comp[e].tab = t THEN NoCompanionRun ELSE comp[e]
      /\ \A q \in Replays : rp'[q] = rp[q] \/ rp'[q] = IdleReplay
  BY DEF Crash
<1>4. \A u \in Tabs : /\ u = t => chain'[u] = <<>> /\ got'[u] = None
                      /\ u # t => chain'[u] = chain[u] /\ got'[u] = got[u]
  BY <1>2, <1>3 DEF TInv, TypeOK
<1>5. \A u \in Tabs, i \in Idx, k \in EntryKinds :
         /\ OpAt(u, i, e, k)' <=> u # t /\ OpAt(u, i, e, k)
         /\ u # t => chain'[u] = chain[u]
  BY <1>4 DEF OpAt
<1>6. "put" \in EntryKinds /\ "set" \in EntryKinds /\ "done" \in EntryKinds
  BY DEF EntryKinds
<1>7. \A u \in Tabs, i \in Idx :
         /\ FirstAt(u, i, e)' <=> u # t /\ FirstAt(u, i, e)
         /\ OwnSetAt(u, i, e)' <=> u # t /\ OwnSetAt(u, i, e)
         /\ LaterAt(u, i, e)' <=> u # t /\ LaterAt(u, i, e)
         /\ OpAt(u, i, e, "done")' <=> u # t /\ OpAt(u, i, e, "done")
  BY <1>5, <1>6 DEF FirstAt, OwnSetAt, LaterAt
<1>8. Settled(e) => Settled(e)'
  BY <1>1, <1>7 DEF Settled, Known
<1>9. FirstIsFirst(e)' /\ LaterIsOwn(e)'
  BY <1>2, <1>3, <1>7 DEF InOrder, FirstIsFirst, LaterIsOwn
<1>10. DoneIsLast(e)'
  <2> SUFFICES ASSUME NEW u \in Tabs, NEW j \in Idx, OpAt(u, j, e, "done")', ~Settled(e)'
               PROVE  \E i \in Idx : i < j /\ OwnSetAt(u, i, e)'
    BY DEF DoneIsLast
  <2>1. u # t /\ OpAt(u, j, e, "done") /\ ~Settled(e)
    BY <1>7, <1>8
  <2>2. PICK i \in Idx : i < j /\ OwnSetAt(u, i, e)
    BY <1>2, <2>1 DEF InOrder, DoneIsLast
  <2> QED BY <1>7, <2>1, <2>2
<1>11. FanoutHasSet(e)'
  <2> SUFFICES ASSUME live'[e].phase = "fanout", ~Settled(e)'
               PROVE  \E i \in Idx : OwnSetAt(live[e].tab, i, e)'
    BY DEF FanoutHasSet
  <2>1. live[e].tab # t /\ live'[e] = live[e] /\ live[e].phase = "fanout" /\ live[e].tab \in Tabs
    BY <1>2, <1>3 DEF TInv, Shape, LiveShape
  <2>2. PICK i \in Idx : OwnSetAt(live[e].tab, i, e)
    BY <1>2, <1>8, <2>1 DEF InOrder, FanoutHasSet
  <2>3. PICK u \in Tabs : u = live[e].tab
    BY <2>1
  <2>4. OwnSetAt(u, i, e)'
    BY <1>7, <2>1, <2>2, <2>3
  <2> QED BY <2>1, <2>3, <2>4 DEF OwnSetAt, OpAt
<1>12. DoneReadSet(e)' /\ ReadFine(e)'
  BY <1>1, <1>2, <1>4, GrowsFine DEF InOrder, DoneReadSet, CopiesFine, ReadFine
<1>13. ChainFine(e)'
  <2> SUFFICES ASSUME NEW u \in Tabs, NEW i \in Idx, NEW k \in EntryKinds, OpAt(u, i, e, k)'
               PROVE  OpFine(e, chain[u][i])'
    BY DEF ChainFine
  <2>1. chain'[u] = chain[u] /\ OpFine(e, chain[u][i])
    BY <1>2, <1>5 DEF CopiesFine, ChainFine
  <2> QED BY <1>1, <2>1, GrowsFine
<1>14. StoreFine(e)'
  BY <1>1, <1>2, StoreStays DEF CopiesFine
<1>15. CompanionFine(e)'
  BY <1>1, <1>2, <1>3 DEF CopiesFine, CompanionFine, NoCompanionRun
<1>16. ReplayFine(e)'
  <2> SUFFICES ASSUME NEW q \in Replays
               PROVE  /\ FineEntry(e, rp[q].todo[e])'
                      /\ rp'[q].ev = e =>
                            /\ rp'[q].pc \in {"setting", "counting", "putting", "publish"} =>
                                  Covers(e, rp[q].relays)'
                            /\ rp'[q].pc \notin {"mark", "marking"}
    BY DEF ReplayFine
  <2>1. CASE rp'[q] = IdleReplay
    BY <2>1 DEF IdleReplay, FineEntry
  <2>2. CASE rp'[q] = rp[q]
    BY <1>1, <1>2, <2>2, GrowsFine DEF CopiesFine, ReplayFine
  <2> QED BY <1>3, <2>1, <2>2
<1> QED BY <1>9, <1>10, <1>11, <1>12, <1>13, <1>14, <1>15, <1>16 DEF Asks, CopiesFine, InOrder

LEMMA ReplayAsks ==
    ASSUME AInv, NEW p \in Replays, StartReplay(p) \/ ReplayStep(p), NEW e \in Events, Open(e)'
    PROVE  Asks(e)'
<1>0. PICK run : run = rp[p]
  OBVIOUS
<1>1. /\ TInv /\ hist \in [Events -> History] /\ run \in ReplayRun /\ TabOf(p) \in Tabs /\ p # None
  BY <1>0, OutboxAssumption DEF AInv, TInv, TypeOK, Replays, TabOf
<1>2. ASSUME Grows(e), NEW new, rp' = [rp EXCEPT ![p] = new], FineEntry(e, new.todo[e])',
             new.ev = e => new.pc \notin {"mark", "marking"},
             new.ev = e /\ new.pc \in {"setting", "counting", "putting", "publish"} => Covers(e, new.relays)'
      PROVE  ReplayFine(e)'
  <2>1. ReplayFine(e)
    BY <1>2, WasOpen DEF CopiesFine
  <2> SUFFICES ASSUME NEW q \in Replays
               PROVE  /\ FineEntry(e, rp[q].todo[e])'
                      /\ rp'[q].ev = e =>
                            /\ rp'[q].pc \in {"setting", "counting", "putting", "publish"} =>
                                  Covers(e, rp[q].relays)'
                            /\ rp'[q].pc \notin {"mark", "marking"}
    BY DEF ReplayFine
  <2>2. rp'[q] = IF q = p THEN new ELSE rp[q]
    BY <1>1, <1>2 DEF TInv, TypeOK
  <2>3. CASE q = p
    BY <1>2, <2>2, <2>3
  <2>4. CASE q # p
    BY <1>2, <2>1, <2>2, <2>4, GrowsFine DEF ReplayFine
  <2> QED BY <2>3, <2>4
<1>3. ASSUME Grows(e), hist'[e].durable = hist[e].durable, UNCHANGED <<store, got, live, comp>>, ReplayFine(e)',
             NEW op \in Op, Queue(TabOf(p), <<op>>),
             op.kind = "list" \/ op.ev # e \/ (Neutral(e, op) /\ OpFine(e, op)')
      PROVE  Asks(e)'
  <2>1. PICK ops : ops = <<op>>
    OBVIOUS
  <2>2. ops \in Seq(Op) /\ \A n \in 1..Len(ops) : ops[n] = op
    BY <1>3, <2>1
  <2>3. Open(e) /\ CopiesFine(e) /\ InOrder(e)
    BY <1>3, WasOpen
  <2>4. CompanionFine(e)'
    BY <1>3, <2>3 DEF CopiesFine, CompanionFine, Grows
  <2>5. Neutral(e, op)
    BY <1>3 DEF Neutral
  <2>6. \A n \in 1..Len(ops) : Neutral(e, ops[n])
    BY <2>2, <2>5
  <2>7. \A n \in 1..Len(ops) : ops[n].kind = "list" \/ ops[n].ev # e \/ OpFine(e, ops[n])'
    BY <1>3, <2>2
  <2> QED BY <1>1, <1>3, <2>1, <2>2, <2>3, <2>4, <2>6, <2>7, PushAsks
<1>4. ASSUME Grows(e), hist'[e].durable = hist[e].durable, UNCHANGED <<store, chain, got, live, comp>>,
             ReplayFine(e)'
      PROVE  Asks(e)'
  <2>1. Open(e) /\ CopiesFine(e) /\ InOrder(e)
    BY <1>4, WasOpen
  <2>2. CompanionFine(e)'
    BY <1>4, <2>1 DEF CopiesFine, CompanionFine, Grows
  <2> QED BY <1>1, <1>4, <2>1, <2>2, StayAsks
<1>5. ASSUME Grows(e)
      PROVE  /\ FineEntry(e, run.todo[e]) /\ FineEntry(e, run.todo[e])'
             /\ run.ev = e /\ run.pc \in {"setting", "counting", "putting", "publish"} =>
                   Covers(e, run.relays) /\ Covers(e, run.relays)'
             /\ run.ev = e => run.pc \notin {"mark", "marking"}
  <2>1. ReplayFine(e)
    BY <1>5, WasOpen DEF CopiesFine
  <2>2. FineEntry(e, run.todo[e]) /\ (run.ev = e => run.pc \notin {"mark", "marking"})
    BY <1>0, <2>1 DEF ReplayFine
  <2>3. run.ev = e /\ run.pc \in {"setting", "counting", "putting", "publish"} => Covers(e, run.relays)
    BY <1>0, <2>1 DEF ReplayFine
  <2> QED BY <1>5, <2>2, <2>3, GrowsFine
<1>6. CASE StartReplay(p)
  <2>1. PICK op : op = [kind |-> "list", by |-> p]
    OBVIOUS
  <2>2. op \in Op /\ op.kind = "list" /\ Queue(TabOf(p), <<op>>)
    BY <1>6, <2>1 DEF Op, StartReplay
  <2>3. PICK new : new = [run EXCEPT !.pc = "listing", !.now = now]
    OBVIOUS
  <2>4. new.ev = run.ev /\ new.todo = run.todo /\ new.pc = "listing"
    BY <1>1, <2>3 DEF ReplayRun
  <2>5. rp' = [rp EXCEPT ![p] = new] /\ UNCHANGED <<store, got, live, comp, hist>> /\ Grows(e)
    BY <1>0, <1>1, <1>6, <2>3 DEF StartReplay, TInv, TypeOK, ReplayRun, Grows
  <2>6. ReplayFine(e)'
    BY <1>2, <1>5, <2>4, <2>5
  <2> QED BY <1>3, <2>2, <2>5, <2>6
<1>7. ASSUME NEW f \in Events, ReplayGivesUp(p, f) PROVE Asks(e)'
  <2>1. PICK op : op = [kind |-> "remove", ev |-> f, by |-> p]
    OBVIOUS
  <2>2. op \in Op /\ op.ev = f /\ Queue(TabOf(p), <<op>>)
    BY <1>7, <2>1 DEF Op, ReplayGivesUp, Drop
  <2>3. hist' = [hist EXCEPT ![f] = [hist[f] EXCEPT !.gaveUp = TRUE]]
    BY <1>1, <1>7 DEF ReplayGivesUp, History
  <2>4. e # f
    BY <1>1, <2>3 DEF Open, History
  <2>5. hist'[e] = hist[e] /\ Grows(e)
    BY <1>1, <2>3, <2>4 DEF Grows
  <2>6. PICK new : new = [run EXCEPT !.pc = "dropping", !.todo = [run.todo EXCEPT ![f] = None]]
    OBVIOUS
  <2>7. new.ev = run.ev /\ new.todo[e] = run.todo[e] /\ new.pc = "dropping"
    BY <1>1, <2>4, <2>6 DEF ReplayRun
  <2>8. rp' = [rp EXCEPT ![p] = new] /\ UNCHANGED <<store, got, live, comp>>
    BY <1>0, <1>1, <1>7, <2>6 DEF ReplayGivesUp, TInv, TypeOK, ReplayRun
  <2>9. ReplayFine(e)'
    BY <1>2, <1>5, <2>5, <2>7, <2>8
  <2> QED BY <1>3, <2>2, <2>4, <2>5, <2>8, <2>9
<1>8. ASSUME NEW f \in Events, NEW entry \in Entry, NEW R \in SUBSET Urls, entry.attempts < MaxAttempts,
             Count(p, f, entry, R), UNCHANGED <<store, got, live, comp, hist>>,
             f = e => Covers(e, R)', ReplayFine(e)'
      PROVE  Asks(e)'
  <2>1. PICK op : op = [kind |-> "put", ev |-> f, by |-> p,
                        entry |-> [entry EXCEPT !.attempts = @ + 1, !.pending = R]]
    OBVIOUS
  <2>2. op \in Op /\ op.ev = f /\ op.kind = "put" /\ op.entry.pending = R
    <3>1. entry.attempts + 1 \in 0..MaxAttempts
      BY <1>8, OutboxAssumption DEF Entry
    <3>2. [entry EXCEPT !.attempts = @ + 1, !.pending = R] \in Entry
          /\ [entry EXCEPT !.attempts = @ + 1, !.pending = R].pending = R
      BY <3>1 DEF Entry
    <3> QED BY <2>1, <3>2 DEF Op
  <2>3. Queue(TabOf(p), <<op>>)
    BY <1>8, <2>1 DEF Count
  <2>4. Grows(e) /\ hist'[e].durable = hist[e].durable
    BY <1>8 DEF Grows
  <2>5. op.ev = e => Neutral(e, op) /\ OpFine(e, op)'
    BY <1>8, <2>2, OutboxAssumption DEF Neutral, OpFine, FineEntry
  <2> QED BY <1>3, <1>8, <2>2, <2>3, <2>4, <2>5
<1>9. ASSUME NEW f \in Events, ReplayResumes(p, f) PROVE Asks(e)'
  <2>1. PICK entry : entry = run.todo[f]
    OBVIOUS
  <2>2. /\ entry \in Entry /\ entry.pending \in SUBSET Urls /\ entry.attempts < MaxAttempts
        /\ entry # None /\ entry.pending # None
    BY <1>0, <1>1, <1>9, <2>1, OutboxAssumption DEF ReplayResumes, ReplayRun, Entry, Expired
  <2>3. Count(p, f, entry, entry.pending) /\ UNCHANGED <<store, got, live, comp, hist>> /\ Grows(e)
    BY <1>0, <1>9, <2>1 DEF ReplayResumes, Grows
  <2>4. f = e => Covers(e, entry.pending)'
    BY <1>5, <2>1, <2>2, <2>3 DEF FineEntry
  <2>5. PICK new : new = [run EXCEPT !.pc = "putting", !.ev = f, !.relays = entry.pending]
    OBVIOUS
  <2>6. new.ev = f /\ new.todo = run.todo /\ new.relays = entry.pending /\ new.pc = "putting"
    BY <1>1, <2>5 DEF ReplayRun
  <2>7. rp' = [rp EXCEPT ![p] = new]
    BY <1>0, <1>1, <1>9, <2>1, <2>5 DEF ReplayResumes, TInv, TypeOK, ReplayRun
  <2>8. ReplayFine(e)'
    BY <1>2, <1>5, <2>3, <2>4, <2>6, <2>7
  <2> QED BY <1>8, <2>2, <2>3, <2>4, <2>8
<1>10. ASSUME NEW f \in Events, ReplayRecomputes(p, f) PROVE Asks(e)'
  <2>1. PICK new : new = [run EXCEPT !.pc = "computing", !.ev = f]
    OBVIOUS
  <2>2. new.ev = f /\ new.todo = run.todo /\ new.pc = "computing"
    BY <1>1, <2>1 DEF ReplayRun
  <2>3. rp' = [rp EXCEPT ![p] = new] /\ UNCHANGED <<store, chain, got, live, comp, hist>> /\ Grows(e)
    BY <1>0, <1>1, <1>10, <2>1 DEF ReplayRecomputes, TInv, TypeOK, ReplayRun, Grows
  <2>4. ReplayFine(e)'
    BY <1>2, <1>5, <2>2, <2>3
  <2> QED BY <1>4, <2>3, <2>4
<1>11. ASSUME NEW R \in RelaySets, ReplayHasRelays(p, R) PROVE Asks(e)'
  <2>1. PICK f \in Events : f = run.ev
    BY <1>0, <1>1, <1>11 DEF ReplayHasRelays, TInv, Shape, ReplayShape
  <2>2. R \in SUBSET Urls /\ NormalizeAll(R) \in SUBSET Urls
    BY <1>1, OutboxAssumption, OpTypes DEF TInv
  <2>3. hist' = [hist EXCEPT ![f] = [hist[f] EXCEPT !.computed = @ \cup {NormalizeAll(R)}]]
    BY <1>0, <1>1, <1>11, <2>1 DEF ReplayHasRelays, History
  <2>4. /\ hist'[e].asked = hist[e].asked /\ hist'[e].durable = hist[e].durable
        /\ hist'[e].gaveUp = hist[e].gaveUp /\ hist'[e].faulty = hist[e].faulty
        /\ hist[e].computed \subseteq hist'[e].computed
        /\ e = f => NormalizeAll(R) \in hist'[e].computed
    BY <1>1, <2>3 DEF History
  <2>5. Grows(e)
    BY <2>4 DEF Grows
  <2>6. UNCHANGED <<store, got, live, comp>>
    BY <1>11 DEF ReplayHasRelays
  <2>7. CASE R = {}
    <3>1. e # f
      BY <2>4, <2>7 DEF Open, Served, NormalizeAll
    <3>2. PICK op : op = [kind |-> "remove", ev |-> f, by |-> p]
      OBVIOUS
    <3>3. op \in Op /\ op.ev = f /\ Queue(TabOf(p), <<op>>)
      BY <1>0, <1>11, <2>1, <2>7, <3>2 DEF Op, ReplayHasRelays, Drop
    <3>4. PICK new : new = [run EXCEPT !.pc = "dropping", !.todo = [run.todo EXCEPT ![f] = None]]
      OBVIOUS
    <3>5. new.ev = run.ev /\ new.todo[e] = run.todo[e] /\ new.pc = "dropping"
      BY <1>1, <3>1, <3>4 DEF ReplayRun
    <3>6. rp' = [rp EXCEPT ![p] = new]
      BY <1>0, <1>1, <1>11, <2>1, <2>7, <3>4 DEF ReplayHasRelays, TInv, TypeOK, ReplayRun
    <3>7. ReplayFine(e)'
      BY <1>2, <1>5, <2>5, <3>5, <3>6
    <3> QED BY <1>3, <2>4, <2>5, <2>6, <3>1, <3>3, <3>7
  <2>8. CASE R # {}
    <3>1. PICK op : op = SetOp(f, R, p)
      OBVIOUS
    <3>2. /\ op \in Op /\ op.ev = f /\ op.kind = "set" /\ op.by = p /\ op.relays = NormalizeAll(R)
          /\ Queue(TabOf(p), <<op>>)
      BY <1>0, <1>1, <1>11, <2>1, <2>2, <2>8, <3>1, OpTypes DEF SetOp, TInv, ReplayHasRelays
    <3>3. f = e => Covers(e, R)' /\ Covers(e, NormalizeAll(R))'
      <4>1. NormalizeAll(NormalizeAll(R)) = NormalizeAll(R)
        BY <2>2, OutboxAssumption DEF NormalizeAll
      <4>2. R # None /\ NormalizeAll(R) # None
        BY <2>2, OutboxAssumption
      <4> QED BY <2>4, <4>1, <4>2 DEF Covers
    <3>4. op.ev = e => Neutral(e, op) /\ OpFine(e, op)'
      BY <1>1, <3>2, <3>3 DEF Neutral, OpFine
    <3>5. PICK new : new = [run EXCEPT !.pc = "setting", !.relays = R]
      OBVIOUS
    <3>6. new.ev = f /\ new.todo = run.todo /\ new.pc = "setting" /\ new.relays = R
      BY <1>1, <2>1, <3>5 DEF ReplayRun
    <3>7. rp' = [rp EXCEPT ![p] = new]
      BY <1>0, <1>1, <1>11, <2>8, <3>5 DEF ReplayHasRelays, TInv, TypeOK, ReplayRun
    <3>8. ReplayFine(e)'
      BY <1>2, <1>5, <2>5, <3>3, <3>6, <3>7
    <3> QED BY <1>3, <2>4, <2>5, <2>6, <3>2, <3>4, <3>8
  <2> QED BY <2>7, <2>8
<1>12. CASE ReplayCounts(p)
  <2>1. PICK f \in Events : f = run.ev
    BY <1>0, <1>1, <1>12 DEF ReplayCounts, TInv, Shape, ReplayShape
  <2>2. PICK entry : entry = run.todo[f]
    OBVIOUS
  <2>3. entry \in Entry /\ entry.attempts < MaxAttempts /\ run.relays \in SUBSET Urls /\ run.pc = "counting"
    BY <1>0, <1>1, <1>12, <2>1, <2>2 DEF ReplayCounts, TInv, Shape, ReplayShape, ReplayRun
  <2>4. Count(p, f, entry, run.relays) /\ UNCHANGED <<store, got, live, comp, hist>> /\ Grows(e)
    BY <1>0, <1>12, <2>1, <2>2 DEF ReplayCounts, Grows
  <2>5. f = e => Covers(e, run.relays)'
    BY <1>5, <2>1, <2>3, <2>4
  <2>6. PICK new : new = [run EXCEPT !.pc = "putting"]
    OBVIOUS
  <2>7. new.ev = f /\ new.todo = run.todo /\ new.relays = run.relays /\ new.pc = "putting"
    BY <1>1, <2>1, <2>6 DEF ReplayRun
  <2>8. rp' = [rp EXCEPT ![p] = new]
    BY <1>0, <1>12, <2>6 DEF ReplayCounts
  <2>9. ReplayFine(e)'
    BY <1>2, <1>5, <2>4, <2>5, <2>7, <2>8
  <2> QED BY <1>8, <2>3, <2>4, <2>5, <2>9
<1>13. ASSUME NEW A \in SUBSET run.relays, ReplayPublishes(p, A) PROVE Asks(e)'
  <2>1. PICK f \in Events : f = run.ev
    BY <1>0, <1>1, <1>13 DEF ReplayPublishes, TInv, Shape, ReplayShape
  <2>2. hist' = [hist EXCEPT ![f] = [hist[f] EXCEPT !.asked = @ \cup NormalizeAll(run.relays),
                                                    !.answered = @ \cup NormalizeAll(A)]]
    BY <1>0, <1>1, <1>13, <2>1 DEF ReplayPublishes, History
  <2>3. /\ hist'[e].computed = hist[e].computed /\ hist'[e].durable = hist[e].durable
        /\ hist'[e].gaveUp = hist[e].gaveUp /\ hist'[e].faulty = hist[e].faulty
        /\ hist'[e].asked = IF e = f THEN hist[e].asked \cup NormalizeAll(run.relays) ELSE hist[e].asked
    BY <1>1, <2>2 DEF History
  <2>4. Grows(e)
    BY <2>3 DEF Grows
  <2>5. e # f
    <3>1. run.pc = "publish"
      BY <1>0, <1>13 DEF ReplayPublishes
    <3>2. ASSUME e = f PROVE FALSE
      <4>1. Covers(e, run.relays)
        BY <1>5, <2>1, <2>4, <3>1, <3>2
      <4>2. PICK R \in hist[e].computed : R \ hist[e].asked \subseteq NormalizeAll(run.relays)
        BY <4>1 DEF Covers
      <4>3. R \in hist'[e].computed /\ R \subseteq hist'[e].asked
        BY <2>3, <3>2, <4>2
      <4> QED BY <4>3 DEF Open, Served
    <3> QED BY <3>2
  <2>6. PICK new : new = [run EXCEPT !.pc = IF run.relays = {} THEN "next" ELSE "mark",
                                     !.results = run.relays, !.todo = [run.todo EXCEPT ![f] = None]]
    OBVIOUS
  <2>7. new.ev = f /\ new.todo[e] = run.todo[e]
    BY <1>1, <2>1, <2>5, <2>6 DEF ReplayRun
  <2>8. rp' = [rp EXCEPT ![p] = new] /\ UNCHANGED <<store, chain, got, live, comp>>
    BY <1>0, <1>1, <1>13, <2>1, <2>6 DEF ReplayPublishes, TInv, TypeOK, ReplayRun
  <2>9. ReplayFine(e)'
    BY <1>2, <1>5, <2>4, <2>5, <2>7, <2>8
  <2> QED BY <1>4, <2>3, <2>4, <2>8, <2>9
<1>14. CASE ReplayPublishThrows(p)
  <2>1. PICK new : new = [run EXCEPT !.pc = "next", !.todo = [run.todo EXCEPT ![run.ev] = None]]
    OBVIOUS
  <2>2. new.ev = run.ev /\ new.pc = "next" /\ (new.todo[e] = run.todo[e] \/ new.todo[e] = None)
    BY <1>1, <2>1 DEF ReplayRun
  <2>3. rp' = [rp EXCEPT ![p] = new] /\ UNCHANGED <<store, chain, got, live, comp, hist>> /\ Grows(e)
    BY <1>0, <1>1, <1>14, <2>1 DEF ReplayPublishThrows, TInv, TypeOK, ReplayRun, Grows
  <2>4. FineEntry(e, new.todo[e])'
    BY <1>5, <2>2, <2>3 DEF FineEntry
  <2>5. ReplayFine(e)'
    BY <1>2, <2>2, <2>3, <2>4
  <2> QED BY <1>4, <2>3, <2>5
<1>15. ASSUME NEW r \in Urls, ReplayMarks(p, r) PROVE Asks(e)'
  <2>1. PICK f \in Events : f = run.ev
    BY <1>0, <1>1, <1>15 DEF ReplayMarks, TInv, Shape, ReplayShape
  <2>2. PICK op : op = DoneOp(f, r, p)
    OBVIOUS
  <2>3. op \in Op /\ op.ev = f /\ Queue(TabOf(p), <<op>>)
    BY <1>0, <1>1, <1>15, <2>1, <2>2, OpTypes DEF DoneOp, TInv, ReplayMarks
  <2>4. UNCHANGED <<store, got, live, comp, hist>> /\ Grows(e) /\ run.pc = "mark"
    BY <1>0, <1>15 DEF ReplayMarks, Grows
  <2>5. e # f
    BY <1>5, <2>1, <2>4
  <2>6. PICK new : new = [run EXCEPT !.pc = "marking", !.results = @ \ {r}]
    OBVIOUS
  <2>7. new.ev = f /\ new.todo = run.todo
    BY <1>1, <2>1, <2>6 DEF ReplayRun
  <2>8. rp' = [rp EXCEPT ![p] = new]
    BY <1>0, <1>1, <1>15, <2>6 DEF ReplayMarks, TInv, TypeOK, ReplayRun
  <2>9. ReplayFine(e)'
    BY <1>2, <1>5, <2>4, <2>5, <2>7, <2>8
  <2> QED BY <1>3, <2>3, <2>4, <2>5, <2>9
<1>16. CASE ReplayEnds(p)
  <2>1. PICK new : new = IdleReplay
    OBVIOUS
  <2>2. new.ev = None /\ new.todo[e] = None
    BY <2>1 DEF IdleReplay
  <2>3. rp' = [rp EXCEPT ![p] = new] /\ UNCHANGED <<store, chain, got, live, comp, hist>> /\ Grows(e)
    BY <1>16, <2>1 DEF ReplayEnds, Grows
  <2>4. FineEntry(e, new.todo[e])' /\ new.ev # e
    BY <2>2, OutboxAssumption DEF FineEntry
  <2>5. ReplayFine(e)'
    BY <1>2, <2>3, <2>4
  <2> QED BY <1>4, <2>3, <2>5
<1> QED BY <1>0, <1>6, <1>7, <1>9, <1>10, <1>11, <1>12, <1>13, <1>14, <1>15, <1>16 DEF ReplayStep

----------------------------------------------------------------------------
(* The invariant, and the theorem. *)

LEMMA InitAInv == Init => AInv
<1> SUFFICES ASSUME Init, NEW e \in Events PROVE CopiesFine(e) /\ InOrder(e)
  BY InitTInv DEF AInv
<1>1. \A u \in Tabs, i \in Idx : \A k : ~OpAt(u, i, e, k)
  BY DEF Init, OpAt
<1>2. CopiesFine(e)
  BY <1>1 DEF Init, CopiesFine, StoreFine, ChainFine, ReadFine, ReplayFine, CompanionFine, FineEntry,
     IdleReplay, NoCompanionRun
<1>3. InOrder(e)
  BY <1>1 DEF Init, InOrder, FirstIsFirst, LaterIsOwn, DoneIsLast, FanoutHasSet, DoneReadSet, LaterAt,
     FirstAt, OwnSetAt
<1> QED BY <1>2, <1>3

LEMMA NextAInv == AInv /\ [Next]_vars => AInv'
<1> SUFFICES ASSUME AInv, [Next]_vars, NEW e \in Events, Open(e)' PROVE Asks(e)'
  BY NextTInv DEF AInv, Asks
<1>1. CASE UNCHANGED vars \/ TimePasses
  <2>1. UNCHANGED <<store, chain, got, live, comp, rp, hist>> /\ Grows(e)
    BY <1>1 DEF vars, TimePasses, Grows
  <2>2. TInv /\ Open(e) /\ CopiesFine(e) /\ InOrder(e)
    BY <2>1, WasOpen
  <2>3. ReplayFine(e)' /\ CompanionFine(e)'
    BY <2>1, <2>2, ReplaysStay DEF CopiesFine, CompanionFine
  <2> QED BY <2>1, <2>2, <2>3, StayAsks
<1>2. ASSUME NEW f \in Events, LiveStep(f) PROVE Asks(e)'
  BY <1>2, ComputeAsks, AnswersAsks, UnreachableAsks, CompanionAsks DEF LiveStep
<1> QED BY <1>1, <1>2, PublishAsks, ChainAsks, CrashAsks, ReplayAsks DEF Next

\* Whatever the events, relays, tabs, overlapping replays, companions and crashes:
\* an event that reached IndexedDB leaves it only when some relay set computed for
\* it has been asked in full (or a replay gave it up, or a write of it was
\* rejected), and until then what has still to be asked is pending.
THEOREM AskedFirst == Spec => []AskedBeforeForgotten
<1>1. AInv => AskedBeforeForgotten
  <2> SUFFICES ASSUME AInv, NEW e \in Events, hist[e].durable, ~hist[e].gaveUp, ~hist[e].faulty
               PROVE  IF store[e] = None THEN \E R \in hist[e].computed : R \subseteq hist[e].asked
                      ELSE \/ store[e].pending = None
                           \/ \E R \in hist[e].computed :
                                 R \ hist[e].asked \subseteq NormalizeAll(store[e].pending)
    BY DEF AskedBeforeForgotten
  <2>1. CASE Served(e)
    BY <2>1 DEF Served
  <2>2. CASE ~Served(e)
    <3>1. StoreFine(e)
      BY <2>2 DEF AInv, Open, CopiesFine
    <3> QED BY <3>1 DEF StoreFine, FineEntry, Covers
  <2> QED BY <2>1, <2>2
<1> QED BY InitAInv, NextAInv, <1>1, PTL DEF Spec

----------------------------------------------------------------------------
(* The steps of OutboxPromise. *)

SameKept == \A f \in Events : store'[f] # None <=> store[f] # None
SameGoals == \A f \in Events : hist'[f].computed = hist[f].computed
SameAsked == \A f \in Events : hist'[f].asked = hist[f].asked
SameExcused ==
    \A f \in Events : (hist'[f].gaveUp \/ hist'[f].faulty) <=> (hist[f].gaveUp \/ hist[f].faulty)

LEMMA Stutters ==
    ASSUME SameKept, SameGoals, SameAsked, SameExcused
    PROVE  UNCHANGED Promise!vars
  BY DEF SameKept, SameGoals, SameAsked, SameExcused, Promise!vars

LEMMA Keeps ==
    ASSUME NEW e \in Events, \A f \in Events : store'[f] # None <=> f = e \/ store[f] # None,
           SameGoals, SameAsked, SameExcused
    PROVE  Promise!Next
<1>1. Promise!Keep(e)
  BY DEF SameGoals, SameAsked, SameExcused, Promise!Keep
<1> QED BY <1>1 DEF Promise!Next

LEMMA Forgets ==
    ASSUME NEW e \in Events, ~Open(e), store[e] # None,
           \A f \in Events : store'[f] # None <=> f # e /\ store[f] # None,
           SameGoals, SameAsked, SameExcused
    PROVE  Promise!Next
<1>1. e \in {f \in Events : hist[f].gaveUp \/ hist[f].faulty} \/ Promise!Served(e)
  BY DEF Open, Served, Promise!Served
<1>2. Promise!Forget(e)
  BY <1>1 DEF SameGoals, SameAsked, SameExcused, Promise!Forget
<1> QED BY <1>2 DEF Promise!Next

LEMMA Excuses ==
    ASSUME NEW e \in Events, SameKept, SameGoals, SameAsked,
           \A f \in Events : (hist'[f].gaveUp \/ hist'[f].faulty) <=> f = e \/ (hist[f].gaveUp \/ hist[f].faulty)
    PROVE  Promise!Next
<1>1. Promise!Excuse(e)
  BY DEF SameKept, SameGoals, SameAsked, Promise!Excuse
<1> QED BY <1>1 DEF Promise!Next

LEMMA Aims ==
    ASSUME NEW S \in SUBSET Events, NEW R \in SUBSET Urls, SameKept, SameAsked, SameExcused,
           \A f \in Events : hist'[f].computed = IF f \in S THEN hist[f].computed \cup {R} ELSE hist[f].computed
    PROVE  Promise!Next
<1>1. Promise!Aim(S, R)
  BY DEF SameKept, SameAsked, SameExcused, Promise!Aim
<1> QED BY <1>1 DEF Promise!Next

LEMMA AsksAll ==
    ASSUME NEW e \in Events, NEW S \in SUBSET Urls, SameKept, SameGoals, SameExcused,
           \A f \in Events : hist'[f].asked = IF f = e THEN hist[f].asked \cup S ELSE hist[f].asked
    PROVE  Promise!Next
<1>1. Promise!Ask(e, S)
  BY DEF SameKept, SameGoals, SameExcused, Promise!Ask
<1> QED BY <1>1 DEF Promise!Next

\* A write of the entry of e keeps e, or, when something allows it, forgets it.
LEMMA WriteMaps ==
    ASSUME TInv, NEW e \in Events, NEW x, store' = [store EXCEPT ![e] = x], x = None => ~Open(e),
           SameGoals, SameAsked, SameExcused
    PROVE  [Promise!Next]_(Promise!vars)
<1>1. \A f \in Events : store'[f] = IF f = e THEN x ELSE store[f]
  BY DEF TInv, TypeOK
<1>2. CASE x # None
  BY <1>1, <1>2, Keeps
<1>3. CASE x = None /\ store[e] # None
  BY <1>1, <1>3, Forgets
<1>4. CASE x = None /\ store[e] = None
  BY <1>1, <1>4, Stutters DEF SameKept
<1> QED BY <1>2, <1>3, <1>4

LEMMA ChainMaps ==
    ASSUME AInv, NEW t \in Tabs, ChainStep(t) \/ WriteFails(t)
    PROVE  [Promise!Next]_(Promise!vars)
<1>1. TInv /\ hist \in [Events -> History] /\ store \in [Events -> {None} \cup Entry]
  BY DEF AInv, TInv, TypeOK
<1>2. CASE ExecPut(t)
  <2>1. Head(chain[t]).ev \in Events /\ Head(chain[t]).entry # None
    BY <1>1, <1>2, HeadOp, OutboxAssumption DEF ExecPut, Op
  <2>2. PICK o \in Events : o = Head(chain[t]).ev
    BY <2>1
  <2>3. hist' = [hist EXCEPT ![o] = [hist[o] EXCEPT !.durable = TRUE]]
    BY <1>1, <1>2, <2>2 DEF ExecPut, History
  <2>4. SameGoals /\ SameAsked /\ SameExcused
    BY <1>1, <2>3 DEF SameGoals, SameAsked, SameExcused, History
  <2>5. PICK x : x = Head(chain[t]).entry
    OBVIOUS
  <2>6. store' = [store EXCEPT ![o] = x] /\ x # None
    BY <1>2, <2>1, <2>2, <2>5 DEF ExecPut
  <2> QED BY <1>1, <2>4, <2>6, WriteMaps
<1>3. CASE ExecRemove(t)
  <2>1. PICK o \in Events : o = Head(chain[t]).ev
    BY <1>1, <1>3, HeadOp DEF ExecRemove
  <2>2. OpAt(t, 1, o, "remove") /\ 1 \in Idx /\ chain[t][1].kind = "remove"
    BY <1>1, <1>3, <2>1, HeadOp DEF ExecRemove
  <2>3. ~Open(o)
    BY <2>2 DEF AInv, CopiesFine, ChainFine, OpFine, EntryKinds
  <2>4. store' = [store EXCEPT ![o] = None] /\ hist' = hist
    BY <1>3, <2>1 DEF ExecRemove
  <2> QED BY <1>1, <2>3, <2>4, WriteMaps DEF SameGoals, SameAsked, SameExcused
<1>4. CASE ExecList(t)
  <2>1. store' = store /\ hist' = [f \in Events |-> [hist[f] EXCEPT !.shared = @ \/ store[f] # None]]
    BY <1>4 DEF ExecList
  <2> QED BY <1>1, <2>1, Stutters DEF SameKept, SameGoals, SameAsked, SameExcused, History
<1>5. CASE ReadEntry(t)
  BY <1>5, Stutters DEF ReadEntry, SameKept, SameGoals, SameAsked, SameExcused
<1>6. CASE WriteEntry(t)
  <2>1. /\ chain[t] # <<>> /\ Head(chain[t]).kind \in {"set", "done"} /\ Head(chain[t]).kind # "list"
    BY <1>1, <1>6 DEF WriteEntry, TInv, Shape, ChainShape
  <2>2. PICK o \in Events : o = Head(chain[t]).ev
    BY <1>1, <2>1, HeadOp
  <2>3. hist' = hist /\ store' = [store EXCEPT ![o] = store'[o]]
    BY <1>1, <1>6, <2>2 DEF WriteEntry
  <2>4. Open(o) => store'[o] # None
    BY <1>1, <1>6, <2>2, WriteFine, OutboxAssumption DEF AInv
  <2>5. PICK x : x = store'[o]
    OBVIOUS
  <2> QED BY <1>1, <2>3, <2>4, <2>5, WriteMaps DEF SameGoals, SameAsked, SameExcused
<1>7. CASE WriteFails(t)
  <2>1. CASE Head(chain[t]).kind = "list"
    BY <1>7, <2>1, Stutters DEF WriteFails, SameKept, SameGoals, SameAsked, SameExcused
  <2>2. CASE Head(chain[t]).kind # "list"
    <3>1. PICK o \in Events : o = Head(chain[t]).ev
      BY <1>1, <1>7, <2>2, HeadOp DEF WriteFails
    <3>2. store' = store /\ hist' = [hist EXCEPT ![o] = [hist[o] EXCEPT !.faulty = TRUE]]
      BY <1>1, <1>7, <2>2, <3>1 DEF WriteFails, History
    <3>3. SameKept /\ SameGoals /\ SameAsked
      BY <1>1, <3>2 DEF SameKept, SameGoals, SameAsked, History
    <3>4. \A f \in Events : (hist'[f].gaveUp \/ hist'[f].faulty) <=> f = o \/ (hist[f].gaveUp \/ hist[f].faulty)
      BY <1>1, <3>2 DEF History
    <3> QED BY <3>3, <3>4, Excuses
  <2> QED BY <2>1, <2>2
<1> QED BY <1>2, <1>3, <1>4, <1>5, <1>6, <1>7 DEF ChainStep

LEMMA LiveMaps ==
    ASSUME TInv, NEW e \in Events, LiveStep(e)
    PROVE  [Promise!Next]_(Promise!vars)
<1>1. hist \in [Events -> History]
  BY DEF TInv, TypeOK
<1>2. ASSUME NEW R \in RelaySets, ComputePublishRelays(e, R) PROVE Promise!Next
  <2>1. NormalizeAll(R) \in SUBSET Urls /\ Riders(e) \cup {e} \in SUBSET Events
    BY OutboxAssumption, OpTypes DEF TInv, Riders
  <2>2. \A f \in Events :
           hist'[f] = IF f = e THEN [hist[f] EXCEPT !.target = NormalizeAll(R),
                                                    !.computed = @ \cup {NormalizeAll(R)}]
                      ELSE IF f \in Riders(e) THEN [hist[f] EXCEPT !.shared = TRUE,
                                                    !.computed = @ \cup {NormalizeAll(R)}]
                      ELSE hist[f]
    BY <1>2 DEF ComputePublishRelays
  <2>3. \A f \in Events : hist'[f].computed =
           IF f \in Riders(e) \cup {e} THEN hist[f].computed \cup {NormalizeAll(R)} ELSE hist[f].computed
    BY <1>1, <2>2 DEF History
  <2>4. SameKept /\ SameAsked /\ SameExcused
    BY <1>1, <1>2, <2>2 DEF ComputePublishRelays, SameKept, SameAsked, SameExcused, History
  <2> QED BY <2>1, <2>3, <2>4, Aims
<1>3. ASSUME NEW r \in Urls, RelayAnswers(e, r) \/ RelayUnreachable(e, r) PROVE Promise!Next
  <2>1. PICK answers : hist' = [hist EXCEPT ![e] = [hist[e] EXCEPT !.asked = @ \cup {Norm[r]}, !.answered = answers]]
    <3>1. CASE RelayAnswers(e, r)
      BY <1>1, <3>1 DEF RelayAnswers, History
    <3>2. CASE RelayUnreachable(e, r)
      <4>1. hist' = [hist EXCEPT ![e] = [hist[e] EXCEPT !.asked = @ \cup {Norm[r]}, !.answered = hist[e].answered]]
        BY <1>1, <3>2 DEF RelayUnreachable, History
      <4> QED BY <4>1
    <3> QED BY <1>3, <3>1, <3>2
  <2>2. SameKept /\ SameGoals /\ SameExcused
    BY <1>1, <1>3, <2>1 DEF RelayAnswers, RelayUnreachable, SameKept, SameGoals, SameExcused, History
  <2>3. \A f \in Events : hist'[f].asked = IF f = e THEN hist[f].asked \cup {Norm[r]} ELSE hist[f].asked
    BY <1>1, <2>1 DEF History
  <2>4. {Norm[r]} \in SUBSET Urls
    BY OutboxAssumption
  <2> QED BY <2>2, <2>3, <2>4, AsksAll
<1>4. ASSUME NEW ok \in SUBSET comp[e].relays, NEW refused \in SUBSET comp[e].relays,
             CompanionResults(e, ok, refused)
      PROVE  Promise!Next
  <2>1. hist' = [hist EXCEPT ![e] = [hist[e] EXCEPT !.asked = @ \cup NormalizeAll(comp[e].relays),
                                                   !.answered = @ \cup NormalizeAll(ok \cup refused)]]
    BY <1>1, <1>4 DEF CompanionResults, History
  <2>2. SameKept /\ SameGoals /\ SameExcused
    BY <1>1, <1>4, <2>1 DEF CompanionResults, SameKept, SameGoals, SameExcused, History
  <2>3. \A f \in Events : hist'[f].asked =
           IF f = e THEN hist[f].asked \cup NormalizeAll(comp[e].relays) ELSE hist[f].asked
    BY <1>1, <2>1 DEF History
  <2>4. NormalizeAll(comp[e].relays) \in SUBSET Urls
    BY OpTypes DEF TInv, TypeOK
  <2> QED BY <2>2, <2>3, <2>4, AsksAll
<1> QED BY <1>2, <1>3, <1>4 DEF LiveStep

LEMMA ReplayMaps ==
    ASSUME TInv, NEW p \in Replays, StartReplay(p) \/ ReplayStep(p)
    PROVE  [Promise!Next]_(Promise!vars)
<1>1. hist \in [Events -> History]
  BY DEF TInv, TypeOK
<1>2. ASSUME NEW e \in Events, ReplayGivesUp(p, e) PROVE Promise!Next
  <2>1. store' = store /\ hist' = [hist EXCEPT ![e] = [hist[e] EXCEPT !.gaveUp = TRUE]]
    BY <1>1, <1>2 DEF ReplayGivesUp, History
  <2>2. SameKept /\ SameGoals /\ SameAsked
    BY <1>1, <2>1 DEF SameKept, SameGoals, SameAsked, History
  <2>3. \A f \in Events : (hist'[f].gaveUp \/ hist'[f].faulty) <=> f = e \/ (hist[f].gaveUp \/ hist[f].faulty)
    BY <1>1, <2>1 DEF History
  <2> QED BY <2>2, <2>3, Excuses
<1>3. ASSUME NEW R \in RelaySets, ReplayHasRelays(p, R) PROVE Promise!Next
  <2>1. PICK e \in Events : e = rp[p].ev
    BY <1>3 DEF ReplayHasRelays, TInv, Shape, ReplayShape
  <2>2. store' = store /\ hist' = [hist EXCEPT ![e] = [hist[e] EXCEPT !.computed = @ \cup {NormalizeAll(R)}]]
    BY <1>1, <1>3, <2>1 DEF ReplayHasRelays, History
  <2>3. SameKept /\ SameAsked /\ SameExcused
    BY <1>1, <2>2 DEF SameKept, SameAsked, SameExcused, History
  <2>4. \A f \in Events : hist'[f].computed =
           IF f \in {e} THEN hist[f].computed \cup {NormalizeAll(R)} ELSE hist[f].computed
    BY <1>1, <2>2 DEF History
  <2>5. {e} \in SUBSET Events /\ NormalizeAll(R) \in SUBSET Urls
    BY OutboxAssumption, OpTypes DEF TInv
  <2> QED BY <2>3, <2>4, <2>5, Aims
<1>4. ASSUME NEW A \in SUBSET rp[p].relays, ReplayPublishes(p, A) PROVE Promise!Next
  <2>1. PICK e \in Events : e = rp[p].ev
    BY <1>4 DEF ReplayPublishes, TInv, Shape, ReplayShape
  <2>2. /\ store' = store
        /\ hist' = [hist EXCEPT ![e] = [hist[e] EXCEPT !.asked = @ \cup NormalizeAll(rp[p].relays),
                                                       !.answered = @ \cup NormalizeAll(A)]]
    BY <1>1, <1>4, <2>1 DEF ReplayPublishes, History
  <2>3. SameKept /\ SameGoals /\ SameExcused
    BY <1>1, <2>2 DEF SameKept, SameGoals, SameExcused, History
  <2>4. \A f \in Events : hist'[f].asked =
           IF f = e THEN hist[f].asked \cup NormalizeAll(rp[p].relays) ELSE hist[f].asked
    BY <1>1, <2>2 DEF History
  <2>5. NormalizeAll(rp[p].relays) \in SUBSET Urls
    BY OpTypes DEF TInv, TypeOK, ReplayRun
  <2> QED BY <2>3, <2>4, <2>5, AsksAll
<1>5. ASSUME UNCHANGED <<store, hist>> PROVE UNCHANGED Promise!vars
  BY <1>5, Stutters DEF SameKept, SameGoals, SameAsked, SameExcused
<1>6. ASSUME NEW e \in Events, ReplayResumes(p, e) \/ ReplayRecomputes(p, e) PROVE UNCHANGED Promise!vars
  BY <1>5, <1>6 DEF ReplayResumes, ReplayRecomputes
<1>7. ASSUME NEW r \in Urls, ReplayMarks(p, r) PROVE UNCHANGED Promise!vars
  BY <1>5, <1>7 DEF ReplayMarks
<1>8. CASE StartReplay(p) \/ ReplayCounts(p) \/ ReplayPublishThrows(p) \/ ReplayEnds(p)
  BY <1>5, <1>8 DEF StartReplay, ReplayCounts, ReplayPublishThrows, ReplayEnds
<1> QED BY <1>2, <1>3, <1>4, <1>6, <1>7, <1>8 DEF ReplayStep

LEMMA NextMaps == AInv /\ [Next]_vars => [Promise!Next]_(Promise!vars)
<1> SUFFICES ASSUME AInv, [Next]_vars PROVE [Promise!Next]_(Promise!vars)
  OBVIOUS
<1>1. TInv
  BY DEF AInv
<1>2. ASSUME UNCHANGED <<store, hist>> PROVE UNCHANGED Promise!vars
  BY <1>2, Stutters DEF SameKept, SameGoals, SameAsked, SameExcused
<1>3. CASE UNCHANGED vars \/ TimePasses
  BY <1>2, <1>3 DEF vars, TimePasses
<1>4. ASSUME NEW t \in Tabs, NEW e \in Events, Publish(e, t) PROVE UNCHANGED Promise!vars
  BY <1>2, <1>4 DEF Publish
<1>5. ASSUME NEW t \in Tabs, Crash(t) PROVE UNCHANGED Promise!vars
  BY <1>2, <1>5 DEF Crash
<1> QED BY <1>1, <1>3, <1>4, <1>5, ChainMaps, LiveMaps, ReplayMaps DEF Next

\* Whatever the events, relays, tabs, overlapping replays, companions and crashes:
\* what tabs, chains and replays do to an entry are steps of OutboxPromise, which
\* knows none of them; in particular an entry is only deleted when the event has
\* been served or is excused.
THEOREM PromiseKept == Spec => KeepsPromise
<1>1. Init => Promise!Init
  BY DEF Init, Promise!Init
<1>2. AInv /\ [Next]_vars => [Promise!Next]_(Promise!vars)
  BY NextMaps
<1> QED BY <1>1, <1>2, InitAInv, NextAInv, PTL DEF Spec, KeepsPromise
=============================================================================
