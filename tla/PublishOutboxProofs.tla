------------------------ MODULE PublishOutboxProofs ------------------------
(***************************************************************************)
(* Theorems about PublishOutbox, for any events, relays, tabs and bounds.  *)
(***************************************************************************)
EXTENDS PublishOutbox, SequenceTheorems, FiniteSetTheorems, TLAPS

----------------------------------------------------------------------------
(* Facts about sequences. *)

\* SetToSeq lists exactly the elements of a finite set.
LEMMA SetToSeqType ==
    ASSUME NEW S, IsFiniteSet(S)
    PROVE  SetToSeq(S) \in Seq(S)
<1>1. Cardinality(S) \in Nat /\ ExistsBijection(1..Cardinality(S), S)
  BY FS_CardinalityType
<1>2. \E f \in [1..Cardinality(S) -> S] : IsInjective(f)
  BY <1>1 DEF ExistsBijection, Bijection, Injection
<1>3. SetToSeq(S) \in [1..Cardinality(S) -> S]
  BY <1>2 DEF SetToSeq
<1> QED BY <1>1, <1>3

\* Appending keeps the head of a sequence that has one.
LEMMA AppendKeepsHead ==
    ASSUME NEW S, NEW s \in Seq(S), NEW u \in Seq(S)
    PROVE  /\ s \o u \in Seq(S)
           /\ s # <<>> => s \o u # <<>> /\ Head(s \o u) = Head(s)
<1>1. s \o u \in Seq(S) /\ Len(s \o u) = Len(s) + Len(u)
  BY ConcatProperties
<1>2. ASSUME s # <<>> PROVE s \o u # <<>> /\ Head(s \o u) = Head(s)
  <2>1. Len(s) > 0 /\ Len(s) \in Nat /\ Len(u) \in Nat
    BY <1>2, EmptySeq, LenProperties
  <2>2. (s \o u)[1] = s[1]
    BY <2>1, ConcatProperties
  <2> QED BY <1>1, <2>1, <2>2, EmptySeq
<1> QED BY <1>1, <1>2

----------------------------------------------------------------------------
(* Type correctness. *)

\* What the replays and the chains must look like for TypeOK to be inductive:
\* a tab has only read the entry of a set or done operation at the head of its
\* chain, a publish under way belongs to a tab, and a replay that is on its way to count an attempt of its entry has
\* that entry at hand, not expired.
ChainShape ==
    \A t \in Tabs : got[t] # None =>
        chain[t] # <<>> /\ Head(chain[t]).kind \in {"set", "done"}
ReplayShape ==
    \A p \in Replays :
        /\ rp[p].pc \in {"putting", "publish", "mark", "marking"} => rp[p].ev \in Events
        /\ rp[p].pc \in {"computing", "setting", "counting"} =>
              /\ rp[p].ev \in Events
              /\ rp[p].todo[rp[p].ev] # None
              /\ rp[p].todo[rp[p].ev].attempts < MaxAttempts
LiveShape ==
    \A e \in Events : live[e].phase \in {"computing", "fanout"} => live[e].tab \in Tabs

Shape == ChainShape /\ ReplayShape /\ LiveShape

TInv == TypeOK /\ Shape

LEMMA InitTInv == Init => TInv
  BY OutboxAssumption DEF Init, TInv, TypeOK, Shape, ChainShape, ReplayShape, LiveShape, IdleReplay, NoCompanionRun, LivePhases,
     ReplayPcs, Replays, Entry, ReplayRun, LiveRun, History

\* The operations the code queues are operations.
LEMMA OpTypes ==
    ASSUME TypeOK, NEW e \in Events, NEW by \in Replays \cup {None}
    PROVE  /\ \A P \in {None} \cup SUBSET Urls : EnqueueOp(e, P) \in Op
           /\ \A R \in SUBSET Urls : NormalizeAll(R) \in SUBSET Urls /\ SetOp(e, R, by) \in Op
           /\ \A r \in Urls : DoneOp(e, r, by) \in Op
  BY OutboxAssumption DEF TypeOK, EnqueueOp, SetOp, DoneOp, Op, Entry, NormalizeAll

LEMMA QueueStep ==
    ASSUME TInv, NEW t \in Tabs, NEW ops \in Seq(Op), Queue(t, ops)
    PROVE  /\ chain' \in [Tabs -> Seq(Op)]
           /\ \A u \in Tabs : chain[u] # <<>> => chain'[u] # <<>> /\ Head(chain'[u]) = Head(chain[u])
<1>1. chain[t] \o ops \in Seq(Op)
      /\ (chain[t] # <<>> => chain[t] \o ops # <<>> /\ Head(chain[t] \o ops) = Head(chain[t]))
  BY AppendKeepsHead DEF TInv, TypeOK
<1> QED BY <1>1 DEF TInv, TypeOK, Queue

\* Queueing leaves the shape of chains and reads alone; what is left to show is
\* the part about replays.
LEMMA QueueKeepsShape ==
    ASSUME TInv, NEW t \in Tabs, NEW ops \in Seq(Op), Queue(t, ops), UNCHANGED got
    PROVE  ChainShape'
  BY QueueStep DEF TInv, Shape, ChainShape

LEMMA ContinueType ==
    ASSUME TInv, NEW p \in Replays
    PROVE  /\ Continue(rp[p]) = [rp[p] EXCEPT !.pc = Continue(rp[p]).pc]
           /\ Continue(rp[p]).pc \in ReplayPcs
           /\ Continue(rp[p]).pc \in {"putting", "publish", "mark", "marking"} =>
                 rp[p].pc \in {"putting", "publish", "mark", "marking"}
           /\ Continue(rp[p]).pc \in {"computing", "setting", "counting"} =>
                 rp[p].pc \in {"computing", "setting", "counting"}
<1> USE DEF ReplayRun
<1> DEFINE pc == CASE rp[p].pc \in {"listing", "dropping"} -> "next"
          [] rp[p].pc = "setting" -> "counting"
          [] rp[p].pc = "putting" -> "publish"
          [] rp[p].pc = "marking" -> IF rp[p].results = {} THEN "next" ELSE "mark"
          [] OTHER -> rp[p].pc
<1>1. Continue(rp[p]) = [rp[p] EXCEPT !.pc = pc]
  BY DEF TInv, TypeOK, Continue
<1>2. Continue(rp[p]).pc = pc
  BY <1>1 DEF TInv, TypeOK
<1>3. pc \in ReplayPcs /\ rp[p].pc \in ReplayPcs
  BY DEF TInv, TypeOK, ReplayPcs
<1> QED BY <1>1, <1>2, <1>3 DEF ReplayPcs

LEMMA CompleteStep ==
    ASSUME TInv, NEW t \in Tabs, chain[t] # <<>>, Complete(t)
    PROVE  /\ chain' \in [Tabs -> Seq(Op)]
           /\ got' \in [Tabs -> {None} \cup Entry]
           /\ rp' \in [Replays -> ReplayRun]
           /\ ChainShape' /\ ReplayShape'
<1>1. Head(chain[t]) \in Op /\ Tail(chain[t]) \in Seq(Op)
  BY HeadTailProperties DEF TInv, TypeOK
<1>2. chain' \in [Tabs -> Seq(Op)] /\ got' \in [Tabs -> {None} \cup Entry]
  BY <1>1 DEF Complete, TInv, TypeOK
<1>3. ChainShape'
  BY DEF Complete, TInv, TypeOK, Shape, ChainShape
<1>4. Head(chain[t]).by \in Replays \cup {None}
  BY <1>1 DEF Op
<1>5. CASE Head(chain[t]).by = None
  BY <1>2, <1>3, <1>5 DEF Complete, TInv, TypeOK, Shape, ReplayShape
<1>6. CASE Head(chain[t]).by # None
  <2> DEFINE p == Head(chain[t]).by
  <2>1. p \in Replays
    BY <1>4, <1>6
  <2>2. rp' = [rp EXCEPT ![p] = [rp[p] EXCEPT !.pc = Continue(rp[p]).pc]]
    BY <1>6, <2>1, ContinueType DEF Complete
  <2>3. Continue(rp[p]).pc \in ReplayPcs
    BY <2>1, ContinueType
  <2>4. rp' \in [Replays -> ReplayRun]
    <3>1. rp[p] \in ReplayRun
      BY <2>1 DEF TInv, TypeOK
    <3>2. [rp[p] EXCEPT !.pc = Continue(rp[p]).pc] \in ReplayRun
      BY <2>3, <3>1 DEF ReplayRun
    <3> QED BY <2>1, <2>2, <3>2 DEF TInv, TypeOK
  <2>5. \A q \in Replays : rp'[q].todo = rp[q].todo /\ rp'[q].ev = rp[q].ev
            /\ rp'[q].pc = IF q = p THEN Continue(rp[p]).pc ELSE rp[q].pc
    BY <2>1, <2>2 DEF TInv, TypeOK, ReplayRun
  <2>6. ReplayShape'
    BY <2>1, <2>5, ContinueType DEF TInv, Shape, ReplayShape
  <2> QED BY <1>2, <1>3, <2>4, <2>6
<1> QED BY <1>5, <1>6

\* Updating one field of a record keeps its type.
LEMMA HistoryUpdates ==
    ASSUME NEW h \in History, NEW R \in SUBSET Urls, NEW A \in SUBSET Urls, NEW b \in BOOLEAN
    PROVE  /\ [h EXCEPT !.durable = TRUE] \in History
           /\ [h EXCEPT !.faulty = TRUE] \in History
           /\ [h EXCEPT !.gaveUp = TRUE] \in History
           /\ [h EXCEPT !.shared = @ \/ b] \in History
           /\ [h EXCEPT !.asked = @ \cup R] \in History
           /\ [h EXCEPT !.asked = @ \cup R, !.answered = @ \cup A] \in History
           /\ [h EXCEPT !.computed = @ \cup {R}] \in History
           /\ [h EXCEPT !.target = R, !.computed = @ \cup {R}] \in History
           /\ [h EXCEPT !.shared = TRUE, !.computed = @ \cup {R}] \in History
<1> USE DEF History
<1>1. [h EXCEPT !.durable = TRUE] \in History
  OBVIOUS
<1>2. [h EXCEPT !.faulty = TRUE] \in History
  OBVIOUS
<1>3. [h EXCEPT !.gaveUp = TRUE] \in History
  OBVIOUS
<1>4. [h EXCEPT !.shared = @ \/ b] \in History
  OBVIOUS
<1>5. [h EXCEPT !.asked = @ \cup R] \in History
  OBVIOUS
<1>6. [h EXCEPT !.asked = @ \cup R, !.answered = @ \cup A] \in History
  OBVIOUS
<1>7. [h EXCEPT !.computed = @ \cup {R}] \in History
  OBVIOUS
<1>8. [h EXCEPT !.target = R, !.computed = @ \cup {R}] \in History
  OBVIOUS
<1>9. [h EXCEPT !.shared = TRUE, !.computed = @ \cup {R}] \in History
  OBVIOUS
<1> QED BY <1>1, <1>2, <1>3, <1>4, <1>5, <1>6, <1>7, <1>8, <1>9

\* One lemma per action (or group of actions alike): TInv is preserved.
LEMMA ChainTInv ==
    ASSUME TInv, NEW t \in Tabs, ChainStep(t) \/ WriteFails(t)
    PROVE  TInv'
<1>1. CASE ExecPut(t)
  <2>1. Head(chain[t]) \in Op /\ Head(chain[t]).kind = "put"
    BY <1>1, HeadTailProperties DEF ExecPut, TInv, TypeOK
  <2>2. Head(chain[t]).ev \in Events /\ Head(chain[t]).entry \in Entry
    BY <2>1 DEF Op
  <2>3. [hist[Head(chain[t]).ev] EXCEPT !.durable = TRUE] \in History
    BY <2>2, HistoryUpdates DEF TInv, TypeOK
  <2>4. store' \in [Events -> {None} \cup Entry] /\ hist' \in [Events -> History]
    BY <1>1, <2>2, <2>3 DEF ExecPut, TInv, TypeOK
  <2> QED BY <1>1, <2>4, CompleteStep DEF ExecPut, TInv, TypeOK, Shape, LiveShape
<1>2. CASE ExecRemove(t)
  <2>1. store' \in [Events -> {None} \cup Entry]
    BY <1>2 DEF ExecRemove, TInv, TypeOK
  <2> QED BY <1>2, <2>1, CompleteStep DEF ExecRemove, TInv, TypeOK, Shape, LiveShape
<1>3. CASE ExecList(t)
  <2>1. /\ Head(chain[t]) \in Op /\ Head(chain[t]).kind = "list"
        /\ Tail(chain[t]) \in Seq(Op)
    BY <1>3, HeadTailProperties DEF ExecList, TInv, TypeOK
  <2> DEFINE p == Head(chain[t]).by
  <2>2. p \in Replays
    BY <2>1 DEF Op
  <2>3. rp' = [rp EXCEPT ![p] = [rp[p] EXCEPT !.pc = "next", !.todo = store]]
    BY <1>3, <2>2 DEF ExecList, TInv, TypeOK, ReplayRun
  <2>4. [rp[p] EXCEPT !.pc = "next", !.todo = store] \in ReplayRun
    <3>1. rp[p] \in ReplayRun /\ store \in [Events -> {None} \cup Entry]
      BY <2>2 DEF TInv, TypeOK
    <3> QED BY <3>1 DEF ReplayRun, ReplayPcs
  <2>5. rp' \in [Replays -> ReplayRun]
    BY <2>2, <2>3, <2>4 DEF TInv, TypeOK
  <2>6. chain' \in [Tabs -> Seq(Op)] /\ hist' \in [Events -> History]
    <3>1. \A e \in Events : [hist[e] EXCEPT !.shared = @ \/ store[e] # None] \in History
      BY HistoryUpdates DEF TInv, TypeOK
    <3> QED BY <1>3, <2>1, <3>1 DEF ExecList, TInv, TypeOK
  <2>7. \A q \in Replays : IF q = p THEN rp'[q].pc = "next" ELSE rp'[q] = rp[q]
    BY <2>2, <2>3 DEF TInv, TypeOK, ReplayRun
  <2>8. got[t] = None
    BY <2>1 DEF TInv, Shape, ChainShape
  <2>9. Shape'
    BY <1>3, <2>7, <2>8 DEF ExecList, TInv, TypeOK, Shape, ChainShape, ReplayShape, LiveShape
  <2> QED BY <1>3, <2>5, <2>6, <2>9 DEF ExecList, TInv, TypeOK
<1>4. CASE ReadEntry(t)
  <2>1. CASE Complete(t)
    BY <1>4, <2>1, CompleteStep DEF ReadEntry, TInv, TypeOK, Shape, LiveShape
  <2>2. CASE ~Complete(t)
    <3>1. Head(chain[t]) \in Op /\ Head(chain[t]).kind \in {"set", "done"}
      BY <1>4, HeadTailProperties DEF ReadEntry, TInv, TypeOK
    <3>2. store[Head(chain[t]).ev] \in {None} \cup Entry
      BY <3>1 DEF Op, TInv, TypeOK
    <3>3. got' = [got EXCEPT ![t] = store[Head(chain[t]).ev]] /\ UNCHANGED <<chain, rp>>
      BY <1>4, <2>2 DEF ReadEntry
    <3>4. got' \in [Tabs -> {None} \cup Entry]
      BY <3>2, <3>3 DEF TInv, TypeOK
    <3>5. Shape'
      BY <1>4, <3>3 DEF ReadEntry, TInv, TypeOK, Shape, ChainShape, ReplayShape, LiveShape
    <3> QED BY <1>4, <3>3, <3>4, <3>5 DEF ReadEntry, TInv, TypeOK
  <2> QED BY <2>1, <2>2
<1>5. CASE WriteEntry(t)
  <2>1. /\ chain[t] # <<>> /\ Head(chain[t]) \in Op
        /\ Head(chain[t]).kind \in {"set", "done"} /\ got[t] \in Entry
    BY <1>5, HeadTailProperties DEF WriteEntry, TInv, TypeOK, Shape, ChainShape
  <2>2. /\ Head(chain[t]).ev \in Events
        /\ Head(chain[t]).kind = "set" => Head(chain[t]).relays \in SUBSET Urls
    BY <2>1 DEF Op
  <2>3. WithoutRelay(got[t], Head(chain[t]).relay) \in {None} \cup Entry
    BY <2>1 DEF WithoutRelay, Entry
  <2>4. store' \in [Events -> {None} \cup Entry]
    BY <1>5, <2>1, <2>2, <2>3 DEF WriteEntry, TInv, TypeOK, Entry
  <2> QED BY <1>5, <2>1, <2>4, CompleteStep DEF WriteEntry, TInv, TypeOK, Shape, LiveShape
<1>6. CASE WriteFails(t)
  <2>1. Head(chain[t]) \in Op
    BY <1>6, HeadTailProperties DEF WriteFails, TInv, TypeOK
  <2>2. Head(chain[t]).kind # "list" => Head(chain[t]).ev \in Events
    BY <2>1 DEF Op
  <2>3. Head(chain[t]).kind # "list" => [hist[Head(chain[t]).ev] EXCEPT !.faulty = TRUE] \in History
    BY <2>2, HistoryUpdates DEF TInv, TypeOK
  <2>4. hist' \in [Events -> History]
    BY <1>6, <2>2, <2>3 DEF WriteFails, TInv, TypeOK
  <2>5. spent' \in [crashes : 0..MaxCrashes, failures : 0..MaxWriteFailures]
    <3>1. spent \in [crashes : 0..MaxCrashes, failures : 0..MaxWriteFailures]
      BY DEF TInv, TypeOK
    <3>2. spent.failures + 1 \in 0..MaxWriteFailures
      BY <1>6, <3>1, OutboxAssumption DEF WriteFails
    <3> QED BY <1>6, <3>1, <3>2 DEF WriteFails
  <2> QED BY <1>6, <2>4, <2>5, CompleteStep DEF WriteFails, TInv, TypeOK, Shape, LiveShape
<1> QED BY <1>1, <1>2, <1>3, <1>4, <1>5, <1>6 DEF ChainStep

LEMMA LiveUpdate ==
    ASSUME TInv, NEW e \in Events, live[e].tab \in Tabs, NEW ph \in LivePhases, NEW R \in SUBSET Urls,
           live' = [live EXCEPT ![e] = [live[e] EXCEPT !.phase = ph, !.waiting = R]]
    PROVE  live' \in [Events -> LiveRun] /\ LiveShape'
<1>1. live[e] \in LiveRun
  BY DEF TInv, TypeOK
<1>2. [live[e] EXCEPT !.phase = ph, !.waiting = R] \in LiveRun
  BY <1>1 DEF LiveRun
<1>3. live' \in [Events -> LiveRun]
  BY <1>2 DEF TInv, TypeOK
<1>4. \A f \in Events : live'[f].tab = live[f].tab /\ (f # e => live'[f] = live[f])
  BY DEF TInv, TypeOK, LiveRun
<1> QED BY <1>3, <1>4 DEF TInv, Shape, LiveShape

LEMMA LiveTInv ==
    ASSUME TInv, NEW e \in Events,
           (\E t \in Tabs : Publish(e, t)) \/ LiveStep(e)
    PROVE  TInv'
<1>1. ASSUME NEW t \in Tabs, Publish(e, t) PROVE TInv'
  <2>1. <<EnqueueOp(e, None)>> \in Seq(Op)
    BY OpTypes DEF TInv
  <2>2. live' \in [Events -> LiveRun] /\ LiveShape'
    BY <1>1 DEF Publish, TInv, TypeOK, Shape, LiveShape, LiveRun, LivePhases
  <2> QED BY <1>1, <2>1, <2>2, QueueStep, QueueKeepsShape DEF Publish, TInv, TypeOK, Shape, ChainShape, ReplayShape
<1>2. ASSUME NEW R \in RelaySets, ComputePublishRelays(e, R) PROVE TInv'
  <2> DEFINE C == Riders(e)
             ops == {EnqueueOp(c, NormalizeAll(R)) : c \in C}
  <2>1. R \in SUBSET Urls /\ NormalizeAll(R) \in SUBSET Urls
    BY OutboxAssumption, OpTypes DEF TInv
  <2>2. live[e].tab \in Tabs
    BY <1>2 DEF ComputePublishRelays, TInv, Shape, LiveShape
  <2>3. IsFiniteSet(ops) /\ ops \subseteq Op
    <3>1. C \subseteq Events /\ IsFiniteSet(C)
      BY OutboxAssumption, FS_Subset DEF Riders
    <3>2. [c \in C |-> EnqueueOp(c, NormalizeAll(R))] \in Surjection(C, ops)
      BY DEF Surjection
    <3>3. IsFiniteSet(ops)
      BY <3>1, <3>2, FS_Surjection
    <3>4. \A c \in C : EnqueueOp(c, NormalizeAll(R)) \in Op
      BY <2>1, <3>1, OpTypes DEF TInv
    <3> QED BY <3>3, <3>4
  <2>4. SetToSeq(ops) \in Seq(Op)
    BY <2>3, SetToSeqType, SeqMonotonic
  <2>5. <<SetOp(e, R, None)>> \o SetToSeq(ops) \in Seq(Op)
    <3>1. <<SetOp(e, R, None)>> \in Seq(Op)
      BY <2>1, OpTypes DEF TInv
    <3> QED BY <2>4, <3>1, ConcatProperties
  <2>6. Queue(live[e].tab, <<SetOp(e, R, None)>> \o SetToSeq(ops))
    BY <1>2 DEF ComputePublishRelays
  <2>7. live' \in [Events -> LiveRun] /\ LiveShape'
    <3> DEFINE ph == IF R = {} THEN "over" ELSE "fanout"
    <3>1. live' = [live EXCEPT ![e] = [live[e] EXCEPT !.phase = ph, !.waiting = R]]
      BY <1>2 DEF ComputePublishRelays, TInv, TypeOK, LiveRun
    <3>2. ph \in LivePhases
      BY DEF LivePhases
    <3> QED BY <2>1, <2>2, <3>1, <3>2, LiveUpdate
  <2>8. comp' \in [Events -> [tab : Tabs \cup {None}, relays : SUBSET Urls]]
    BY <1>2, <2>1, <2>2 DEF ComputePublishRelays, TInv, TypeOK
  <2>9. hist' \in [Events -> History]
    <3>1. \A c \in Events : hist[c] \in History
      BY DEF TInv, TypeOK
    <3>2. \A c \in Events :
             /\ [hist[c] EXCEPT !.target = NormalizeAll(R), !.computed = @ \cup {NormalizeAll(R)}] \in History
             /\ [hist[c] EXCEPT !.shared = TRUE, !.computed = @ \cup {NormalizeAll(R)}] \in History
      BY <2>1, <3>1, HistoryUpdates
    <3> QED BY <1>2, <3>1, <3>2 DEF ComputePublishRelays
  <2> QED BY <1>2, <2>2, <2>5, <2>6, <2>7, <2>8, <2>9, QueueStep, QueueKeepsShape
          DEF ComputePublishRelays, TInv, TypeOK, Shape, ChainShape, ReplayShape
<1>3. ASSUME NEW r \in Urls, RelayAnswers(e, r) \/ RelayUnreachable(e, r) PROVE TInv'
  <2>0. live[e].phase = "fanout" /\ Settle(e, r) /\ live[e].tab \in Tabs
    BY <1>3 DEF RelayAnswers, RelayUnreachable, TInv, Shape, LiveShape
  <2>1. live' \in [Events -> LiveRun] /\ LiveShape'
    <3> DEFINE ph == IF live[e].waiting = {r} THEN "over" ELSE "fanout"
               left == live[e].waiting \ {r}
    <3>1. live' = [live EXCEPT ![e] = [live[e] EXCEPT !.phase = ph, !.waiting = left]]
      BY <2>0 DEF Settle, TInv, TypeOK, LiveRun
    <3>2. ph \in LivePhases /\ left \in SUBSET Urls
      BY DEF LivePhases, TInv, TypeOK, LiveRun
    <3> QED BY <2>0, <3>1, <3>2, LiveUpdate
  <2>2. Norm[r] \in Urls /\ hist[e] \in History
    BY OutboxAssumption DEF TInv, TypeOK
  <2>3. CASE RelayAnswers(e, r)
    <3>1. <<DoneOp(e, r, None)>> \in Seq(Op)
      BY OpTypes DEF TInv
    <3>2. live[e].tab \in Tabs
      BY <2>0
    <3>3. [hist[e] EXCEPT !.asked = @ \cup {Norm[r]}, !.answered = @ \cup {Norm[r]}] \in History
      BY <2>2, HistoryUpdates
    <3>4. hist' \in [Events -> History]
      BY <2>3, <3>3 DEF RelayAnswers, TInv, TypeOK
    <3> QED BY <2>1, <2>3, <3>1, <3>2, <3>4, QueueStep, QueueKeepsShape
            DEF RelayAnswers, TInv, TypeOK, Shape, ChainShape, ReplayShape
  <2>4. CASE RelayUnreachable(e, r)
    <3>1. [hist[e] EXCEPT !.asked = @ \cup {Norm[r]}] \in History
      BY <2>2, HistoryUpdates
    <3>2. hist' \in [Events -> History]
      BY <2>4, <3>1 DEF RelayUnreachable, TInv, TypeOK
    <3> QED BY <2>1, <2>4, <3>2 DEF RelayUnreachable, TInv, TypeOK, Shape, ChainShape, ReplayShape
  <2> QED BY <1>3, <2>3, <2>4
<1>4. ASSUME NEW ok \in SUBSET comp[e].relays, NEW refused \in SUBSET comp[e].relays,
             CompanionResults(e, ok, refused)
      PROVE  TInv'
  <2> DEFINE ops == {DoneOp(e, r, None) : r \in ok}
  <2>1. comp[e].tab \in Tabs /\ comp[e].relays \in SUBSET Urls /\ hist[e] \in History
    BY <1>4 DEF CompanionResults, TInv, TypeOK
  <2>2. IsFiniteSet(ops) /\ ops \subseteq Op
    <3>1. IsFiniteSet(ok) /\ ok \subseteq Urls
      BY <2>1, OutboxAssumption, FS_Subset
    <3>2. [r \in ok |-> DoneOp(e, r, None)] \in Surjection(ok, ops)
      BY DEF Surjection
    <3> QED BY <3>1, <3>2, FS_Surjection, OpTypes DEF TInv
  <2>3. SetToSeq(ops) \in Seq(Op)
    BY <2>2, SetToSeqType, SeqMonotonic
  <2>4. /\ NormalizeAll(comp[e].relays) \in SUBSET Urls
        /\ NormalizeAll(ok \cup refused) \in SUBSET Urls
    BY <2>1, OpTypes DEF TInv
  <2>5. [hist[e] EXCEPT !.asked = @ \cup NormalizeAll(comp[e].relays),
                        !.answered = @ \cup NormalizeAll(ok \cup refused)] \in History
    BY <2>1, <2>4, HistoryUpdates
  <2>6. hist' \in [Events -> History]
    BY <1>4, <2>5 DEF CompanionResults, TInv, TypeOK
  <2>7. comp' \in [Events -> [tab : Tabs \cup {None}, relays : SUBSET Urls]]
    BY <1>4 DEF CompanionResults, TInv, TypeOK, NoCompanionRun
  <2> QED BY <1>4, <2>1, <2>3, <2>6, <2>7, QueueStep, QueueKeepsShape
          DEF CompanionResults, TInv, TypeOK, Shape, ReplayShape, LiveShape
<1> QED BY <1>1, <1>2, <1>3, <1>4 DEF LiveStep

\* What a replay action has to show: the record of replay p is a replay's, its
\* shape holds, and what it queues are operations.
LEMMA ReplayUpdate ==
    ASSUME TInv, NEW p \in Replays, NEW run \in ReplayRun,
           rp' = [rp EXCEPT ![p] = run],
           run.pc \in {"putting", "publish", "mark", "marking", "computing", "setting", "counting"}
              => run.ev \in Events,
           run.pc \in {"computing", "setting", "counting"} =>
              run.todo[run.ev] # None /\ run.todo[run.ev].attempts < MaxAttempts
    PROVE  rp' \in [Replays -> ReplayRun] /\ ReplayShape'
<1>1. rp' \in [Replays -> ReplayRun]
  BY DEF TInv, TypeOK
<1>2. \A q \in Replays : rp'[q] = IF q = p THEN run ELSE rp[q]
  BY DEF TInv, TypeOK
<1> QED BY <1>1, <1>2 DEF TInv, Shape, ReplayShape

LEMMA CountType ==
    ASSUME NEW p \in Replays, NEW e \in Events, NEW entry \in Entry, NEW R \in SUBSET Urls,
           entry.attempts < MaxAttempts
    PROVE  <<[kind |-> "put", ev |-> e, by |-> p,
              entry |-> [entry EXCEPT !.attempts = @ + 1, !.pending = R]]>> \in Seq(Op)
<1>1. entry.attempts + 1 \in 0..MaxAttempts
  BY OutboxAssumption DEF Entry
<1>2. [entry EXCEPT !.attempts = @ + 1, !.pending = R] \in Entry
  BY <1>1 DEF Entry
<1> QED BY <1>2 DEF Op

LEMMA ReplayTInv ==
    ASSUME TInv, NEW p \in Replays, StartReplay(p) \/ ReplayStep(p)
    PROVE  TInv'
<1> DEFINE run == rp[p]
<1>0. run \in ReplayRun /\ TabOf(p) \in Tabs
  BY DEF TInv, TypeOK, Replays, TabOf
<1>1. CASE StartReplay(p)
  <2>1. <<[kind |-> "list", by |-> p]>> \in Seq(Op)
    BY DEF Op
  <2>2. rp' = [rp EXCEPT ![p] = [run EXCEPT !.pc = "listing", !.now = now]]
    BY <1>1 DEF StartReplay, TInv, TypeOK, ReplayRun
  <2>3. [run EXCEPT !.pc = "listing", !.now = now] \in ReplayRun
    BY <1>0 DEF ReplayRun, ReplayPcs, TInv, TypeOK
  <2>4. rp' \in [Replays -> ReplayRun] /\ ReplayShape'
    BY <1>0, <2>2, <2>3, ReplayUpdate DEF ReplayRun
  <2> QED BY <1>0, <1>1, <2>1, <2>4, QueueStep, QueueKeepsShape
          DEF StartReplay, TInv, TypeOK, Shape, LiveShape
<1>2. ASSUME NEW e \in Events, ReplayGivesUp(p, e) PROVE TInv'
  <2>1. <<[kind |-> "remove", ev |-> e, by |-> p]>> \in Seq(Op)
    BY DEF Op
  <2> DEFINE todo == [run.todo EXCEPT ![e] = None]
  <2>2. rp' = [rp EXCEPT ![p] = [run EXCEPT !.pc = "dropping", !.todo = todo]]
    BY <1>2 DEF ReplayGivesUp, TInv, TypeOK, ReplayRun
  <2>3. [run EXCEPT !.pc = "dropping", !.todo = todo] \in ReplayRun
    BY <1>0 DEF ReplayRun, ReplayPcs
  <2>4. rp' \in [Replays -> ReplayRun] /\ ReplayShape'
    BY <1>0, <2>2, <2>3, ReplayUpdate DEF ReplayRun
  <2>5. [hist[e] EXCEPT !.gaveUp = TRUE] \in History
    BY HistoryUpdates DEF TInv, TypeOK
  <2>6. hist' \in [Events -> History]
    BY <1>2, <2>5 DEF ReplayGivesUp, TInv, TypeOK
  <2> QED BY <1>0, <1>2, <2>1, <2>4, <2>6, QueueStep, QueueKeepsShape
          DEF ReplayGivesUp, Drop, TInv, TypeOK, Shape, LiveShape
<1>3. ASSUME NEW e \in Events, ReplayResumes(p, e) PROVE TInv'
  <2> DEFINE entry == run.todo[e]
  <2>1. /\ entry \in Entry /\ entry.pending \in SUBSET Urls
        /\ entry.attempts < MaxAttempts
    BY <1>0, <1>3, OutboxAssumption DEF ReplayResumes, ReplayRun, Entry, Expired
  <2>2. Queue(TabOf(p), <<[kind |-> "put", ev |-> e, by |-> p,
              entry |-> [entry EXCEPT !.attempts = @ + 1, !.pending = entry.pending]]>>)
    BY <1>3 DEF ReplayResumes, Count
  <2>3. rp' = [rp EXCEPT ![p] = [run EXCEPT !.pc = "putting", !.ev = e, !.relays = entry.pending]]
    BY <1>3 DEF ReplayResumes, TInv, TypeOK, ReplayRun
  <2>4. [run EXCEPT !.pc = "putting", !.ev = e, !.relays = entry.pending] \in ReplayRun
    BY <1>0, <2>1 DEF ReplayRun, ReplayPcs
  <2>5. rp' \in [Replays -> ReplayRun] /\ ReplayShape'
    BY <1>0, <2>3, <2>4, ReplayUpdate DEF ReplayRun
  <2> QED BY <1>0, <1>3, <2>1, <2>2, <2>5, CountType, QueueStep, QueueKeepsShape
          DEF ReplayResumes, TInv, TypeOK, Shape, LiveShape
<1>4. ASSUME NEW e \in Events, ReplayRecomputes(p, e) PROVE TInv'
  <2>1. run.todo[e].attempts < MaxAttempts /\ run.todo[e] # None
    BY <1>0, <1>4, OutboxAssumption DEF ReplayRecomputes, ReplayRun, Entry, Expired
  <2>2. rp' = [rp EXCEPT ![p] = [run EXCEPT !.pc = "computing", !.ev = e]]
    BY <1>4 DEF ReplayRecomputes, TInv, TypeOK, ReplayRun
  <2>3. [run EXCEPT !.pc = "computing", !.ev = e] \in ReplayRun
    BY <1>0 DEF ReplayRun, ReplayPcs
  <2>4. rp' \in [Replays -> ReplayRun] /\ ReplayShape'
    BY <1>0, <2>1, <2>2, <2>3, ReplayUpdate DEF ReplayRun
  <2> QED BY <1>4, <2>4 DEF ReplayRecomputes, TInv, TypeOK, Shape, ChainShape, LiveShape
<1>5. ASSUME NEW R \in RelaySets, ReplayHasRelays(p, R) PROVE TInv'
  <2> DEFINE e == run.ev
  <2>1. /\ e \in Events /\ run.todo[e] # None /\ run.todo[e].attempts < MaxAttempts
        /\ R \in SUBSET Urls /\ NormalizeAll(R) \in SUBSET Urls
    BY <1>5, OpTypes, OutboxAssumption DEF ReplayHasRelays, TInv, Shape, ReplayShape
  <2>2. [hist[e] EXCEPT !.computed = @ \cup {NormalizeAll(R)}] \in History
    BY <2>1, HistoryUpdates DEF TInv, TypeOK
  <2>3. hist' \in [Events -> History]
    BY <1>5, <2>1, <2>2 DEF ReplayHasRelays, TInv, TypeOK
  <2>4. CASE R = {}
    <3> DEFINE todo == [run.todo EXCEPT ![e] = None]
    <3>1. <<[kind |-> "remove", ev |-> e, by |-> p]>> \in Seq(Op)
      BY <2>1 DEF Op
    <3>2. rp' = [rp EXCEPT ![p] = [run EXCEPT !.pc = "dropping", !.todo = todo]]
      BY <1>0, <1>5, <2>4 DEF ReplayHasRelays, TInv, TypeOK, ReplayRun
    <3>3. [run EXCEPT !.pc = "dropping", !.todo = todo] \in ReplayRun
      BY <1>0 DEF ReplayRun, ReplayPcs
    <3>4. rp' \in [Replays -> ReplayRun] /\ ReplayShape'
      BY <1>0, <3>2, <3>3, ReplayUpdate DEF ReplayRun
    <3> QED BY <1>0, <1>5, <2>3, <2>4, <3>1, <3>4, QueueStep, QueueKeepsShape
            DEF ReplayHasRelays, Drop, TInv, TypeOK, Shape, LiveShape
  <2>5. CASE R # {}
    <3>1. <<SetOp(e, R, p)>> \in Seq(Op)
      BY <2>1, OpTypes DEF TInv
    <3>2. rp' = [rp EXCEPT ![p] = [run EXCEPT !.pc = "setting", !.relays = R]]
      BY <1>5, <2>5 DEF ReplayHasRelays, TInv, TypeOK, ReplayRun
    <3>3. [run EXCEPT !.pc = "setting", !.relays = R] \in ReplayRun
      BY <1>0, <2>1 DEF ReplayRun, ReplayPcs
    <3>4. rp' \in [Replays -> ReplayRun] /\ ReplayShape'
      BY <1>0, <2>1, <3>2, <3>3, ReplayUpdate DEF ReplayRun
    <3> QED BY <1>0, <1>5, <2>3, <2>5, <3>1, <3>4, QueueStep, QueueKeepsShape
            DEF ReplayHasRelays, TInv, TypeOK, Shape, LiveShape
  <2> QED BY <2>4, <2>5
<1>6. CASE ReplayCounts(p)
  <2> DEFINE e == run.ev
             entry == run.todo[e]
  <2>1. e \in Events /\ entry \in Entry /\ entry.attempts < MaxAttempts /\ run.relays \in SUBSET Urls
    BY <1>0, <1>6 DEF ReplayCounts, TInv, Shape, ReplayShape, ReplayRun
  <2>2. Queue(TabOf(p), <<[kind |-> "put", ev |-> e, by |-> p,
              entry |-> [entry EXCEPT !.attempts = @ + 1, !.pending = run.relays]]>>)
    BY <1>6 DEF ReplayCounts, Count
  <2>3. rp' = [rp EXCEPT ![p] = [run EXCEPT !.pc = "putting"]]
    BY <1>6 DEF ReplayCounts
  <2>4. [run EXCEPT !.pc = "putting"] \in ReplayRun
    BY <1>0 DEF ReplayRun, ReplayPcs
  <2>5. rp' \in [Replays -> ReplayRun] /\ ReplayShape'
    BY <1>0, <2>1, <2>3, <2>4, ReplayUpdate DEF ReplayRun
  <2> QED BY <1>0, <1>6, <2>1, <2>2, <2>5, CountType, QueueStep, QueueKeepsShape
          DEF ReplayCounts, TInv, TypeOK, Shape, LiveShape
<1>7. ASSUME NEW A \in SUBSET run.relays, ReplayPublishes(p, A) PROVE TInv'
  <2> DEFINE e == run.ev
             pc == IF run.relays = {} THEN "next" ELSE "mark"
             todo == [run.todo EXCEPT ![e] = None]
             new == [run EXCEPT !.pc = pc, !.results = run.relays, !.todo = todo]
  <2>1. e \in Events /\ run.relays \in SUBSET Urls
    BY <1>0, <1>7 DEF ReplayPublishes, TInv, Shape, ReplayShape, ReplayRun
  <2>2. NormalizeAll(run.relays) \in SUBSET Urls /\ NormalizeAll(A) \in SUBSET Urls
    BY <2>1, OpTypes DEF TInv
  <2>3. [hist[e] EXCEPT !.asked = @ \cup NormalizeAll(run.relays),
                        !.answered = @ \cup NormalizeAll(A)] \in History
    BY <2>1, <2>2, HistoryUpdates DEF TInv, TypeOK
  <2>4. hist' \in [Events -> History]
    BY <1>7, <2>1, <2>3 DEF ReplayPublishes, TInv, TypeOK
  <2>5. pc \in ReplayPcs /\ todo \in [Events -> {None} \cup Entry]
    BY <1>0 DEF ReplayRun, ReplayPcs
  <2>6. new \in ReplayRun
    BY <1>0, <2>1, <2>5 DEF ReplayRun
  <2>7. rp' = [rp EXCEPT ![p] = new]
    BY <1>0, <1>7 DEF ReplayPublishes, TInv, TypeOK, ReplayRun
  <2>8. new.pc \in {"next", "mark"} /\ new.ev = e
    BY <1>0 DEF ReplayRun
  <2>9. rp' \in [Replays -> ReplayRun] /\ ReplayShape'
    BY <2>1, <2>6, <2>7, <2>8, ReplayUpdate
  <2> QED BY <1>7, <2>4, <2>9 DEF ReplayPublishes, TInv, TypeOK, Shape, ChainShape, LiveShape
<1>8. CASE ReplayPublishThrows(p)
  <2> DEFINE todo == [run.todo EXCEPT ![run.ev] = None]
  <2>1. rp' = [rp EXCEPT ![p] = [run EXCEPT !.pc = "next", !.todo = todo]]
    BY <1>0, <1>8 DEF ReplayPublishThrows, TInv, TypeOK, ReplayRun
  <2>2. [run EXCEPT !.pc = "next", !.todo = todo] \in ReplayRun
    BY <1>0 DEF ReplayRun, ReplayPcs
  <2>3. rp' \in [Replays -> ReplayRun] /\ ReplayShape'
    BY <1>0, <2>1, <2>2, ReplayUpdate DEF ReplayRun
  <2> QED BY <1>8, <2>3 DEF ReplayPublishThrows, TInv, TypeOK, Shape, ChainShape, LiveShape
<1>9. ASSUME NEW r \in Urls, ReplayMarks(p, r) PROVE TInv'
  <2> DEFINE left == run.results \ {r}
  <2>1. run.ev \in Events /\ left \in SUBSET Urls
    BY <1>0, <1>9 DEF ReplayMarks, TInv, Shape, ReplayShape, ReplayRun
  <2>2. <<DoneOp(run.ev, r, p)>> \in Seq(Op)
    BY <2>1, OpTypes DEF TInv
  <2>3. rp' = [rp EXCEPT ![p] = [run EXCEPT !.pc = "marking", !.results = left]]
    BY <1>0, <1>9 DEF ReplayMarks, TInv, TypeOK, ReplayRun
  <2>4. [run EXCEPT !.pc = "marking", !.results = left] \in ReplayRun
    BY <1>0, <2>1 DEF ReplayRun, ReplayPcs
  <2>5. rp' \in [Replays -> ReplayRun] /\ ReplayShape'
    BY <1>0, <2>1, <2>3, <2>4, ReplayUpdate DEF ReplayRun
  <2> QED BY <1>0, <1>9, <2>2, <2>5, QueueStep, QueueKeepsShape
          DEF ReplayMarks, TInv, TypeOK, Shape, LiveShape
<1>10. CASE ReplayEnds(p)
  <2>1. IdleReplay \in ReplayRun /\ IdleReplay.pc = "idle"
    BY OutboxAssumption DEF IdleReplay, ReplayRun, ReplayPcs
  <2>2. rp' \in [Replays -> ReplayRun] /\ ReplayShape'
    BY <1>10, <2>1, ReplayUpdate DEF ReplayEnds
  <2> QED BY <1>10, <2>2 DEF ReplayEnds, TInv, TypeOK, Shape, ChainShape, LiveShape
<1> QED BY <1>1, <1>2, <1>3, <1>4, <1>5, <1>6, <1>7, <1>8, <1>9, <1>10 DEF ReplayStep

LEMMA CrashTInv ==
    ASSUME TInv, NEW t \in Tabs, Crash(t)
    PROVE  TInv'
<1>1. chain' \in [Tabs -> Seq(Op)] /\ got' \in [Tabs -> {None} \cup Entry]
  BY DEF Crash, TInv, TypeOK
<1>2. live' \in [Events -> LiveRun] /\ LiveShape'
  BY DEF Crash, TInv, TypeOK, Shape, LiveShape, LiveRun, LivePhases
<1>3. comp' \in [Events -> [tab : Tabs \cup {None}, relays : SUBSET Urls]]
  BY DEF Crash, TInv, TypeOK, NoCompanionRun
<1>4. rp' \in [Replays -> ReplayRun] /\ ReplayShape'
  <2>1. IdleReplay \in ReplayRun /\ IdleReplay.pc = "idle"
    BY OutboxAssumption DEF IdleReplay, ReplayRun, ReplayPcs
  <2>2. \A q \in Replays : rp'[q] = rp[q] \/ rp'[q] = IdleReplay
    BY DEF Crash
  <2>3. rp' \in [Replays -> ReplayRun]
    BY <2>1 DEF Crash, TInv, TypeOK
  <2> QED BY <2>1, <2>2, <2>3 DEF TInv, Shape, ReplayShape
<1>5. ChainShape'
  BY DEF Crash, TInv, TypeOK, Shape, ChainShape
<1>6. spent' \in [crashes : 0..MaxCrashes, failures : 0..MaxWriteFailures]
  <2>1. spent \in [crashes : 0..MaxCrashes, failures : 0..MaxWriteFailures]
    BY DEF TInv, TypeOK
  <2>2. spent.crashes + 1 \in 0..MaxCrashes
    BY <2>1, OutboxAssumption DEF Crash
  <2> QED BY <2>1, <2>2 DEF Crash
<1> QED BY <1>1, <1>2, <1>3, <1>4, <1>5, <1>6 DEF Crash, TInv, TypeOK, Shape

LEMMA NextTInv == TInv /\ [Next]_vars => TInv'
<1> SUFFICES ASSUME TInv, [Next]_vars PROVE TInv'
  OBVIOUS
<1>1. CASE UNCHANGED vars
  BY <1>1 DEF vars, TInv, TypeOK, Shape, ChainShape, ReplayShape, LiveShape
<1>2. CASE TimePasses
  <2>1. now' \in 0..MaxNow
    BY <1>2, OutboxAssumption DEF TimePasses, TInv, TypeOK
  <2> QED BY <1>2, <2>1 DEF TimePasses, TInv, TypeOK, Shape, ChainShape, ReplayShape, LiveShape
<1> QED BY <1>1, <1>2, ChainTInv, LiveTInv, ReplayTInv, CrashTInv DEF Next

\* Whatever the events, relays, tabs, replays and bounds: the state of the outbox
\* is well typed; in particular no stored entry has more than MaxAttempts attempts
\* and no write of a replay or of a publish is queued with a foreign shape.
THEOREM TypeCorrect == Spec => []TypeOK
<1>1. TInv => TypeOK
  BY DEF TInv
<1> QED BY InitTInv, NextTInv, <1>1, PTL DEF Spec
=============================================================================
