------------------------- MODULE PublishOutboxKeeps -------------------------
(***************************************************************************)
(* PublishOutbox keeps every unanswered relay of a publish that no replay  *)
(* has picked up yet, for any events, relays, tabs and bounds.             *)
(*                                                                         *)
(* LiveKeepsUnanswered is not inductive: a markRelayDone that runs before  *)
(* the relay set is recorded would delete the entry.  The strengthening    *)
(* says what the serial chain guarantees: for an event on its own (Alone)  *)
(* every queued write is of its one tab, the enqueue comes before the      *)
(* setPendingRelays, and that before every markRelayDone.                  *)
(***************************************************************************)
EXTENDS PublishOutboxProofs

\* No replay has listed e, it is no companion, and no write of it was rejected.
Alone(e) == ~hist[e].shared /\ ~hist[e].faulty

Idx == Nat \ {0}

\* The i-th operation of t's chain is of kind k and concerns e.
OpAt(t, i, e, k) ==
    i \in 1..Len(chain[t]) /\ chain[t][i].kind = k /\ chain[t][i].ev = e

EntryKinds == {"put", "set", "done", "remove"}

\* The relay set of e is in its entry, or the entry is gone again.
Recorded(e) == hist[e].durable /\ (store[e] = None \/ store[e].pending # None)

\* Replays and companions only concern events that are marked as shared.
MarkedChain ==
    \A t \in Tabs : \A i \in 1..Len(chain[t]) :
        chain[t][i].kind # "list" /\ chain[t][i].by # None => hist[chain[t][i].ev].shared
MarkedReplays ==
    \A p \in Replays :
        /\ rp[p].ev # None => hist[rp[p].ev].shared
        /\ \A e \in Events : rp[p].todo[e] # None => hist[e].shared
MarkedCompanions == \A e \in Events : comp[e].tab # None => hist[e].shared

SharedMarked == MarkedChain /\ MarkedReplays /\ MarkedCompanions

\* One tab writes e, and what its chain still holds is what it should be.
OwnTab(e) ==
    \A t \in Tabs, i \in Idx, k \in EntryKinds : OpAt(t, i, e, k) => live[e].tab = t
OwnPut(e) ==
    \A t \in Tabs, i \in Idx : OpAt(t, i, e, "put") =>
        /\ ~hist[e].durable /\ chain[t][i].entry.pending = None
        /\ \A j \in Idx : OpAt(t, j, e, "put") => j = i
OwnSet(e) ==
    \A t \in Tabs, j \in Idx : OpAt(t, j, e, "set") =>
        /\ hist[e].target # None /\ chain[t][j].relays = hist[e].target
        /\ hist[e].durable \/ \E i \in Idx : i < j /\ OpAt(t, i, e, "put")
OwnDone(e) ==
    \A t \in Tabs, j \in Idx : OpAt(t, j, e, "done") =>
        /\ hist[e].target # None /\ chain[t][j].relay \in hist[e].answered
        /\ Recorded(e) \/ \E i \in Idx : i < j /\ OpAt(t, i, e, "set")
OwnRead(e) ==
    \A t \in Tabs : (got[t] # None /\ Head(chain[t]).ev = e) => got[t] = store[e]
OwnPhase(e) ==
    /\ live[e].phase = "new" => live[e].tab = None /\ ~hist[e].durable /\ hist[e].target = None
    /\ live[e].phase = "computing" =>
          /\ hist[e].target = None
          /\ hist[e].durable \/ \E i \in Idx : OpAt(live[e].tab, i, e, "put")
    /\ live[e].phase = "fanout" =>
          /\ hist[e].target # None
          /\ Recorded(e) \/ \E i \in Idx : OpAt(live[e].tab, i, e, "set")
Kept(e) ==
    IF hist[e].durable
    THEN \/ store[e] = None /\ hist[e].target # None /\ hist[e].target \subseteq hist[e].answered
         \/ store[e] # None /\ (\/ store[e].pending = None
                                \/ /\ hist[e].target # None
                                   /\ hist[e].target \ hist[e].answered \subseteq store[e].pending)
    ELSE store[e] = None

Solo(e) ==
    /\ OwnTab(e) /\ OwnPut(e) /\ OwnSet(e) /\ OwnDone(e) /\ OwnRead(e) /\ OwnPhase(e) /\ Kept(e)

KInv == TInv /\ SharedMarked /\ \A e \in Events : Alone(e) => Solo(e)

----------------------------------------------------------------------------
(* Popping and pushing operations. *)

\* How far the operations of tab u move when the head of tab t's chain goes.
Shift(u, t) == IF u = t THEN 1 ELSE 0

LEMMA PopOps ==
    ASSUME TInv, NEW t \in Tabs, chain[t] # <<>>, chain' = [chain EXCEPT ![t] = Tail(@)]
    PROVE  \A u \in Tabs, i \in Idx, e \in Events, k \in EntryKinds :
              /\ OpAt(u, i, e, k)' <=> OpAt(u, i + Shift(u, t), e, k)
              /\ OpAt(u, i, e, k)' => chain'[u][i] = chain[u][i + Shift(u, t)]
<1>1. \A u \in Tabs : chain[u] \in Seq(Op) /\ (u # t => chain'[u] = chain[u])
  BY DEF TInv, TypeOK
<1>2. chain'[t] = Tail(chain[t])
  BY DEF TInv, TypeOK
<1>3. Len(chain[t]) \in Nat /\ Len(Tail(chain[t])) = Len(chain[t]) - 1
  BY <1>1, LenProperties, HeadTailProperties
<1>4. \A i \in 1..Len(Tail(chain[t])) : Tail(chain[t])[i] = chain[t][i + 1]
  BY <1>1, HeadTailProperties
<1>5. \A u \in Tabs : Len(chain[u]) \in Nat
  BY <1>1, LenProperties
<1> SUFFICES ASSUME NEW u \in Tabs, NEW i \in Idx, NEW e \in Events, NEW k \in EntryKinds
             PROVE  /\ OpAt(u, i, e, k)' <=> OpAt(u, i + Shift(u, t), e, k)
                    /\ OpAt(u, i, e, k)' => chain'[u][i] = chain[u][i + Shift(u, t)]
  OBVIOUS
<1>6. CASE u # t
  <2>1. i + Shift(u, t) = i
    BY <1>6 DEF Shift, Idx
  <2> QED BY <1>1, <1>6, <2>1 DEF OpAt
<1>7. CASE u = t
  <2>1. i + Shift(u, t) = i + 1
    BY <1>7 DEF Shift, Idx
  <2>2. i \in 1..Len(chain'[t]) <=> i + 1 \in 1..Len(chain[t])
    <3>1. Len(chain'[t]) = Len(chain[t]) - 1
      BY <1>2, <1>3
    <3> QED BY <1>3, <3>1 DEF Idx
  <2>3. i \in 1..Len(chain'[t]) => chain'[t][i] = chain[t][i + 1]
    BY <1>2, <1>4
  <2> QED BY <1>7, <2>1, <2>2, <2>3 DEF OpAt
<1> QED BY <1>6, <1>7

LEMMA PushOps ==
    ASSUME TInv, NEW t \in Tabs, NEW ops \in Seq(Op), Queue(t, ops)
    PROVE  \A u \in Tabs, i \in Idx, e \in Events, k \in EntryKinds :
              /\ OpAt(u, i, e, k) => OpAt(u, i, e, k)' /\ chain'[u][i] = chain[u][i]
              /\ OpAt(u, i, e, k)' =>
                    \/ OpAt(u, i, e, k) /\ chain'[u][i] = chain[u][i]
                    \/ /\ u = t /\ ~OpAt(u, i, e, k)
                       /\ \E n \in 1..Len(ops) : /\ i = Len(chain[t]) + n /\ chain'[t][i] = ops[n]
                                                 /\ ops[n].kind = k /\ ops[n].ev = e
<1>1. \A u \in Tabs : chain[u] \in Seq(Op) /\ (u # t => chain'[u] = chain[u])
  BY DEF Queue, TInv, TypeOK
<1>2. chain'[t] = chain[t] \o ops
  BY DEF Queue, TInv, TypeOK
<1>3. /\ Len(chain[t]) \in Nat /\ Len(ops) \in Nat
      /\ Len(chain'[t]) = Len(chain[t]) + Len(ops)
      /\ \A i \in 1..(Len(chain[t]) + Len(ops)) :
            chain'[t][i] = IF i <= Len(chain[t]) THEN chain[t][i] ELSE ops[i - Len(chain[t])]
  BY <1>1, <1>2, LenProperties, ConcatProperties
<1>4. \A u \in Tabs : Len(chain[u]) \in Nat
  BY <1>1, LenProperties
<1> SUFFICES ASSUME NEW u \in Tabs, NEW i \in Idx, NEW e \in Events, NEW k \in EntryKinds
             PROVE  /\ OpAt(u, i, e, k) => OpAt(u, i, e, k)' /\ chain'[u][i] = chain[u][i]
                    /\ OpAt(u, i, e, k)' =>
                          \/ OpAt(u, i, e, k) /\ chain'[u][i] = chain[u][i]
                          \/ /\ u = t /\ ~OpAt(u, i, e, k)
                             /\ \E n \in 1..Len(ops) : /\ i = Len(chain[t]) + n /\ chain'[t][i] = ops[n]
                                                       /\ ops[n].kind = k /\ ops[n].ev = e
  OBVIOUS
<1>5. CASE u # t
  BY <1>1, <1>5 DEF OpAt
<1>6. CASE u = t /\ i <= Len(chain[t])
  BY <1>3, <1>6 DEF OpAt, Idx
<1>7. CASE u = t /\ ~(i <= Len(chain[t]))
  <2>1. ~OpAt(t, i, e, k)
    BY <1>3, <1>7 DEF OpAt, Idx
  <2>2. ASSUME OpAt(t, i, e, k)'
        PROVE  \E n \in 1..Len(ops) : /\ i = Len(chain[t]) + n /\ chain'[t][i] = ops[n]
                                      /\ ops[n].kind = k /\ ops[n].ev = e
    <3> DEFINE n == i - Len(chain[t])
    <3>1. i \in 1..(Len(chain[t]) + Len(ops)) /\ chain'[t][i].kind = k /\ chain'[t][i].ev = e
      BY <1>3, <2>2 DEF OpAt
    <3>2. n \in 1..Len(ops) /\ i = Len(chain[t]) + n
      BY <1>3, <1>7, <3>1 DEF Idx
    <3>3. chain'[t][i] = ops[n]
      BY <1>3, <1>7, <3>1
    <3> QED BY <3>1, <3>2, <3>3
  <2> QED BY <1>7, <2>1, <2>2
<1> QED BY <1>5, <1>6, <1>7

\* The head of a chain that is not a listing is its first operation.
LEMMA HeadOp ==
    ASSUME TInv, NEW t \in Tabs, chain[t] # <<>>, Head(chain[t]).kind # "list"
    PROVE  /\ Head(chain[t]) \in Op /\ Head(chain[t]) = chain[t][1]
           /\ Head(chain[t]).ev \in Events /\ Head(chain[t]).kind \in EntryKinds
           /\ 1 \in Idx /\ 1 \in 1..Len(chain[t])
           /\ OpAt(t, 1, Head(chain[t]).ev, Head(chain[t]).kind)
<1>1. chain[t] \in Seq(Op) /\ Len(chain[t]) \in Nat /\ Len(chain[t]) # 0
  BY EmptySeq, LenProperties DEF TInv, TypeOK
<1>2. Head(chain[t]) \in Op /\ Head(chain[t]) = chain[t][1]
  BY <1>1, HeadTailProperties
<1>3. Head(chain[t]).ev \in Events /\ Head(chain[t]).kind \in EntryKinds
  BY <1>2 DEF Op, EntryKinds
<1> QED BY <1>1, <1>2, <1>3 DEF OpAt, Idx

----------------------------------------------------------------------------
(* Steps that do not concern an event keep what Solo says of it. *)

Untouched(e) ==
    /\ store'[e] = store[e] /\ live'[e] = live[e]
    /\ hist'[e].durable = hist[e].durable /\ hist'[e].target = hist[e].target
    /\ hist'[e].answered = hist[e].answered

LEMMA StayKeepsSolo ==
    ASSUME TInv, NEW e \in Events, Solo(e), Untouched(e), UNCHANGED <<chain, got>>
    PROVE  Solo(e)'
  BY DEF Solo, Untouched, OwnTab, OwnPut, OwnSet, OwnDone, OwnRead, OwnPhase, Kept, OpAt, Recorded

LEMMA PopKeepsSolo ==
    ASSUME TInv, NEW e \in Events, Solo(e), Untouched(e), NEW t \in Tabs, chain[t] # <<>>,
           chain' = [chain EXCEPT ![t] = Tail(@)], got' = [got EXCEPT ![t] = None],
           Head(chain[t]).kind = "list" \/ Head(chain[t]).ev # e
    PROVE  Solo(e)'
<1>1. \A u \in Tabs, i \in Idx, k \in EntryKinds :
         /\ OpAt(u, i, e, k)' <=> OpAt(u, i + Shift(u, t), e, k)
         /\ OpAt(u, i, e, k)' => chain'[u][i] = chain[u][i + Shift(u, t)]
  BY PopOps
<1>2. \A k \in EntryKinds : ~OpAt(t, 1, e, k)
  BY HeadTailProperties DEF OpAt, TInv, TypeOK, EntryKinds
<1>3. \A u \in Tabs, i \in Idx, k \in EntryKinds : OpAt(u, i, e, k) =>
         i - Shift(u, t) \in Idx /\ OpAt(u, i - Shift(u, t), e, k)'
  BY <1>1, <1>2 DEF Shift, Idx
<1>4. \A u \in Tabs, i \in Idx : i + Shift(u, t) \in Idx
  BY DEF Shift, Idx
<1>5. Recorded(e)' <=> Recorded(e)
  BY DEF Untouched, Recorded
<1>6. "put" \in EntryKinds /\ "set" \in EntryKinds /\ "done" \in EntryKinds
  BY DEF EntryKinds
<1>7. OwnTab(e)'
  BY <1>1, <1>4 DEF Solo, OwnTab, Untouched
<1>8. OwnPut(e)'
  <2> SUFFICES ASSUME NEW u \in Tabs, NEW i \in Idx, OpAt(u, i, e, "put")'
               PROVE  /\ ~hist'[e].durable /\ chain'[u][i].entry.pending = None
                      /\ \A j \in Idx : OpAt(u, j, e, "put")' => j = i
    BY DEF OwnPut
  <2>1. OpAt(u, i + Shift(u, t), e, "put") /\ chain'[u][i] = chain[u][i + Shift(u, t)]
    BY <1>1, <1>6
  <2>2. /\ ~hist[e].durable /\ chain[u][i + Shift(u, t)].entry.pending = None
        /\ \A j \in Idx : OpAt(u, j, e, "put") => j = i + Shift(u, t)
    BY <1>4, <2>1 DEF Solo, OwnPut
  <2>3. ASSUME NEW j \in Idx, OpAt(u, j, e, "put")'
        PROVE  j = i
    <3>1. OpAt(u, j + Shift(u, t), e, "put")
      BY <1>1, <1>6, <2>3
    <3>2. j + Shift(u, t) = i + Shift(u, t)
      BY <1>4, <2>2, <3>1
    <3> QED BY <3>2 DEF Shift, Idx
  <2> QED BY <2>1, <2>2, <2>3 DEF Untouched
<1>9. OwnSet(e)'
  <2> SUFFICES ASSUME NEW u \in Tabs, NEW j \in Idx, OpAt(u, j, e, "set")'
               PROVE  /\ hist'[e].target # None /\ chain'[u][j].relays = hist'[e].target
                      /\ hist'[e].durable \/ \E i \in Idx : i < j /\ OpAt(u, i, e, "put")'
    BY DEF OwnSet
  <2>1. OpAt(u, j + Shift(u, t), e, "set") /\ chain'[u][j] = chain[u][j + Shift(u, t)]
    BY <1>1, <1>6
  <2>4. hist[e].target # None /\ chain[u][j + Shift(u, t)].relays = hist[e].target
    BY <1>4, <2>1 DEF Solo, OwnSet
  <2>2. CASE hist[e].durable
    BY <2>1, <2>2, <2>4 DEF Untouched
  <2>3. CASE ~hist[e].durable
    <3>1. PICK i \in Idx : i < j + Shift(u, t) /\ OpAt(u, i, e, "put")
      BY <1>4, <2>1, <2>3 DEF Solo, OwnSet
    <3>2. i - Shift(u, t) \in Idx /\ i - Shift(u, t) < j /\ OpAt(u, i - Shift(u, t), e, "put")'
      BY <1>3, <1>6, <3>1 DEF Shift, Idx
    <3> QED BY <2>1, <2>4, <3>2 DEF Untouched
  <2> QED BY <2>2, <2>3
<1>10. OwnDone(e)'
  <2> SUFFICES ASSUME NEW u \in Tabs, NEW j \in Idx, OpAt(u, j, e, "done")'
               PROVE  /\ hist'[e].target # None /\ chain'[u][j].relay \in hist'[e].answered
                      /\ Recorded(e)' \/ \E i \in Idx : i < j /\ OpAt(u, i, e, "set")'
    BY DEF OwnDone
  <2>1. OpAt(u, j + Shift(u, t), e, "done") /\ chain'[u][j] = chain[u][j + Shift(u, t)]
    BY <1>1, <1>6
  <2>2. CASE Recorded(e)
    BY <1>4, <1>5, <2>1, <2>2 DEF Solo, OwnDone, Untouched
  <2>3. CASE ~Recorded(e)
    <3>1. PICK i \in Idx : i < j + Shift(u, t) /\ OpAt(u, i, e, "set")
      BY <1>4, <2>1, <2>3 DEF Solo, OwnDone
    <3>2. i - Shift(u, t) \in Idx /\ i - Shift(u, t) < j /\ OpAt(u, i - Shift(u, t), e, "set")'
      BY <1>3, <1>6, <3>1 DEF Shift, Idx
    <3> QED BY <1>4, <2>1, <3>2 DEF Solo, OwnDone, Untouched
  <2> QED BY <2>2, <2>3
<1>11. OwnRead(e)'
  BY DEF Solo, OwnRead, Untouched, TInv, TypeOK
<1>12. OwnPhase(e)'
  <2>1. ASSUME NEW own \in Tabs, NEW k \in EntryKinds, \E i \in Idx : OpAt(own, i, e, k)
        PROVE  \E i \in Idx : OpAt(own, i, e, k)'
    <3>1. PICK i \in Idx : OpAt(own, i, e, k)
      BY <2>1
    <3> QED BY <1>3, <3>1
  <2>2. live'[e] = live[e] /\ (live[e].phase \in {"computing", "fanout"} => live[e].tab \in Tabs)
    BY DEF Untouched, TInv, Shape, LiveShape
  <2>3. \A own \in Tabs : /\ (\E i \in Idx : OpAt(own, i, e, "put")) => \E i \in Idx : OpAt(own, i, e, "put")'
                          /\ (\E i \in Idx : OpAt(own, i, e, "set")) => \E i \in Idx : OpAt(own, i, e, "set")'
    BY <1>6, <2>1
  <2> QED BY <1>5, <2>2, <2>3 DEF Solo, OwnPhase, Untouched, OpAt
<1>13. Kept(e)'
  BY DEF Solo, Kept, Untouched
<1> QED BY <1>7, <1>8, <1>9, <1>10, <1>11, <1>12, <1>13 DEF Solo

LEMMA PushKeepsSolo ==
    ASSUME TInv, NEW e \in Events, Solo(e), Untouched(e), NEW t \in Tabs, NEW ops \in Seq(Op),
           Queue(t, ops), got' = got,
           \A n \in 1..Len(ops) : ops[n].kind = "list" \/ ops[n].ev # e
    PROVE  Solo(e)'
<1>1. \A u \in Tabs, i \in Idx, k \in EntryKinds :
         /\ OpAt(u, i, e, k)' <=> OpAt(u, i, e, k)
         /\ OpAt(u, i, e, k)' => chain'[u][i] = chain[u][i]
  BY PushOps DEF EntryKinds
<1>2. \A u \in Tabs : chain[u] # <<>> => Head(chain'[u]) = Head(chain[u])
  BY QueueStep
<1>3. OwnRead(e)'
  BY <1>2 DEF Solo, OwnRead, Untouched, TInv, Shape, ChainShape
<1>4. Recorded(e)' <=> Recorded(e)
  BY DEF Untouched, Recorded
<1>5. "put" \in EntryKinds /\ "set" \in EntryKinds /\ "done" \in EntryKinds
  BY DEF EntryKinds
<1>6. OwnTab(e)' /\ OwnPut(e)' /\ OwnSet(e)'
  BY <1>1, <1>5 DEF Solo, OwnTab, OwnPut, OwnSet, Untouched
<1>7. OwnDone(e)'
  BY <1>1, <1>4, <1>5 DEF Solo, OwnDone, Untouched
<1>8. OwnPhase(e)'
  BY <1>1, <1>4, <1>5 DEF Solo, OwnPhase, Untouched, TInv, Shape, LiveShape
<1>9. Kept(e)'
  BY DEF Solo, Kept, Untouched
<1> QED BY <1>3, <1>6, <1>7, <1>8, <1>9 DEF Solo

\* The step that completes the head of the chain when that head is e's own: the
\* enqueue, or a write that leaves the relay set recorded.
LEMMA PopOwn ==
    ASSUME TInv, NEW e \in Events, Solo(e), NEW t \in Tabs, chain[t] # <<>>,
           chain' = [chain EXCEPT ![t] = Tail(@)], got' = [got EXCEPT ![t] = None],
           Head(chain[t]).kind # "list", Head(chain[t]).ev = e,
           live'[e] = live[e], hist'[e].target = hist[e].target,
           hist'[e].answered = hist[e].answered, hist'[e].durable,
           (hist[e].durable /\ Recorded(e)') \/ Head(chain[t]).kind = "put",
           Kept(e)'
    PROVE  Solo(e)'
<1>1. \A u \in Tabs, i \in Idx, k \in EntryKinds :
         /\ OpAt(u, i, e, k)' <=> OpAt(u, i + Shift(u, t), e, k)
         /\ OpAt(u, i, e, k)' => chain'[u][i] = chain[u][i + Shift(u, t)]
  BY PopOps
<1>2. 1 \in Idx /\ Head(chain[t]).kind \in EntryKinds /\ OpAt(t, 1, e, Head(chain[t]).kind)
  BY HeadOp
<1>3. live[e].tab = t
  BY <1>2 DEF Solo, OwnTab
<1>4. "put" \in EntryKinds /\ "set" \in EntryKinds /\ "done" \in EntryKinds
  BY DEF EntryKinds
<1>5. \A u \in Tabs, i \in Idx, k \in EntryKinds : OpAt(u, i, e, k) => u = t
  BY <1>3 DEF Solo, OwnTab
<1>6. \A u \in Tabs, i \in Idx, k \in EntryKinds : OpAt(u, i, e, k)' =>
         /\ u = t /\ i + 1 \in Idx /\ OpAt(t, i + 1, e, k) /\ chain'[u][i] = chain[t][i + 1]
  <2> SUFFICES ASSUME NEW u \in Tabs, NEW i \in Idx, NEW k \in EntryKinds, OpAt(u, i, e, k)'
               PROVE  /\ u = t /\ i + 1 \in Idx /\ OpAt(t, i + 1, e, k)
                      /\ chain'[u][i] = chain[t][i + 1]
    OBVIOUS
  <2>1. i + Shift(u, t) \in Idx /\ i + 1 \in Idx /\ (u = t => i + Shift(u, t) = i + 1)
    BY DEF Shift, Idx
  <2>2. OpAt(u, i + Shift(u, t), e, k) /\ chain'[u][i] = chain[u][i + Shift(u, t)]
    BY <1>1
  <2>3. u = t
    BY <1>5, <2>1, <2>2
  <2> QED BY <2>1, <2>2, <2>3
<1>7. \A i \in Idx : ~OpAt(t, i, e, "put")'
  BY <1>2, <1>4, <1>6 DEF Solo, OwnPut, Idx
<1>8. OwnTab(e)' /\ OwnPut(e)'
  BY <1>3, <1>6, <1>7, <1>4 DEF OwnTab, OwnPut
<1>9. OwnSet(e)'
  <2> SUFFICES ASSUME NEW u \in Tabs, NEW j \in Idx, OpAt(u, j, e, "set")'
               PROVE  /\ hist'[e].target # None /\ chain'[u][j].relays = hist'[e].target
                      /\ hist'[e].durable
    BY DEF OwnSet
  <2>1. j + 1 \in Idx /\ OpAt(t, j + 1, e, "set") /\ chain'[u][j] = chain[t][j + 1]
    BY <1>4, <1>6
  <2>2. hist[e].target # None /\ chain[t][j + 1].relays = hist[e].target
    BY <2>1 DEF Solo, OwnSet
  <2> QED BY <2>1, <2>2
<1>10. ASSUME Head(chain[t]).kind = "put"
       PROVE  /\ ~Recorded(e)
              /\ \A i \in Idx : OpAt(t, i, e, "set") => i - 1 \in Idx /\ OpAt(t, i - 1, e, "set")'
  <2>1. ~Recorded(e)
    BY <1>2, <1>4, <1>10 DEF Solo, OwnPut, Recorded
  <2>2. ~OpAt(t, 1, e, "set")
    BY <1>2, <1>10 DEF OpAt
  <2> QED BY <1>1, <1>4, <2>1, <2>2 DEF Shift, Idx
<1>11. OwnDone(e)'
  <2> SUFFICES ASSUME NEW u \in Tabs, NEW j \in Idx, OpAt(u, j, e, "done")'
               PROVE  /\ hist'[e].target # None /\ chain'[u][j].relay \in hist'[e].answered
                      /\ Recorded(e)' \/ \E i \in Idx : i < j /\ OpAt(u, i, e, "set")'
    BY DEF OwnDone
  <2>1. u = t /\ j + 1 \in Idx /\ OpAt(t, j + 1, e, "done") /\ chain'[u][j] = chain[t][j + 1]
    BY <1>4, <1>6
  <2>2. /\ hist[e].target # None /\ chain[t][j + 1].relay \in hist[e].answered
        /\ Recorded(e) \/ \E i \in Idx : i < j + 1 /\ OpAt(t, i, e, "set")
    BY <2>1 DEF Solo, OwnDone
  <2>3. CASE Head(chain[t]).kind = "put"
    <3>1. PICK i \in Idx : i < j + 1 /\ OpAt(t, i, e, "set")
      BY <1>10, <2>2, <2>3
    <3>2. i - 1 \in Idx /\ i - 1 < j /\ OpAt(t, i - 1, e, "set")'
      BY <1>10, <2>3, <3>1 DEF Idx
    <3> QED BY <2>1, <2>2, <3>2
  <2> QED BY <2>1, <2>2, <2>3
<1>12. OwnRead(e)'
  <2>1. \A u \in Tabs : u # t => chain'[u] = chain[u] /\ got'[u] = got[u]
    BY DEF TInv, TypeOK
  <2>2. got'[t] = None
    BY DEF TInv, TypeOK
  <2>3. ASSUME NEW u \in Tabs, got[u] # None, Head(chain[u]).ev = e
        PROVE  u = t
    <3>1. chain[u] # <<>> /\ Head(chain[u]).kind # "list"
      BY <2>3 DEF TInv, Shape, ChainShape
    <3> QED BY <1>5, <2>3, <3>1, HeadOp
  <2> QED BY <2>1, <2>2, <2>3 DEF OwnRead
<1>13. OwnPhase(e)'
  <2>1. live[e].phase # "new"
    BY <1>3, OutboxAssumption DEF Solo, OwnPhase
  <2>2. live[e].phase = "computing" => hist[e].target = None
    BY DEF Solo, OwnPhase
  <2>3. live[e].phase = "fanout" =>
          hist[e].target # None /\ (Recorded(e) \/ \E i \in Idx : OpAt(t, i, e, "set"))
    BY <1>3 DEF Solo, OwnPhase
  <2>4. live[e].phase = "fanout" => Recorded(e)' \/ \E i \in Idx : OpAt(t, i, e, "set")'
    BY <1>10, <2>3
  <2> QED BY <1>3, <2>1, <2>2, <2>3, <2>4 DEF OwnPhase, OpAt
<1> QED BY <1>8, <1>9, <1>11, <1>12, <1>13 DEF Solo

----------------------------------------------------------------------------
(* Solo is kept by every step, for the events that are alone after it. *)

\* A step of a tab's chain.
LEMMA ChainSolo ==
    ASSUME KInv, NEW t \in Tabs, ChainStep(t) \/ WriteFails(t), NEW e \in Events, Alone(e)'
    PROVE  Solo(e)'
<1>1. TInv /\ hist \in [Events -> History] /\ store \in [Events -> {None} \cup Entry]
  BY DEF KInv, TInv, TypeOK
<1>2. CASE ExecPut(t)
  <2>1. /\ chain[t] # <<>> /\ Head(chain[t]) \in Op /\ Head(chain[t]).kind = "put"
        /\ Head(chain[t]).ev \in Events /\ Head(chain[t]).entry \in Entry
        /\ Head(chain[t]).kind # "list"
    BY <1>1, <1>2, HeadOp DEF ExecPut, Op
  <2> DEFINE o == Head(chain[t]).ev
  <2>2. /\ hist' = [hist EXCEPT ![o] = [hist[o] EXCEPT !.durable = TRUE]]
        /\ store' = [store EXCEPT ![o] = Head(chain[t]).entry] /\ live' = live
        /\ chain' = [chain EXCEPT ![t] = Tail(@)] /\ got' = [got EXCEPT ![t] = None]
    BY <1>1, <1>2, <2>1 DEF ExecPut, Complete, History
  <2>3. /\ hist'[e].shared = hist[e].shared /\ hist'[e].faulty = hist[e].faulty
        /\ hist'[e].target = hist[e].target /\ hist'[e].answered = hist[e].answered
        /\ hist'[e].durable = IF e = o THEN TRUE ELSE hist[e].durable
        /\ store'[e] = IF e = o THEN Head(chain[t]).entry ELSE store[e]
    BY <1>1, <2>1, <2>2 DEF History
  <2>4. Solo(e)
    BY <2>3 DEF KInv, Alone
  <2>5. CASE e = o
    <3>1. OpAt(t, 1, e, "put") /\ 1 \in Idx /\ Head(chain[t]) = chain[t][1]
      BY <1>1, <2>1, <2>5, HeadOp
    <3>2. store'[e] = Head(chain[t]).entry /\ store'[e].pending = None
      BY <2>3, <2>4, <2>5, <3>1 DEF Solo, OwnPut
    <3>3. store'[e] # None
      BY <2>1, <3>2, OutboxAssumption
    <3>4. Kept(e)'
      BY <2>3, <2>5, <3>2, <3>3 DEF Kept
    <3> QED BY <1>1, <2>1, <2>2, <2>3, <2>4, <2>5, <3>4, PopOwn
  <2>6. CASE e # o
    <3>1. Untouched(e)
      BY <2>2, <2>3, <2>6 DEF Untouched
    <3> QED BY <1>1, <2>1, <2>2, <2>4, <2>6, <3>1, PopKeepsSolo
  <2> QED BY <2>5, <2>6
<1>3. CASE ExecRemove(t)
  <2>1. /\ chain[t] # <<>> /\ Head(chain[t]) \in Op /\ Head(chain[t]).kind = "remove"
        /\ Head(chain[t]) = chain[t][1] /\ 1 \in 1..Len(chain[t])
        /\ Head(chain[t]).ev \in Events /\ Head(chain[t]).by \in Replays
    BY <1>1, <1>3, HeadOp DEF ExecRemove, Op
  <2>2. /\ store' = [store EXCEPT ![Head(chain[t]).ev] = None] /\ live' = live /\ hist' = hist
        /\ chain' = [chain EXCEPT ![t] = Tail(@)] /\ got' = [got EXCEPT ![t] = None]
    BY <1>3 DEF ExecRemove, Complete
  <2>3. Solo(e)
    BY <2>2 DEF KInv, Alone
  <2>4. hist[Head(chain[t]).ev].shared
    BY <2>1, OutboxAssumption DEF KInv, SharedMarked, MarkedChain
  <2>5. Head(chain[t]).ev # e
    BY <2>2, <2>4 DEF Alone
  <2>6. Untouched(e)
    BY <1>1, <2>2, <2>5 DEF Untouched
  <2> QED BY <1>1, <2>1, <2>2, <2>3, <2>5, <2>6, PopKeepsSolo
<1>4. CASE ExecList(t)
  <2>1. hist' = [f \in Events |-> [hist[f] EXCEPT !.shared = @ \/ store[f] # None]]
    BY <1>4 DEF ExecList
  <2>2. /\ hist'[e].durable = hist[e].durable /\ hist'[e].target = hist[e].target
        /\ hist'[e].answered = hist[e].answered /\ hist'[e].faulty = hist[e].faulty
        /\ (hist[e].shared => hist'[e].shared)
    BY <1>1, <2>1 DEF History
  <2>3. Solo(e)
    BY <2>2 DEF KInv, Alone
  <2>4. got[t] = None
    BY <1>1, <1>4 DEF TInv, Shape, ChainShape, ExecList
  <2>5. /\ chain[t] # <<>> /\ chain' = [chain EXCEPT ![t] = Tail(@)] /\ got' = [got EXCEPT ![t] = None]
        /\ Head(chain[t]).kind = "list"
    BY <1>1, <1>4, <2>4 DEF ExecList, TInv, TypeOK
  <2>6. Untouched(e)
    BY <1>4, <2>2 DEF ExecList, Untouched
  <2> QED BY <1>1, <2>3, <2>5, <2>6, PopKeepsSolo
<1>5. CASE ReadEntry(t)
  <2>1. /\ chain[t] # <<>> /\ Head(chain[t]) \in Op /\ Head(chain[t]).kind \in {"set", "done"}
        /\ Head(chain[t]) = chain[t][1] /\ 1 \in Idx /\ Head(chain[t]).kind # "list"
        /\ Head(chain[t]).ev \in Events
        /\ OpAt(t, 1, Head(chain[t]).ev, Head(chain[t]).kind)
    BY <1>1, <1>5, HeadOp DEF ReadEntry
  <2>2. Untouched(e) /\ Solo(e) /\ hist' = hist /\ store' = store /\ live' = live
    BY <1>5 DEF ReadEntry, Untouched, KInv, Alone
  <2>3. CASE Complete(t) /\ store[Head(chain[t]).ev] = None
    <3>1. chain' = [chain EXCEPT ![t] = Tail(@)] /\ got' = [got EXCEPT ![t] = None]
      BY <2>3 DEF Complete
    <3>2. CASE Head(chain[t]).ev = e
      <4>1. hist[e].durable
        BY <2>1, <2>2, <3>2 DEF Solo, OwnSet, OwnDone, Recorded, Idx
      <4>2. Recorded(e)' /\ Kept(e)'
        BY <2>2, <2>3, <3>2, <4>1 DEF Solo, Kept, Recorded
      <4> QED BY <1>1, <2>1, <2>2, <3>1, <3>2, <4>1, <4>2, PopOwn
    <3>3. CASE Head(chain[t]).ev # e
      BY <1>1, <2>1, <2>2, <3>1, <3>3, PopKeepsSolo
    <3> QED BY <3>2, <3>3
  <2>4. CASE got' = [got EXCEPT ![t] = store[Head(chain[t]).ev]] /\ chain' = chain
    <3>1. OwnRead(e)'
      BY <1>1, <2>2, <2>4 DEF Solo, OwnRead, TInv, TypeOK
    <3>2. OwnTab(e)' /\ OwnPut(e)' /\ OwnSet(e)' /\ OwnDone(e)' /\ OwnPhase(e)' /\ Kept(e)'
      BY <2>2, <2>4 DEF Solo, OwnTab, OwnPut, OwnSet, OwnDone, OwnPhase, Kept, OpAt, Recorded
    <3> QED BY <3>1, <3>2 DEF Solo
  <2> QED BY <1>5, <2>3, <2>4 DEF ReadEntry
<1>6. CASE WriteEntry(t)
  <2>1. /\ chain[t] # <<>> /\ Head(chain[t]).kind \in {"set", "done"} /\ Head(chain[t]).kind # "list"
    BY <1>1, <1>6 DEF WriteEntry, TInv, Shape, ChainShape
  <2>2. /\ Head(chain[t]) \in Op /\ Head(chain[t]) = chain[t][1] /\ 1 \in Idx
        /\ Head(chain[t]).ev \in Events
        /\ OpAt(t, 1, Head(chain[t]).ev, Head(chain[t]).kind)
    BY <1>1, <2>1, HeadOp
  <2>3. /\ live' = live /\ hist' = hist
        /\ chain' = [chain EXCEPT ![t] = Tail(@)] /\ got' = [got EXCEPT ![t] = None]
    BY <1>6 DEF WriteEntry, Complete
  <2>4. Solo(e)
    BY <2>3 DEF KInv, Alone
  <2>5. CASE Head(chain[t]).ev = e
    <3>1. got[t] = store[e] /\ store[e] # None /\ store[e] \in Entry
      BY <1>1, <1>6, <2>4, <2>5 DEF WriteEntry, Solo, OwnRead
    <3>2. store'[e] = IF Head(chain[t]).kind = "set"
                      THEN [store[e] EXCEPT !.pending = Head(chain[t]).relays]
                      ELSE WithoutRelay(store[e], Head(chain[t]).relay)
      BY <1>1, <1>6, <2>5, <3>1 DEF WriteEntry
    <3>3. hist[e].durable
      BY <2>4, <3>1 DEF Solo, Kept
    <3>4. CASE Head(chain[t]).kind = "set"
      <4>1. hist[e].target # None /\ Head(chain[t]).relays = hist[e].target
        BY <2>2, <2>4, <2>5, <3>4 DEF Solo, OwnSet
      <4>2. store'[e].pending = hist[e].target /\ store'[e] \in Entry
        BY <1>1, <3>1, <3>2, <3>4, <4>1 DEF Entry, History
      <4>3. store'[e] # None
        BY <4>2, OutboxAssumption
      <4>4. Recorded(e)' /\ Kept(e)'
        BY <2>3, <3>3, <4>1, <4>2, <4>3 DEF Kept, Recorded
      <4> QED BY <1>1, <2>1, <2>2, <2>3, <2>4, <2>5, <3>3, <4>4, PopOwn
    <3>5. CASE Head(chain[t]).kind = "done"
      <4>1. /\ hist[e].target # None /\ Head(chain[t]).relay \in hist[e].answered
            /\ Recorded(e)
        BY <2>2, <2>4, <2>5, <3>5 DEF Solo, OwnDone, Idx
      <4>2. store[e].pending # None /\ hist[e].target \ hist[e].answered \subseteq store[e].pending
        BY <2>4, <3>1, <3>3, <4>1 DEF Solo, Kept, Recorded
      <4> DEFINE left == store[e].pending \ {Head(chain[t]).relay}
      <4>3. store'[e] = IF left = {} THEN None ELSE [store[e] EXCEPT !.pending = left]
        BY <3>2, <3>5, <4>2 DEF WithoutRelay
      <4>4. hist[e].target \ hist[e].answered \subseteq left
        BY <4>1, <4>2
      <4>5. left # {} => store'[e] # None /\ store'[e].pending = left /\ left # None
        BY <3>1, <4>2, <4>3, OutboxAssumption DEF Entry
      <4>6. Recorded(e)' /\ Kept(e)'
        BY <2>3, <3>3, <4>1, <4>3, <4>4, <4>5 DEF Kept, Recorded
      <4> QED BY <1>1, <2>1, <2>2, <2>3, <2>4, <2>5, <3>3, <4>6, PopOwn
    <3> QED BY <2>1, <3>4, <3>5
  <2>6. CASE Head(chain[t]).ev # e
    <3>1. Untouched(e)
      BY <1>1, <1>6, <2>3, <2>6 DEF WriteEntry, Untouched
    <3> QED BY <1>1, <2>1, <2>3, <2>4, <2>6, <3>1, PopKeepsSolo
  <2> QED BY <2>5, <2>6
<1>7. CASE WriteFails(t)
  <2> DEFINE op == Head(chain[t])
  <2>1. chain[t] # <<>> /\ (op.kind # "list" => op.ev \in Events)
    BY <1>1, <1>7, HeadOp DEF WriteFails
  <2>2. IF op.kind = "list" THEN hist' = hist
        ELSE hist' = [hist EXCEPT ![op.ev] = [hist[op.ev] EXCEPT !.faulty = TRUE]]
    BY <1>1, <1>7, <2>1 DEF WriteFails, History
  <2>3. op.kind = "list" \/ e # op.ev
    BY <1>1, <2>1, <2>2 DEF Alone, History
  <2>4. hist'[e] = hist[e]
    BY <1>1, <2>1, <2>2, <2>3
  <2>5. Solo(e) /\ Untouched(e)
    BY <1>7, <2>4 DEF WriteFails, Untouched, KInv, Alone
  <2> QED BY <1>1, <1>7, <2>1, <2>3, <2>5, PopKeepsSolo DEF WriteFails, Complete
<1> QED BY <1>2, <1>3, <1>4, <1>5, <1>6, <1>7 DEF ChainStep

\* A sequence with one element put in front.
LEMMA InFront ==
    ASSUME NEW S, NEW x \in S, NEW s \in Seq(S)
    PROVE  /\ <<x>> \o s \in Seq(S) /\ Len(<<x>> \o s) = 1 + Len(s) /\ (<<x>> \o s)[1] = x
           /\ \A n \in 1..(1 + Len(s)) : n # 1 => n - 1 \in 1..Len(s) /\ (<<x>> \o s)[n] = s[n - 1]
<1>1. <<x>> \in Seq(S) /\ Len(<<x>>) = 1 /\ <<x>>[1] = x /\ Len(s) \in Nat
  BY LenProperties
<1>2. /\ <<x>> \o s \in Seq(S) /\ Len(<<x>> \o s) = Len(<<x>>) + Len(s)
      /\ \A i \in 1..(Len(<<x>>) + Len(s)) :
            (<<x>> \o s)[i] = IF i <= Len(<<x>>) THEN <<x>>[i] ELSE s[i - Len(<<x>>)]
  BY <1>1, ConcatProperties
<1> QED BY <1>1, <1>2

RiderOps(e, R) ==
    <<SetOp(e, R, None)>> \o SetToSeq({EnqueueOp(c, NormalizeAll(R)) : c \in Riders(e)})
AcceptedOps(c, ok) == SetToSeq({DoneOp(c, r, None) : r \in ok})

\* What computePublishRelays queues: the relay set of e, then the riders' enqueues.
LEMMA ComputeOps ==
    ASSUME TInv, NEW e \in Events, NEW R \in RelaySets, NEW ops, ops = RiderOps(e, R)
    PROVE  /\ ops \in Seq(Op) /\ 1 \in 1..Len(ops) /\ ops[1] = SetOp(e, R, None)
           /\ \A n \in 1..Len(ops) :
                 n = 1 \/ \E c \in Riders(e) : ops[n] = EnqueueOp(c, NormalizeAll(R))
<1> DEFINE puts == {EnqueueOp(c, NormalizeAll(R)) : c \in Riders(e)}
           rest == SetToSeq(puts)
<1>1. R \in SUBSET Urls /\ NormalizeAll(R) \in SUBSET Urls /\ SetOp(e, R, None) \in Op
  BY OutboxAssumption, OpTypes DEF TInv
<1>2. Riders(e) \subseteq Events /\ IsFiniteSet(Riders(e))
  BY OutboxAssumption, FS_Subset DEF Riders
<1>3. [c \in Riders(e) |-> EnqueueOp(c, NormalizeAll(R))] \in Surjection(Riders(e), puts)
  BY DEF Surjection
<1>4. IsFiniteSet(puts)
  BY <1>2, <1>3, FS_Surjection
<1>5. \A c \in Riders(e) : EnqueueOp(c, NormalizeAll(R)) \in Op
  BY <1>1, <1>2, OpTypes DEF TInv
<1>6. puts \subseteq Op
  BY <1>5
<1>7. rest \in Seq(puts)
  BY <1>4, SetToSeqType
<1>8. rest \in Seq(Op) /\ Len(rest) \in Nat /\ \A n \in 1..Len(rest) : rest[n] \in puts
  BY <1>6, <1>7, SeqMonotonic, LenProperties, ElementOfSeq
<1>9. /\ ops \in Seq(Op) /\ Len(ops) = 1 + Len(rest) /\ ops[1] = SetOp(e, R, None)
      /\ \A n \in 1..(1 + Len(rest)) : n # 1 => n - 1 \in 1..Len(rest) /\ ops[n] = rest[n - 1]
  <2>1. ops = <<SetOp(e, R, None)>> \o rest
    BY DEF RiderOps
  <2>2. PICK x : x = SetOp(e, R, None)
    OBVIOUS
  <2>3. PICK tail : tail = rest
    OBVIOUS
  <2>4. x \in Op /\ tail \in Seq(Op) /\ ops = <<x>> \o tail
    BY <1>1, <1>8, <2>1, <2>2, <2>3
  <2>5. /\ ops \in Seq(Op) /\ Len(ops) = 1 + Len(tail) /\ ops[1] = x
        /\ \A n \in 1..(1 + Len(tail)) : n # 1 => n - 1 \in 1..Len(tail) /\ ops[n] = tail[n - 1]
    BY ONLY <2>4, InFront
  <2> QED BY ONLY <2>2, <2>3, <2>5
<1>11. ASSUME NEW n \in 1..Len(ops), n # 1
       PROVE  \E c \in Riders(e) : ops[n] = EnqueueOp(c, NormalizeAll(R))
  <2>1. n - 1 \in 1..Len(rest) /\ ops[n] = rest[n - 1]
    BY <1>8, <1>9, <1>11
  <2>2. ops[n] \in puts
    BY <1>8, <2>1
  <2> QED BY <2>2
<1>12. 1 \in 1..Len(ops)
  BY <1>8, <1>9
<1> HIDE DEF rest
<1> QED BY <1>9, <1>11, <1>12

\* What publishCompanions queues: a markRelayDone of c per relay that accepted.
LEMMA CompanionOps ==
    ASSUME TInv, NEW c \in Events, NEW ok \in SUBSET Urls, NEW ops, ops = AcceptedOps(c, ok)
    PROVE  ops \in Seq(Op) /\ \A n \in 1..Len(ops) : \E r \in ok : ops[n] = DoneOp(c, r, None)
<1> DEFINE marks == {DoneOp(c, r, None) : r \in ok}
<1>1. IsFiniteSet(ok)
  BY OutboxAssumption, FS_Subset
<1>2. [r \in ok |-> DoneOp(c, r, None)] \in Surjection(ok, marks)
  BY DEF Surjection
<1>3. IsFiniteSet(marks) /\ marks \subseteq Op
  BY <1>1, <1>2, FS_Surjection, OpTypes DEF TInv
<1>4. ops \in Seq(marks)
  BY <1>3, SetToSeqType DEF AcceptedOps
<1>5. ops \in Seq(Op) /\ \A n \in 1..Len(ops) : ops[n] \in marks
  BY <1>3, <1>4, SeqMonotonic, ElementOfSeq
<1> QED BY <1>5

\* A publish appends the operation op (and others, of other events) to its chain.
LEMMA PushOwn ==
    ASSUME TInv, NEW e \in Events, NEW t \in Tabs, NEW ops \in Seq(Op), Queue(t, ops),
           1 \in 1..Len(ops), ops[1].kind \in EntryKinds, ops[1].ev = e,
           \A n \in 1..Len(ops) : n = 1 \/ ops[n].ev # e
    PROVE  \E last \in Idx :
              /\ OpAt(t, last, e, ops[1].kind)' /\ chain'[t][last] = ops[1]
              /\ \A u \in Tabs, i \in Idx, k \in EntryKinds :
                    /\ OpAt(u, i, e, k) => OpAt(u, i, e, k)' /\ chain'[u][i] = chain[u][i]
                                         /\ (u = t => i < last)
                    /\ OpAt(u, i, e, k)' =>
                          \/ OpAt(u, i, e, k) /\ chain'[u][i] = chain[u][i]
                          \/ u = t /\ i = last /\ k = ops[1].kind
<1>0. PICK last : last = Len(chain[t]) + 1
  OBVIOUS
<1>1. Len(chain[t]) \in Nat /\ last \in Idx /\ Len(ops) \in Nat
  BY <1>0, LenProperties DEF TInv, TypeOK, Idx
<1>2. chain' = [chain EXCEPT ![t] = chain[t] \o ops] /\ chain[t] \in Seq(Op)
  BY DEF Queue, TInv, TypeOK
<1>3. chain'[t] = chain[t] \o ops
  BY <1>2 DEF TInv, TypeOK
<1>4. last \in 1..Len(chain'[t]) /\ chain'[t][last] = ops[1]
  BY <1>0, <1>1, <1>2, <1>3, ConcatProperties
<1>5. \A u \in Tabs, i \in Idx, k \in EntryKinds :
         /\ OpAt(u, i, e, k) => OpAt(u, i, e, k)' /\ chain'[u][i] = chain[u][i]
         /\ OpAt(u, i, e, k)' =>
               \/ OpAt(u, i, e, k) /\ chain'[u][i] = chain[u][i]
               \/ /\ u = t
                  /\ \E n \in 1..Len(ops) : i = Len(chain[t]) + n /\ ops[n].kind = k /\ ops[n].ev = e
  BY PushOps
<1>6. \A i \in Idx, k \in EntryKinds : OpAt(t, i, e, k) => i < last
  BY <1>0, <1>1 DEF OpAt, Idx
<1>7. OpAt(t, last, e, ops[1].kind)'
  BY <1>4 DEF OpAt
<1>8. \A u \in Tabs, i \in Idx, k \in EntryKinds : OpAt(u, i, e, k)' =>
         \/ OpAt(u, i, e, k) /\ chain'[u][i] = chain[u][i]
         \/ u = t /\ i = last /\ k = ops[1].kind
  BY <1>0, <1>1, <1>5
<1>9. \A u \in Tabs, i \in Idx, k \in EntryKinds : OpAt(u, i, e, k) =>
         OpAt(u, i, e, k)' /\ chain'[u][i] = chain[u][i] /\ (u = t => i < last)
  BY ONLY <1>5, <1>6
<1>10. last \in Idx /\ chain'[t][last] = ops[1]
  BY ONLY <1>1, <1>4
<1> last \in Idx
  BY <1>10
<1> WITNESS last \in Idx
<1> QED BY ONLY <1>7, <1>8, <1>9, <1>10

\* Pushing at the end of a chain leaves what has been read alone.
LEMMA PushKeepsRead ==
    ASSUME TInv, NEW e \in Events, OwnRead(e), NEW t \in Tabs, NEW ops \in Seq(Op), Queue(t, ops),
           got' = got, store' = store
    PROVE  OwnRead(e)'
<1>1. \A u \in Tabs : chain[u] # <<>> => Head(chain'[u]) = Head(chain[u])
  BY QueueStep
<1> QED BY <1>1 DEF OwnRead, TInv, Shape, ChainShape

LEMMA PublishSolo ==
    ASSUME KInv, NEW f \in Events, NEW t \in Tabs, Publish(f, t), NEW e \in Events, Alone(e)'
    PROVE  Solo(e)'
<1>1. TInv /\ Solo(e)
  BY DEF Publish, KInv, Alone
<1>2. PICK ops : ops = <<EnqueueOp(f, None)>>
  OBVIOUS
<1>3. /\ ops \in Seq(Op) /\ ops[1].kind = "put" /\ ops[1].ev = f /\ ops[1].entry.pending = None
      /\ 1 \in 1..Len(ops) /\ \A n \in 1..Len(ops) : n = 1
  BY <1>1, <1>2, OpTypes DEF TInv, EnqueueOp
<1>4. Queue(t, ops) /\ got' = got /\ store' = store /\ hist' = hist
  BY <1>2 DEF Publish
<1>5. CASE e # f
  <2>1. Untouched(e)
    BY <1>1, <1>5 DEF Publish, Untouched, TInv, TypeOK
  <2> QED BY <1>1, <1>3, <1>4, <1>5, <2>1, PushKeepsSolo
<1>6. CASE e = f
  <2>1. "put" \in EntryKinds /\ "set" \in EntryKinds /\ "done" \in EntryKinds
    BY DEF EntryKinds
  <2>2. PICK last \in Idx :
           /\ OpAt(t, last, e, "put")' /\ chain'[t][last] = ops[1]
           /\ \A u \in Tabs, i \in Idx, k \in EntryKinds : OpAt(u, i, e, k)' =>
                 \/ OpAt(u, i, e, k)
                 \/ u = t /\ i = last /\ k = "put"
    BY <1>1, <1>3, <1>4, <1>6, <2>1, PushOwn
  <2>3. /\ live[e].phase = "new" /\ live'[e].phase = "computing" /\ live'[e].tab = t
        /\ live[e].tab = None /\ ~hist[e].durable /\ hist[e].target = None
    BY <1>1, <1>6 DEF Publish, TInv, TypeOK, Solo, OwnPhase
  <2>4. \A u \in Tabs, i \in Idx, k \in EntryKinds : ~OpAt(u, i, e, k)
    BY <1>1, <2>3, OutboxAssumption DEF Solo, OwnTab
  <2>5. \A u \in Tabs, i \in Idx, k \in EntryKinds :
            OpAt(u, i, e, k)' => u = t /\ i = last /\ k = "put"
    BY <2>2, <2>4
  <2>6. OwnTab(e)' /\ OwnPut(e)'
    BY <1>3, <1>4, <2>1, <2>2, <2>3, <2>5 DEF OwnTab, OwnPut
  <2>7. OwnSet(e)' /\ OwnDone(e)'
    BY <2>1, <2>5 DEF OwnSet, OwnDone
  <2>8. OwnRead(e)'
    BY <1>1, <1>3, <1>4, PushKeepsRead DEF Solo
  <2>9. OwnPhase(e)'
    BY <1>4, <2>2, <2>3 DEF OwnPhase, OpAt
  <2>10. Kept(e)'
    BY <1>1, <1>4 DEF Solo, Kept
  <2> QED BY <2>6, <2>7, <2>8, <2>9, <2>10 DEF Solo
<1> QED BY <1>5, <1>6

LEMMA ComputeSolo ==
    ASSUME KInv, NEW f \in Events, NEW R \in RelaySets, ComputePublishRelays(f, R),
           NEW e \in Events, Alone(e)'
    PROVE  Solo(e)'
<1>1. TInv /\ hist \in [Events -> History] /\ R \in SUBSET Urls /\ NormalizeAll(R) \in SUBSET Urls
  BY OutboxAssumption, OpTypes DEF KInv, TInv, TypeOK
<1>2. PICK t \in Tabs : t = live[f].tab
  BY <1>1 DEF ComputePublishRelays, TInv, Shape, LiveShape
<1>3. PICK ops : ops = RiderOps(f, R)
  OBVIOUS
<1>4. /\ ops \in Seq(Op) /\ 1 \in 1..Len(ops) /\ ops[1] = SetOp(f, R, None)
      /\ \A n \in 1..Len(ops) :
            n = 1 \/ \E c \in Riders(f) : ops[n] = EnqueueOp(c, NormalizeAll(R))
  BY <1>1, <1>3, ComputeOps
<1>5. Queue(t, ops) /\ got' = got /\ store' = store
  BY <1>2, <1>3 DEF ComputePublishRelays, RiderOps
<1>6. /\ hist'[e] = IF e = f THEN [hist[e] EXCEPT !.target = NormalizeAll(R),
                                                  !.computed = @ \cup {NormalizeAll(R)}]
                     ELSE IF e \in Riders(f) THEN [hist[e] EXCEPT !.shared = TRUE,
                                                  !.computed = @ \cup {NormalizeAll(R)}]
                     ELSE hist[e]
      /\ hist[e] \in History /\ f \notin Riders(f)
  BY <1>1 DEF ComputePublishRelays, Riders
<1>7. e \notin Riders(f)
  BY <1>6 DEF Alone, History
<1>8. ops[1].kind = "set" /\ ops[1].ev = f /\ ops[1].relays = NormalizeAll(R)
  BY <1>4 DEF SetOp
<1>9. \A n \in 1..Len(ops) : n = 1 \/ ops[n].ev \in Riders(f)
  <2> SUFFICES ASSUME NEW n \in 1..Len(ops), n # 1 PROVE ops[n].ev \in Riders(f)
    OBVIOUS
  <2>1. PICK c \in Riders(f) : ops[n] = EnqueueOp(c, NormalizeAll(R))
    BY <1>4
  <2> QED BY <2>1 DEF EnqueueOp
<1>10. CASE e # f
  <2>1. Untouched(e) /\ Solo(e)
    BY <1>1, <1>6, <1>7, <1>10 DEF ComputePublishRelays, Untouched, TInv, TypeOK, KInv, Alone
  <2> QED BY <1>1, <1>4, <1>5, <1>7, <1>8, <1>9, <1>10, <2>1, PushKeepsSolo
<1>11. CASE e = f
  <2>1. "put" \in EntryKinds /\ "set" \in EntryKinds /\ "done" \in EntryKinds
    BY DEF EntryKinds
  <2>2. /\ hist'[e].target = NormalizeAll(R) /\ hist'[e].durable = hist[e].durable
        /\ hist'[e].answered = hist[e].answered /\ hist'[e].target # None
        /\ hist'[e].shared = hist[e].shared /\ hist'[e].faulty = hist[e].faulty
    BY <1>1, <1>6, <1>11, OutboxAssumption DEF History
  <2>3. Solo(e)
    BY <2>2 DEF KInv, Alone
  <2>4. PICK last \in Idx :
           /\ OpAt(t, last, e, "set")' /\ chain'[t][last] = ops[1]
           /\ \A u \in Tabs, i \in Idx, k \in EntryKinds :
                 /\ OpAt(u, i, e, k) => OpAt(u, i, e, k)' /\ (u = t => i < last)
                 /\ OpAt(u, i, e, k)' =>
                       \/ OpAt(u, i, e, k) /\ chain'[u][i] = chain[u][i]
                       \/ u = t /\ i = last /\ k = "set"
    BY <1>1, <1>4, <1>5, <1>6, <1>8, <1>9, <1>11, <2>1, PushOwn
  <2>5. /\ live[e].phase = "computing" /\ hist[e].target = None
        /\ hist[e].durable \/ \E i \in Idx : OpAt(t, i, e, "put")
    BY <1>2, <1>11, <2>3 DEF ComputePublishRelays, Solo, OwnPhase
  <2>6. live'[e].tab = t /\ live'[e].phase \in {"over", "fanout"}
    BY <1>1, <1>2, <1>11 DEF ComputePublishRelays, TInv, TypeOK, LiveRun
  <2>7. \A u \in Tabs, i \in Idx : ~OpAt(u, i, e, "set") /\ ~OpAt(u, i, e, "done")
    BY <2>3, <2>5 DEF Solo, OwnSet, OwnDone
  <2>8. OwnTab(e)'
    BY <1>2, <1>11, <2>3, <2>4, <2>6 DEF Solo, OwnTab
  <2>9. OwnPut(e)'
    BY <2>1, <2>2, <2>3, <2>4 DEF Solo, OwnPut
  <2>10. OwnSet(e)'
    <3> SUFFICES ASSUME NEW u \in Tabs, NEW j \in Idx, OpAt(u, j, e, "set")'
                 PROVE  /\ hist'[e].target # None /\ chain'[u][j].relays = hist'[e].target
                        /\ hist'[e].durable \/ \E i \in Idx : i < j /\ OpAt(u, i, e, "put")'
      BY DEF OwnSet
    <3>1. u = t /\ j = last
      BY <2>1, <2>4, <2>7
    <3>2. hist[e].durable \/ \E i \in Idx : i < last /\ OpAt(t, i, e, "put")'
      BY <2>1, <2>4, <2>5
    <3> QED BY <1>8, <2>2, <2>4, <3>1, <3>2
  <2>11. OwnDone(e)'
    BY <2>1, <2>4, <2>7 DEF OwnDone
  <2>12. OwnRead(e)'
    BY <1>1, <1>4, <1>5, <2>3, PushKeepsRead DEF Solo
  <2>13. OwnPhase(e)'
    BY <2>2, <2>4, <2>6 DEF OwnPhase, OpAt
  <2>14. Kept(e)'
    BY <1>5, <2>2, <2>3, <2>5 DEF Solo, Kept
  <2> QED BY <2>8, <2>9, <2>10, <2>11, <2>12, <2>13, <2>14 DEF Solo
<1> QED BY <1>10, <1>11

LEMMA AnswersSolo ==
    ASSUME KInv, NEW f \in Events, NEW r \in Urls, RelayAnswers(f, r), NEW e \in Events, Alone(e)'
    PROVE  Solo(e)'
<1>1. TInv /\ hist \in [Events -> History]
  BY DEF KInv, TInv, TypeOK
<1>2. PICK t \in Tabs : t = live[f].tab
  BY <1>1 DEF RelayAnswers, TInv, Shape, LiveShape
<1>3. PICK ops : ops = <<DoneOp(f, r, None)>>
  OBVIOUS
<1>4. /\ ops \in Seq(Op) /\ ops[1].kind = "done" /\ ops[1].ev = f /\ ops[1].relay = Norm[r]
      /\ 1 \in 1..Len(ops) /\ \A n \in 1..Len(ops) : n = 1
  BY <1>1, <1>3, OpTypes DEF TInv, DoneOp
<1>5. Queue(t, ops) /\ got' = got /\ store' = store
  BY <1>2, <1>3 DEF RelayAnswers
<1>6. hist' = [hist EXCEPT ![f] = [hist[f] EXCEPT !.asked = @ \cup {Norm[r]}, !.answered = @ \cup {Norm[r]}]]
  BY <1>1 DEF RelayAnswers, History
<1>7. CASE e # f
  <2>1. Untouched(e) /\ Solo(e)
    BY <1>1, <1>6, <1>7 DEF RelayAnswers, Settle, Untouched, TInv, TypeOK, KInv, Alone
  <2> QED BY <1>1, <1>4, <1>5, <1>7, <2>1, PushKeepsSolo
<1>8. CASE e = f
  <2>1. "put" \in EntryKinds /\ "set" \in EntryKinds /\ "done" \in EntryKinds
    BY DEF EntryKinds
  <2>2. /\ hist'[e].answered = hist[e].answered \cup {Norm[r]} /\ hist'[e].durable = hist[e].durable
        /\ hist'[e].target = hist[e].target
        /\ hist'[e].shared = hist[e].shared /\ hist'[e].faulty = hist[e].faulty
    BY <1>1, <1>6, <1>8 DEF History
  <2>3. Solo(e)
    BY <2>2 DEF KInv, Alone
  <2>4. PICK last \in Idx :
           /\ OpAt(t, last, e, "done")' /\ chain'[t][last] = ops[1]
           /\ \A u \in Tabs, i \in Idx, k \in EntryKinds :
                 /\ OpAt(u, i, e, k) => OpAt(u, i, e, k)' /\ (u = t => i < last)
                 /\ OpAt(u, i, e, k)' =>
                       \/ OpAt(u, i, e, k) /\ chain'[u][i] = chain[u][i]
                       \/ u = t /\ i = last /\ k = "done"
    BY <1>1, <1>4, <1>5, <1>8, <2>1, PushOwn
  <2>5. /\ live[e].phase = "fanout" /\ hist[e].target # None
        /\ Recorded(e) \/ \E i \in Idx : OpAt(t, i, e, "set")
    BY <1>2, <1>8, <2>3 DEF RelayAnswers, Solo, OwnPhase
  <2>6. live'[e].tab = t /\ live'[e].phase \in {"over", "fanout"}
    BY <1>1, <1>2, <1>8, <2>5 DEF RelayAnswers, Settle, TInv, TypeOK, LiveRun
  <2>7. Recorded(e)' <=> Recorded(e)
    BY <1>5, <2>2 DEF Recorded
  <2>8. OwnTab(e)' /\ OwnPut(e)'
    BY <1>2, <1>8, <2>1, <2>2, <2>3, <2>4, <2>6 DEF Solo, OwnTab, OwnPut
  <2>9. OwnSet(e)'
    <3> SUFFICES ASSUME NEW u \in Tabs, NEW j \in Idx, OpAt(u, j, e, "set")'
                 PROVE  /\ hist'[e].target # None /\ chain'[u][j].relays = hist'[e].target
                        /\ hist'[e].durable \/ \E i \in Idx : i < j /\ OpAt(u, i, e, "put")'
      BY DEF OwnSet
    <3>1. OpAt(u, j, e, "set") /\ chain'[u][j] = chain[u][j]
      BY <2>1, <2>4
    <3>2. /\ hist[e].target # None /\ chain[u][j].relays = hist[e].target
          /\ hist[e].durable \/ \E i \in Idx : i < j /\ OpAt(u, i, e, "put")
      BY <2>3, <3>1 DEF Solo, OwnSet
    <3>3. \A i \in Idx : OpAt(u, i, e, "put") => OpAt(u, i, e, "put")'
      BY <2>1, <2>4
    <3> QED BY <2>2, <3>1, <3>2, <3>3
  <2>10. OwnDone(e)'
    <3> SUFFICES ASSUME NEW u \in Tabs, NEW j \in Idx, OpAt(u, j, e, "done")'
                 PROVE  /\ hist'[e].target # None /\ chain'[u][j].relay \in hist'[e].answered
                        /\ Recorded(e)' \/ \E i \in Idx : i < j /\ OpAt(u, i, e, "set")'
      BY DEF OwnDone
    <3>1. \A i \in Idx : OpAt(u, i, e, "set") => OpAt(u, i, e, "set")' /\ (u = t => i < last)
      BY <2>1, <2>4
    <3>2. CASE OpAt(u, j, e, "done") /\ chain'[u][j] = chain[u][j]
      <4>1. /\ hist[e].target # None /\ chain[u][j].relay \in hist[e].answered
            /\ Recorded(e) \/ \E i \in Idx : i < j /\ OpAt(u, i, e, "set")
        BY <2>3, <3>2 DEF Solo, OwnDone
      <4> QED BY <2>2, <2>7, <3>1, <3>2, <4>1
    <3>3. CASE u = t /\ j = last
      <4>1. chain'[u][j].relay = Norm[r]
        BY <1>4, <2>4, <3>3
      <4>2. Recorded(e) \/ \E i \in Idx : i < j /\ OpAt(u, i, e, "set")'
        BY <2>5, <3>1, <3>3
      <4> QED BY <2>2, <2>5, <2>7, <4>1, <4>2
    <3> QED BY <2>1, <2>4, <3>2, <3>3
  <2>11. OwnRead(e)'
    BY <1>1, <1>4, <1>5, <2>3, PushKeepsRead DEF Solo
  <2>12. OwnPhase(e)'
    <3>1. Recorded(e)' \/ \E i \in Idx : OpAt(t, i, e, "set")'
      BY <2>1, <2>4, <2>5, <2>7
    <3> QED BY <2>2, <2>5, <2>6, <3>1 DEF OwnPhase, OpAt
  <2>13. Kept(e)'
    BY <1>5, <2>2, <2>3 DEF Solo, Kept
  <2> QED BY <2>8, <2>9, <2>10, <2>11, <2>12, <2>13 DEF Solo
<1> QED BY <1>7, <1>8

LEMMA UnreachableSolo ==
    ASSUME KInv, NEW f \in Events, NEW r \in Urls, RelayUnreachable(f, r), NEW e \in Events, Alone(e)'
    PROVE  Solo(e)'
<1>1. TInv /\ hist \in [Events -> History]
  BY DEF KInv, TInv, TypeOK
<1>2. hist' = [hist EXCEPT ![f] = [hist[f] EXCEPT !.asked = @ \cup {Norm[r]}]]
  BY <1>1 DEF RelayUnreachable, History
<1>3. /\ hist'[e].answered = hist[e].answered /\ hist'[e].durable = hist[e].durable
      /\ hist'[e].target = hist[e].target
      /\ hist'[e].shared = hist[e].shared /\ hist'[e].faulty = hist[e].faulty
  BY <1>1, <1>2 DEF History
<1>4. Solo(e)
  BY <1>3 DEF KInv, Alone
<1>5. live'[e].tab = live[e].tab
      /\ (live'[e].phase = live[e].phase \/ (live'[e].phase = "over" /\ live[e].phase = "fanout"))
  BY <1>1 DEF RelayUnreachable, Settle, TInv, TypeOK, LiveRun
<1>6. UNCHANGED <<store, chain, got>>
  BY DEF RelayUnreachable
<1>7. OwnPhase(e)'
  BY <1>3, <1>4, <1>5, <1>6 DEF Solo, OwnPhase, OpAt, Recorded
<1>8. OwnTab(e)' /\ OwnPut(e)' /\ OwnSet(e)' /\ OwnDone(e)' /\ OwnRead(e)' /\ Kept(e)'
  BY <1>3, <1>4, <1>5, <1>6 DEF Solo, OwnTab, OwnPut, OwnSet, OwnDone, OwnRead, Kept, OpAt, Recorded
<1> QED BY <1>7, <1>8 DEF Solo

LEMMA CompanionSolo ==
    ASSUME KInv, NEW c \in Events, NEW ok \in SUBSET comp[c].relays, NEW refused \in SUBSET comp[c].relays,
           CompanionResults(c, ok, refused), NEW e \in Events, Alone(e)'
    PROVE  Solo(e)'
<1>1. TInv /\ hist \in [Events -> History] /\ comp[c].relays \in SUBSET Urls /\ comp[c].tab # None
  BY DEF KInv, TInv, TypeOK, CompanionResults
<1>2. PICK t \in Tabs : t = comp[c].tab
  BY <1>1 DEF TInv, TypeOK
<1>3. PICK ops : ops = AcceptedOps(c, ok)
  OBVIOUS
<1>4. ops \in Seq(Op) /\ \A n \in 1..Len(ops) : ops[n].ev = c
  <2>1. ops \in Seq(Op) /\ \A n \in 1..Len(ops) : \E r \in ok : ops[n] = DoneOp(c, r, None)
    BY <1>1, <1>3, CompanionOps
  <2>2. ASSUME NEW n \in 1..Len(ops) PROVE ops[n].ev = c
    <3>1. PICK r \in ok : ops[n] = DoneOp(c, r, None)
      BY <2>1
    <3> QED BY <3>1 DEF DoneOp
  <2> QED BY <2>1, <2>2
<1>5. Queue(t, ops) /\ got' = got /\ store' = store /\ live' = live
  BY <1>2, <1>3 DEF CompanionResults, AcceptedOps
<1>6. PICK h : /\ hist' = [hist EXCEPT ![c] = h] /\ h.shared = hist[c].shared
  <2>1. hist' = [hist EXCEPT ![c] = [hist[c] EXCEPT !.asked = @ \cup NormalizeAll(comp[c].relays),
                                                   !.answered = @ \cup NormalizeAll(ok \cup refused)]]
    BY <1>1 DEF CompanionResults, History
  <2>2. [hist[c] EXCEPT !.asked = @ \cup NormalizeAll(comp[c].relays),
                        !.answered = @ \cup NormalizeAll(ok \cup refused)].shared = hist[c].shared
    BY <1>1 DEF History
  <2> QED BY <2>1, <2>2
<1>7. hist[c].shared
  BY <1>1 DEF KInv, SharedMarked, MarkedCompanions
<1>8. e # c
  BY <1>1, <1>6, <1>7 DEF Alone
<1>9. Untouched(e) /\ Solo(e)
  BY <1>1, <1>5, <1>6, <1>8 DEF Untouched, KInv, Alone
<1> QED BY <1>1, <1>4, <1>5, <1>8, <1>9, PushKeepsSolo

LEMMA CrashSolo ==
    ASSUME KInv, NEW t \in Tabs, Crash(t), NEW e \in Events, Alone(e)'
    PROVE  Solo(e)'
<1>1. TInv /\ Solo(e)
  BY DEF Crash, KInv, Alone
<1>2. /\ chain' = [chain EXCEPT ![t] = <<>>] /\ got' = [got EXCEPT ![t] = None]
      /\ store' = store /\ hist' = hist
      /\ live'[e] = IF live[e].tab = t THEN [phase |-> "over", tab |-> None, waiting |-> {}] ELSE live[e]
  BY DEF Crash
<1>3. \A u \in Tabs, i \in Idx, k \in EntryKinds :
         IF u = t THEN ~OpAt(u, i, e, k)' ELSE (OpAt(u, i, e, k)' <=> OpAt(u, i, e, k)) /\ chain'[u] = chain[u]
  <2>1. chain'[t] = <<>> /\ \A u \in Tabs : u # t => chain'[u] = chain[u]
    BY <1>1, <1>2 DEF TInv, TypeOK
  <2> QED BY <2>1 DEF OpAt
<1>4. "put" \in EntryKinds /\ "set" \in EntryKinds /\ "done" \in EntryKinds
  BY DEF EntryKinds
<1>5. OwnTab(e)'
  BY <1>1, <1>2, <1>3 DEF Solo, OwnTab
<1>6. OwnPut(e)' /\ OwnSet(e)' /\ OwnDone(e)'
  BY <1>1, <1>2, <1>3, <1>4 DEF Solo, OwnPut, OwnSet, OwnDone, Recorded
<1>7. OwnRead(e)'
  BY <1>1, <1>2 DEF Solo, OwnRead, TInv, TypeOK
<1>8. OwnPhase(e)'
  <2>1. CASE live[e].tab = t
    BY <1>2, <2>1 DEF OwnPhase
  <2>2. CASE live[e].tab # t
    BY <1>1, <1>2, <1>3, <1>4, <2>2 DEF Solo, OwnPhase, Recorded, OpAt, TInv, Shape, LiveShape
  <2> QED BY <2>1, <2>2
<1>9. Kept(e)'
  BY <1>1, <1>2 DEF Solo, Kept
<1> QED BY <1>5, <1>6, <1>7, <1>8, <1>9 DEF Solo

\* A step that leaves e alone and appends, if anything, operations of other events.
LEMMA ReplaySolo ==
    ASSUME KInv, NEW p \in Replays, StartReplay(p) \/ ReplayStep(p), NEW e \in Events, Alone(e)'
    PROVE  Solo(e)'
<1>1. /\ TInv /\ hist \in [Events -> History] /\ rp[p] \in ReplayRun /\ TabOf(p) \in Tabs
      /\ p # None
  BY OutboxAssumption DEF KInv, TInv, TypeOK, Replays, TabOf
<1>2. /\ rp[p].ev # None => rp[p].ev \in Events /\ hist[rp[p].ev].shared
      /\ \A f \in Events : rp[p].todo[f] # None => hist[f].shared
  BY <1>1 DEF KInv, SharedMarked, MarkedReplays, ReplayRun
<1>3. ASSUME NEW f \in Events, hist[f].shared, NEW h, h.shared = hist[f].shared,
             hist' = hist \/ hist' = [hist EXCEPT ![f] = h], live' = live, store' = store
      PROVE  e # f /\ Untouched(e) /\ Solo(e)
  <2>1. e # f
    BY <1>1, <1>3 DEF Alone
  <2> QED BY <1>1, <1>3, <2>1 DEF Untouched, KInv, Alone
<1>4. ASSUME Untouched(e), Solo(e), got' = got, NEW op \in Op, op.kind = "list" \/ op.ev # e,
             Queue(TabOf(p), <<op>>)
      PROVE  Solo(e)'
  <2>1. PICK ops : ops = <<op>>
    OBVIOUS
  <2>2. ops \in Seq(Op) /\ \A n \in 1..Len(ops) : ops[n] = op
    BY <1>4, <2>1
  <2> QED BY <1>1, <1>4, <2>1, <2>2, PushKeepsSolo
<1>5. CASE StartReplay(p)
  <2>1. PICK op : op = [kind |-> "list", by |-> p]
    OBVIOUS
  <2>2. op \in Op /\ op.kind = "list"
    BY <2>1 DEF Op
  <2>3. Untouched(e) /\ Solo(e) /\ got' = got /\ Queue(TabOf(p), <<op>>)
    BY <1>5, <2>1 DEF StartReplay, Untouched, KInv, Alone
  <2> QED BY <1>4, <2>2, <2>3
<1>6. ASSUME NEW f \in Events, ReplayGivesUp(p, f) PROVE Solo(e)'
  <2>1. PICK op : op = [kind |-> "remove", ev |-> f, by |-> p]
    OBVIOUS
  <2>2. op \in Op /\ op.ev = f
    BY <2>1 DEF Op
  <2>3. hist' = [hist EXCEPT ![f] = [hist[f] EXCEPT !.gaveUp = TRUE]]
        /\ [hist[f] EXCEPT !.gaveUp = TRUE].shared = hist[f].shared
    BY <1>1, <1>6 DEF ReplayGivesUp, History
  <2>4. hist[f].shared /\ got' = got /\ live' = live /\ store' = store
    BY <1>2, <1>6 DEF ReplayGivesUp
  <2>5. Queue(TabOf(p), <<op>>)
    BY <1>6, <2>1 DEF ReplayGivesUp, Drop
  <2> QED BY <1>3, <1>4, <2>2, <2>3, <2>4, <2>5
<1>7. ASSUME NEW f \in Events, NEW entry \in Entry, NEW R \in SUBSET Urls, hist[f].shared,
             entry.attempts < MaxAttempts, Count(p, f, entry, R),
             UNCHANGED <<store, got, live, hist>>
      PROVE  Solo(e)'
  <2>1. PICK op : op = [kind |-> "put", ev |-> f, by |-> p,
                        entry |-> [entry EXCEPT !.attempts = @ + 1, !.pending = R]]
    OBVIOUS
  <2>2. op \in Op /\ op.ev = f
    <3>1. entry.attempts + 1 \in 0..MaxAttempts
      BY <1>7, OutboxAssumption DEF Entry
    <3>2. [entry EXCEPT !.attempts = @ + 1, !.pending = R] \in Entry
      BY <3>1 DEF Entry
    <3> QED BY <2>1, <3>2 DEF Op
  <2>3. Queue(TabOf(p), <<op>>)
    BY <1>7, <2>1 DEF Count
  <2> QED BY <1>3, <1>4, <1>7, <2>2, <2>3
<1>8. ASSUME NEW f \in Events, ReplayResumes(p, f) PROVE Solo(e)'
  <2> DEFINE entry == rp[p].todo[f]
  <2>1. entry \in Entry /\ entry.pending \in SUBSET Urls /\ entry.attempts < MaxAttempts
    BY <1>1, <1>8, OutboxAssumption DEF ReplayResumes, ReplayRun, Entry, Expired
  <2>2. hist[f].shared /\ Count(p, f, entry, entry.pending) /\ UNCHANGED <<store, got, live, hist>>
    BY <1>2, <1>8 DEF ReplayResumes
  <2> QED BY <1>7, <2>1, <2>2
<1>9. ASSUME UNCHANGED <<store, chain, got, live, hist>> PROVE Solo(e)'
  BY <1>1, <1>9, StayKeepsSolo DEF Untouched, KInv, Alone
<1>10. ASSUME NEW R \in RelaySets, ReplayHasRelays(p, R) PROVE Solo(e)'
  <2> DEFINE f == rp[p].ev
  <2>1. f \in Events /\ R \in SUBSET Urls
    BY <1>1, <1>10, OutboxAssumption DEF ReplayHasRelays, TInv, Shape, ReplayShape
  <2>2. hist' = [hist EXCEPT ![f] = [hist[f] EXCEPT !.computed = @ \cup {NormalizeAll(R)}]]
        /\ [hist[f] EXCEPT !.computed = @ \cup {NormalizeAll(R)}].shared = hist[f].shared
    BY <1>1, <1>10, <2>1 DEF ReplayHasRelays, History
  <2>3. hist[f].shared /\ got' = got /\ live' = live /\ store' = store
    BY <1>2, <1>10, <2>1, OutboxAssumption DEF ReplayHasRelays
  <2>4. e # f /\ Untouched(e) /\ Solo(e)
    BY <1>3, <2>1, <2>2, <2>3
  <2>5. PICK op : op = IF R = {} THEN [kind |-> "remove", ev |-> f, by |-> p] ELSE SetOp(f, R, p)
    OBVIOUS
  <2>6. op \in Op /\ op.ev = f
    BY <1>1, <2>1, <2>5, OpTypes DEF Op, SetOp, TInv
  <2>7. Queue(TabOf(p), <<op>>)
    BY <1>10, <2>5 DEF ReplayHasRelays, Drop
  <2> QED BY <1>4, <2>3, <2>4, <2>6, <2>7
<1>11. CASE ReplayCounts(p)
  <2> DEFINE f == rp[p].ev
             entry == rp[p].todo[f]
  <2>1. /\ f \in Events /\ entry \in Entry /\ entry.attempts < MaxAttempts
        /\ rp[p].relays \in SUBSET Urls
    BY <1>1, <1>11 DEF ReplayCounts, TInv, Shape, ReplayShape, ReplayRun
  <2>2. hist[f].shared /\ Count(p, f, entry, rp[p].relays) /\ UNCHANGED <<store, got, live, hist>>
    BY <1>2, <1>11, <2>1, OutboxAssumption DEF ReplayCounts
  <2> QED BY <1>7, <2>1, <2>2
<1>12. ASSUME NEW A \in SUBSET rp[p].relays, ReplayPublishes(p, A) PROVE Solo(e)'
  <2> DEFINE f == rp[p].ev
  <2>1. f \in Events
    BY <1>1, <1>12 DEF ReplayPublishes, TInv, Shape, ReplayShape
  <2>2. hist' = [hist EXCEPT ![f] = [hist[f] EXCEPT !.asked = @ \cup NormalizeAll(rp[p].relays),
                                                    !.answered = @ \cup NormalizeAll(A)]]
        /\ [hist[f] EXCEPT !.asked = @ \cup NormalizeAll(rp[p].relays),
                           !.answered = @ \cup NormalizeAll(A)].shared = hist[f].shared
    BY <1>1, <1>12, <2>1 DEF ReplayPublishes, History
  <2>3. hist[f].shared /\ UNCHANGED <<store, chain, got, live>>
    BY <1>2, <1>12, <2>1, OutboxAssumption DEF ReplayPublishes
  <2> QED BY <1>1, <1>3, <2>1, <2>2, <2>3, StayKeepsSolo
<1>13. ASSUME NEW r \in Urls, ReplayMarks(p, r) PROVE Solo(e)'
  <2> DEFINE f == rp[p].ev
  <2>1. f \in Events
    BY <1>1, <1>13 DEF ReplayMarks, TInv, Shape, ReplayShape
  <2>2. PICK op : op = DoneOp(f, r, p)
    OBVIOUS
  <2>3. op \in Op /\ op.ev = f
    BY <1>1, <2>1, <2>2, OpTypes DEF DoneOp, TInv
  <2>4. /\ hist[f].shared /\ UNCHANGED <<store, got, live, hist>>
        /\ Queue(TabOf(p), <<op>>)
    BY <1>2, <1>13, <2>1, <2>2, OutboxAssumption DEF ReplayMarks
  <2> QED BY <1>3, <1>4, <2>1, <2>3, <2>4
<1>14. CASE (\E f \in Events : ReplayRecomputes(p, f)) \/ ReplayPublishThrows(p) \/ ReplayEnds(p)
  BY <1>9, <1>14 DEF ReplayRecomputes, ReplayPublishThrows, ReplayEnds
<1> QED BY <1>5, <1>6, <1>8, <1>10, <1>11, <1>12, <1>13, <1>14 DEF ReplayStep

----------------------------------------------------------------------------
(* SharedMarked is kept by every step. *)

\* An event stays shared.
Monotone == \A f \in Events : hist[f].shared => hist'[f].shared

LEMMA PopMarked ==
    ASSUME TInv, MarkedChain, Monotone, NEW t \in Tabs, chain[t] # <<>>,
           chain' = [chain EXCEPT ![t] = Tail(@)]
    PROVE  MarkedChain'
<1> SUFFICES ASSUME NEW u \in Tabs, NEW i \in 1..Len(chain'[u]),
                    chain'[u][i].kind # "list", chain'[u][i].by # None
             PROVE  hist'[chain'[u][i].ev].shared
  BY DEF MarkedChain
<1>1. chain \in [Tabs -> Seq(Op)] /\ chain[t] \in Seq(Op)
  BY DEF TInv, TypeOK
<1>2. PICK j \in 1..Len(chain[u]) : chain'[u][i] = chain[u][j]
  <2>1. CASE u = t
    <3>1. chain'[u] = Tail(chain[t]) /\ Len(Tail(chain[t])) = Len(chain[t]) - 1 /\ Len(chain[t]) \in Nat
      BY <1>1, <2>1, HeadTailProperties, LenProperties
    <3>2. i + 1 \in 1..Len(chain[t]) /\ Tail(chain[t])[i] = chain[t][i + 1]
      BY <1>1, <2>1, <3>1, HeadTailProperties
    <3> QED BY <2>1, <3>1, <3>2
  <2>2. CASE u # t
    BY <1>1, <2>2
  <2> QED BY <2>1, <2>2
<1>3. chain[u][j] \in Op /\ chain[u][j].kind # "list"
  BY <1>1, <1>2, ElementOfSeq
<1>4. chain[u][j].ev \in Events /\ hist[chain[u][j].ev].shared
  BY <1>2, <1>3 DEF Op, MarkedChain
<1> QED BY <1>2, <1>4 DEF Monotone

LEMMA PushMarked ==
    ASSUME TInv, MarkedChain, Monotone, NEW t \in Tabs, NEW ops \in Seq(Op), Queue(t, ops),
           \A n \in 1..Len(ops) :
              ops[n].kind = "list" \/ ops[n].by = None \/ hist'[ops[n].ev].shared
    PROVE  MarkedChain'
<1> SUFFICES ASSUME NEW u \in Tabs, NEW i \in 1..Len(chain'[u]),
                    chain'[u][i].kind # "list", chain'[u][i].by # None
             PROVE  hist'[chain'[u][i].ev].shared
  BY DEF MarkedChain
<1>1. chain \in [Tabs -> Seq(Op)] /\ chain[t] \in Seq(Op) /\ chain[u] \in Seq(Op)
      /\ chain'[u] = IF u = t THEN chain[t] \o ops ELSE chain[u]
  BY DEF TInv, TypeOK, Queue
<1>2. ASSUME NEW j \in 1..Len(chain[u]), chain'[u][i] = chain[u][j]
      PROVE  hist'[chain'[u][i].ev].shared
  <2>1. chain[u][j] \in Op /\ chain[u][j].kind # "list"
    BY <1>1, <1>2, ElementOfSeq
  <2>2. chain[u][j].ev \in Events /\ hist[chain[u][j].ev].shared
    BY <1>2, <2>1 DEF Op, MarkedChain
  <2> QED BY <1>2, <2>2 DEF Monotone
<1>3. CASE u # t
  BY <1>1, <1>2, <1>3
<1>4. CASE u = t
  <2>1. /\ Len(chain[t]) \in Nat /\ Len(ops) \in Nat /\ Len(chain'[u]) = Len(chain[t]) + Len(ops)
        /\ chain'[u][i] = IF i <= Len(chain[t]) THEN chain[t][i] ELSE ops[i - Len(chain[t])]
    BY <1>1, <1>4, LenProperties, ConcatProperties
  <2>2. CASE i <= Len(chain[t])
    <3>1. i \in 1..Len(chain[u]) /\ chain'[u][i] = chain[u][i]
      BY <1>4, <2>1, <2>2
    <3> QED BY <1>2, <3>1
  <2>3. CASE ~(i <= Len(chain[t]))
    <3>1. i - Len(chain[t]) \in 1..Len(ops) /\ chain'[u][i] = ops[i - Len(chain[t])]
      BY <2>1, <2>3
    <3> QED BY <3>1
  <2> QED BY <2>2, <2>3
<1> QED BY <1>3, <1>4

\* Completing an operation changes no replay's entry or listing.
LEMMA CompleteKeeps ==
    ASSUME TInv, NEW t \in Tabs, chain[t] # <<>>, Complete(t)
    PROVE  \A q \in Replays : rp'[q].ev = rp[q].ev /\ rp'[q].todo = rp[q].todo
<1>1. Head(chain[t]) \in Op
  BY HeadTailProperties DEF TInv, TypeOK
<1>2. Head(chain[t]).by \in Replays \cup {None}
  BY <1>1 DEF Op
<1>3. CASE Head(chain[t]).by = None
  BY <1>3 DEF Complete
<1>4. CASE Head(chain[t]).by # None
  <2>1. PICK p \in Replays : p = Head(chain[t]).by
    BY <1>2, <1>4
  <2>2. rp' = [rp EXCEPT ![p] = [rp[p] EXCEPT !.pc = Continue(rp[p]).pc]]
    BY <1>4, <2>1, ContinueType DEF Complete
  <2> QED BY <2>2 DEF TInv, TypeOK, ReplayRun
<1> QED BY <1>3, <1>4

LEMMA ChainMarked ==
    ASSUME KInv, NEW t \in Tabs, ChainStep(t) \/ WriteFails(t)
    PROVE  SharedMarked'
<1>1. TInv /\ MarkedChain /\ MarkedReplays /\ MarkedCompanions /\ hist \in [Events -> History]
  BY DEF KInv, SharedMarked, TInv, TypeOK
<1>2. ASSUME NEW f \in Events, NEW h, hist' = hist \/ hist' = [hist EXCEPT ![f] = h],
             h.shared = hist[f].shared
      PROVE  \A g \in Events : hist'[g].shared = hist[g].shared
  BY <1>1, <1>2
<1>3. ASSUME chain[t] # <<>>, Complete(t), \A g \in Events : hist'[g].shared = hist[g].shared, comp' = comp
      PROVE  SharedMarked'
  <2>1. MarkedChain'
    BY <1>1, <1>3, PopMarked DEF Monotone, Complete
  <2>2. MarkedReplays'
    <3>1. \A q \in Replays : rp'[q].ev = rp[q].ev /\ rp'[q].todo = rp[q].todo
                              /\ rp[q].ev \in Events \cup {None}
      BY <1>1, <1>3, CompleteKeeps DEF TInv, TypeOK, ReplayRun
    <3> QED BY <1>1, <1>3, <3>1 DEF MarkedReplays
  <2>3. MarkedCompanions'
    BY <1>1, <1>3 DEF MarkedCompanions
  <2> QED BY <2>1, <2>2, <2>3 DEF SharedMarked
<1>4. CASE ExecPut(t)
  <2>1. /\ chain[t] # <<>> /\ Head(chain[t]).ev \in Events
    BY <1>1, <1>4, HeadOp DEF ExecPut
  <2>2. PICK f \in Events : f = Head(chain[t]).ev
    BY <2>1
  <2>3. hist' = [hist EXCEPT ![f] = [hist[f] EXCEPT !.durable = TRUE]]
        /\ [hist[f] EXCEPT !.durable = TRUE].shared = hist[f].shared
    BY <1>1, <1>4, <2>2 DEF ExecPut, History
  <2> QED BY <1>2, <1>3, <1>4, <2>1, <2>3 DEF ExecPut
<1>5. CASE ExecRemove(t)
  BY <1>3, <1>5 DEF ExecRemove
<1>6. CASE ExecList(t)
  <2>1. /\ chain[t] # <<>> /\ Head(chain[t]) \in Op /\ Head(chain[t]).kind = "list"
    BY <1>1, <1>6, HeadTailProperties DEF ExecList, TInv, TypeOK
  <2>2. PICK p \in Replays : p = Head(chain[t]).by
    BY <2>1 DEF Op
  <2>3. /\ hist' = [f \in Events |-> [hist[f] EXCEPT !.shared = @ \/ store[f] # None]]
        /\ chain' = [chain EXCEPT ![t] = Tail(@)] /\ comp' = comp
    BY <1>6 DEF ExecList
  <2>4. rp' = [rp EXCEPT ![p] = [rp[p] EXCEPT !.pc = "next", !.todo = store]]
    BY <1>1, <1>6, <2>2 DEF ExecList, TInv, TypeOK, ReplayRun
  <2>5. \A f \in Events : hist'[f].shared = (hist[f].shared \/ store[f] # None)
    BY <1>1, <2>3 DEF History
  <2>6. \A q \in Replays : /\ rp'[q].ev = rp[q].ev /\ rp[q].ev \in Events \cup {None}
                            /\ rp'[q].todo = IF q = p THEN store ELSE rp[q].todo
    BY <1>1, <2>4 DEF TInv, TypeOK, ReplayRun
  <2>7. MarkedChain'
    BY <1>1, <2>1, <2>3, <2>5, PopMarked DEF Monotone
  <2>8. MarkedReplays'
    <3> SUFFICES ASSUME NEW q \in Replays
                 PROVE  /\ rp'[q].ev # None => hist'[rp'[q].ev].shared
                        /\ \A f \in Events : rp'[q].todo[f] # None => hist'[f].shared
      BY DEF MarkedReplays
    <3>1. rp'[q].ev # None => hist'[rp'[q].ev].shared
      BY <1>1, <2>5, <2>6 DEF MarkedReplays
    <3>2. ASSUME NEW f \in Events, rp'[q].todo[f] # None PROVE hist'[f].shared
      <4>1. store[f] # None \/ hist[f].shared
        BY <1>1, <2>6, <3>2 DEF MarkedReplays
      <4> QED BY <2>5, <4>1
    <3> QED BY <3>1, <3>2
  <2>9. MarkedCompanions'
    BY <1>1, <2>3, <2>5 DEF MarkedCompanions
  <2> QED BY <2>7, <2>8, <2>9 DEF SharedMarked
<1>7. CASE ReadEntry(t)
  <2>1. CASE Complete(t)
    BY <1>3, <1>7, <2>1 DEF ReadEntry
  <2>2. CASE UNCHANGED <<chain, rp>>
    BY <1>1, <1>7, <2>2 DEF ReadEntry, SharedMarked, MarkedChain, MarkedReplays, MarkedCompanions
  <2> QED BY <1>7, <2>1, <2>2 DEF ReadEntry
<1>8. CASE WriteEntry(t)
  BY <1>1, <1>3, <1>8 DEF WriteEntry, TInv, Shape, ChainShape
<1>9. CASE WriteFails(t)
  <2>1. CASE Head(chain[t]).kind = "list"
    BY <1>3, <1>9, <2>1 DEF WriteFails
  <2>2. CASE Head(chain[t]).kind # "list"
    <3>1. /\ chain[t] # <<>> /\ Head(chain[t]).ev \in Events
      BY <1>1, <1>9, <2>2, HeadOp DEF WriteFails
    <3>2. PICK f \in Events : f = Head(chain[t]).ev
      BY <3>1
    <3>3. hist' = [hist EXCEPT ![f] = [hist[f] EXCEPT !.faulty = TRUE]]
          /\ [hist[f] EXCEPT !.faulty = TRUE].shared = hist[f].shared
      BY <1>1, <1>9, <2>2, <3>2 DEF WriteFails, History
    <3> QED BY <1>2, <1>3, <1>9, <3>1, <3>3 DEF WriteFails
  <2> QED BY <2>1, <2>2
<1> QED BY <1>4, <1>5, <1>6, <1>7, <1>8, <1>9 DEF ChainStep

\* A step of a publish; its operations are awaited by no replay.
LEMMA LiveMarked ==
    ASSUME KInv, NEW f \in Events, (\E t \in Tabs : Publish(f, t)) \/ LiveStep(f)
    PROVE  SharedMarked'
<1>1. TInv /\ MarkedChain /\ MarkedReplays /\ MarkedCompanions /\ hist \in [Events -> History]
  BY DEF KInv, SharedMarked, TInv, TypeOK
<1>2. ASSUME Monotone, rp' = rp, NEW t \in Tabs, NEW ops \in Seq(Op), Queue(t, ops),
             \A n \in 1..Len(ops) : ops[n].by = None
      PROVE  MarkedChain' /\ MarkedReplays'
  <2>1. MarkedChain'
    BY <1>1, <1>2, PushMarked
  <2>2. \A q \in Replays : rp[q].ev \in Events \cup {None}
    BY <1>1 DEF TInv, TypeOK, ReplayRun
  <2> QED BY <1>1, <1>2, <2>1, <2>2 DEF MarkedReplays, Monotone
<1>3. ASSUME NEW t \in Tabs, Publish(f, t) PROVE SharedMarked'
  <2>1. PICK ops : ops = <<EnqueueOp(f, None)>>
    OBVIOUS
  <2>2. ops \in Seq(Op) /\ \A n \in 1..Len(ops) : ops[n].by = None
    BY <1>1, <2>1, OpTypes DEF TInv, EnqueueOp
  <2>3. Monotone /\ rp' = rp /\ Queue(t, ops) /\ comp' = comp /\ hist' = hist
    BY <1>3, <2>1 DEF Publish, Monotone
  <2>4. MarkedCompanions'
    BY <1>1, <2>3 DEF MarkedCompanions
  <2> QED BY <1>2, <2>2, <2>3, <2>4 DEF SharedMarked
<1>4. ASSUME NEW R \in RelaySets, ComputePublishRelays(f, R) PROVE SharedMarked'
  <2>1. PICK t \in Tabs : t = live[f].tab
    BY <1>1, <1>4 DEF ComputePublishRelays, TInv, Shape, LiveShape
  <2>2. PICK ops : ops = RiderOps(f, R)
    OBVIOUS
  <2>3. /\ ops \in Seq(Op) /\ ops[1] = SetOp(f, R, None)
        /\ \A n \in 1..Len(ops) :
              n = 1 \/ \E c \in Riders(f) : ops[n] = EnqueueOp(c, NormalizeAll(R))
    BY <1>1, <2>2, ComputeOps
  <2>4. ASSUME NEW n \in 1..Len(ops) PROVE ops[n].by = None
    <3>1. CASE n = 1
      BY <2>3, <3>1 DEF SetOp
    <3>2. CASE n # 1
      <4>1. PICK c \in Riders(f) : ops[n] = EnqueueOp(c, NormalizeAll(R))
        BY <2>3, <3>2
      <4> QED BY <4>1 DEF EnqueueOp
    <3> QED BY <3>1, <3>2
  <2>5. \A e \in Events : hist'[e].shared = IF e \in Riders(f) THEN TRUE ELSE hist[e].shared
    BY <1>1, <1>4 DEF ComputePublishRelays, Riders, History
  <2>6. Monotone /\ rp' = rp /\ Queue(t, ops)
    BY <1>4, <2>1, <2>2, <2>5 DEF ComputePublishRelays, RiderOps, Monotone
  <2>7. MarkedCompanions'
    BY <1>1, <1>4, <2>5 DEF ComputePublishRelays, MarkedCompanions
  <2> QED BY <1>2, <2>3, <2>4, <2>6, <2>7 DEF SharedMarked
<1>5. ASSUME NEW r \in Urls, RelayAnswers(f, r) PROVE SharedMarked'
  <2>1. PICK t \in Tabs : t = live[f].tab
    BY <1>1, <1>5 DEF RelayAnswers, TInv, Shape, LiveShape
  <2>2. PICK ops : ops = <<DoneOp(f, r, None)>>
    OBVIOUS
  <2>3. ops \in Seq(Op) /\ \A n \in 1..Len(ops) : ops[n].by = None
    BY <1>1, <2>2, OpTypes DEF TInv, DoneOp
  <2>4. \A e \in Events : hist'[e].shared = hist[e].shared
    BY <1>1, <1>5 DEF RelayAnswers, History
  <2>5. Monotone /\ rp' = rp /\ Queue(t, ops) /\ comp' = comp
    BY <1>5, <2>1, <2>2, <2>4 DEF RelayAnswers, Monotone
  <2>6. MarkedCompanions'
    BY <1>1, <2>4, <2>5 DEF MarkedCompanions
  <2> QED BY <1>2, <2>3, <2>5, <2>6 DEF SharedMarked
<1>6. ASSUME NEW r \in Urls, RelayUnreachable(f, r) PROVE SharedMarked'
  <2>1. \A e \in Events : hist'[e].shared = hist[e].shared
    BY <1>1, <1>6 DEF RelayUnreachable, History
  <2>2. UNCHANGED <<chain, rp, comp>>
    BY <1>6 DEF RelayUnreachable
  <2>3. /\ \A q \in Replays : rp[q].ev \in Events \cup {None}
        /\ \A u \in Tabs : \A i \in 1..Len(chain[u]) : chain[u][i] \in Op
    BY <1>1, ElementOfSeq DEF TInv, TypeOK, ReplayRun
  <2>4. \A u \in Tabs : \A i \in 1..Len(chain[u]) :
            chain[u][i].kind # "list" => chain[u][i].ev \in Events
    BY <2>3 DEF Op
  <2> QED BY <1>1, <2>1, <2>2, <2>3, <2>4 DEF SharedMarked, MarkedChain, MarkedReplays, MarkedCompanions
<1>7. ASSUME NEW ok \in SUBSET comp[f].relays, NEW refused \in SUBSET comp[f].relays,
             CompanionResults(f, ok, refused)
      PROVE  SharedMarked'
  <2>1. comp[f].tab # None /\ ok \in SUBSET Urls
    BY <1>1, <1>7 DEF CompanionResults, TInv, TypeOK
  <2>2. PICK t \in Tabs : t = comp[f].tab
    BY <1>1, <2>1 DEF TInv, TypeOK
  <2>3. PICK ops : ops = AcceptedOps(f, ok)
    OBVIOUS
  <2>4. ops \in Seq(Op) /\ \A n \in 1..Len(ops) : \E r \in ok : ops[n] = DoneOp(f, r, None)
    BY <1>1, <2>1, <2>3, CompanionOps
  <2>5. ASSUME NEW n \in 1..Len(ops) PROVE ops[n].by = None
    <3>1. PICK r \in ok : ops[n] = DoneOp(f, r, None)
      BY <2>4
    <3> QED BY <3>1 DEF DoneOp
  <2>6. \A e \in Events : hist'[e].shared = hist[e].shared
    BY <1>1, <1>7 DEF CompanionResults, History
  <2>7. Monotone /\ rp' = rp /\ Queue(t, ops)
    BY <1>7, <2>2, <2>3, <2>6 DEF CompanionResults, AcceptedOps, Monotone
  <2>8. MarkedCompanions'
    BY <1>1, <1>7, <2>6 DEF CompanionResults, MarkedCompanions, NoCompanionRun, TInv, TypeOK
  <2> QED BY <1>2, <2>4, <2>5, <2>7, <2>8 DEF SharedMarked
<1> QED BY <1>3, <1>4, <1>5, <1>6, <1>7 DEF LiveStep

\* A step of a replay: it only ever has events at hand that it listed.
LEMMA ReplayMarked ==
    ASSUME KInv, NEW p \in Replays, StartReplay(p) \/ ReplayStep(p)
    PROVE  SharedMarked'
<1> DEFINE run == rp[p]
<1>1. /\ TInv /\ MarkedChain /\ MarkedReplays /\ MarkedCompanions
      /\ hist \in [Events -> History] /\ run \in ReplayRun /\ TabOf(p) \in Tabs
  BY DEF KInv, SharedMarked, TInv, TypeOK, Replays, TabOf
<1>2. /\ run.ev # None => run.ev \in Events /\ hist[run.ev].shared
      /\ \A f \in Events : run.todo[f] # None => hist[f].shared
  BY <1>1 DEF MarkedReplays, ReplayRun
<1>3. ASSUME NEW new \in ReplayRun, rp' = [rp EXCEPT ![p] = new], comp' = comp,
             \A f \in Events : hist'[f].shared = hist[f].shared,
             new.ev # None => hist[new.ev].shared,
             \A f \in Events : new.todo[f] # None => hist[f].shared
      PROVE  Monotone /\ MarkedReplays' /\ MarkedCompanions'
  <2>1. \A q \in Replays : rp'[q] = (IF q = p THEN new ELSE rp[q]) /\ rp'[q].ev \in Events \cup {None}
    BY <1>1, <1>3 DEF TInv, TypeOK, ReplayRun
  <2>2. MarkedReplays'
    BY <1>1, <1>3, <2>1 DEF MarkedReplays
  <2> QED BY <1>1, <1>3, <2>2 DEF MarkedCompanions, Monotone
<1>4. ASSUME Monotone, NEW op \in Op, op.kind = "list" \/ (op.ev \in Events /\ hist[op.ev].shared),
             Queue(TabOf(p), <<op>>)
      PROVE  MarkedChain'
  <2>1. PICK ops : ops = <<op>>
    OBVIOUS
  <2>2. ops \in Seq(Op) /\ \A n \in 1..Len(ops) : ops[n] = op
    BY <1>4, <2>1
  <2>3. op.kind = "list" \/ hist'[op.ev].shared
    BY <1>4 DEF Monotone
  <2> QED BY <1>1, <1>4, <2>1, <2>2, <2>3, PushMarked
<1>5. ASSUME Monotone, chain' = chain PROVE MarkedChain'
  <2>1. \A u \in Tabs : \A i \in 1..Len(chain[u]) : chain[u][i] \in Op
    BY <1>1, ElementOfSeq DEF TInv, TypeOK
  <2>2. \A u \in Tabs : \A i \in 1..Len(chain[u]) :
          chain[u][i].kind # "list" => chain[u][i].ev \in Events
    BY <2>1 DEF Op
  <2> QED BY <1>1, <1>5, <2>2 DEF MarkedChain, Monotone
<1>6. CASE StartReplay(p)
  <2>1. PICK op : op = [kind |-> "list", by |-> p]
    OBVIOUS
  <2>2. op \in Op /\ op.kind = "list" /\ Queue(TabOf(p), <<op>>)
    BY <1>6, <2>1 DEF Op, StartReplay
  <2>3. PICK new : new = [run EXCEPT !.pc = "listing", !.now = now]
    OBVIOUS
  <2>4. new \in ReplayRun /\ new.ev = run.ev /\ new.todo = run.todo
    BY <1>1, <2>3 DEF ReplayRun, ReplayPcs, TInv, TypeOK
  <2>5. rp' = [rp EXCEPT ![p] = new] /\ comp' = comp /\ hist' = hist
    BY <1>1, <1>6, <2>3 DEF StartReplay, TInv, TypeOK, ReplayRun
  <2> QED BY <1>2, <1>3, <1>4, <2>2, <2>4, <2>5 DEF SharedMarked
<1>7. ASSUME NEW f \in Events, ReplayGivesUp(p, f) PROVE SharedMarked'
  <2>1. PICK op : op = [kind |-> "remove", ev |-> f, by |-> p]
    OBVIOUS
  <2>2. op \in Op /\ op.ev = f /\ Queue(TabOf(p), <<op>>) /\ hist[f].shared
    BY <1>2, <1>7, <2>1 DEF Op, ReplayGivesUp, Drop
  <2>3. PICK new : new = [run EXCEPT !.pc = "dropping", !.todo = [run.todo EXCEPT ![f] = None]]
    OBVIOUS
  <2>4. new \in ReplayRun /\ new.ev = run.ev
    BY <1>1, <2>3 DEF ReplayRun, ReplayPcs
  <2>5. \A g \in Events : new.todo[g] # None => run.todo[g] # None
    BY <1>1, <2>3 DEF ReplayRun
  <2>6. rp' = [rp EXCEPT ![p] = new] /\ comp' = comp
    BY <1>1, <1>7, <2>3 DEF ReplayGivesUp, TInv, TypeOK, ReplayRun
  <2>7. \A g \in Events : hist'[g].shared = hist[g].shared
    BY <1>1, <1>7 DEF ReplayGivesUp, History
  <2> QED BY <1>2, <1>3, <1>4, <2>2, <2>4, <2>5, <2>6, <2>7 DEF SharedMarked
<1>8. ASSUME NEW f \in Events, NEW entry \in Entry, NEW R \in SUBSET Urls, hist[f].shared,
             entry.attempts < MaxAttempts, Count(p, f, entry, R), Monotone
      PROVE  MarkedChain'
  <2>1. PICK op : op = [kind |-> "put", ev |-> f, by |-> p,
                        entry |-> [entry EXCEPT !.attempts = @ + 1, !.pending = R]]
    OBVIOUS
  <2>2. op \in Op /\ op.ev = f
    <3>1. entry.attempts + 1 \in 0..MaxAttempts
      BY <1>8, OutboxAssumption DEF Entry
    <3>2. [entry EXCEPT !.attempts = @ + 1, !.pending = R] \in Entry
      BY <3>1 DEF Entry
    <3> QED BY <2>1, <3>2 DEF Op
  <2>3. Queue(TabOf(p), <<op>>)
    BY <1>8, <2>1 DEF Count
  <2> QED BY <1>4, <1>8, <2>2, <2>3
<1>9. ASSUME NEW f \in Events, ReplayResumes(p, f) PROVE SharedMarked'
  <2> DEFINE entry == run.todo[f]
  <2>1. entry \in Entry /\ entry.pending \in SUBSET Urls /\ entry.attempts < MaxAttempts
    BY <1>1, <1>9, OutboxAssumption DEF ReplayResumes, ReplayRun, Entry, Expired
  <2>2. hist[f].shared /\ Count(p, f, entry, entry.pending) /\ comp' = comp /\ hist' = hist
    BY <1>2, <1>9 DEF ReplayResumes
  <2>3. PICK new : new = [run EXCEPT !.pc = "putting", !.ev = f, !.relays = entry.pending]
    OBVIOUS
  <2>4. new \in ReplayRun /\ new.ev = f /\ new.todo = run.todo
    BY <1>1, <2>1, <2>3 DEF ReplayRun, ReplayPcs
  <2>5. rp' = [rp EXCEPT ![p] = new]
    BY <1>1, <1>9, <2>3 DEF ReplayResumes, TInv, TypeOK, ReplayRun
  <2> QED BY <1>2, <1>3, <1>8, <2>1, <2>2, <2>4, <2>5 DEF SharedMarked
<1>10. ASSUME NEW f \in Events, ReplayRecomputes(p, f) PROVE SharedMarked'
  <2>1. PICK new : new = [run EXCEPT !.pc = "computing", !.ev = f]
    OBVIOUS
  <2>2. new \in ReplayRun /\ new.ev = f /\ new.todo = run.todo
    BY <1>1, <2>1 DEF ReplayRun, ReplayPcs
  <2>3. rp' = [rp EXCEPT ![p] = new] /\ comp' = comp /\ hist' = hist /\ chain' = chain /\ hist[f].shared
    BY <1>1, <1>2, <1>10, <2>1 DEF ReplayRecomputes, TInv, TypeOK, ReplayRun
  <2> QED BY <1>2, <1>3, <1>5, <2>2, <2>3 DEF SharedMarked
<1>11. ASSUME NEW R \in RelaySets, ReplayHasRelays(p, R) PROVE SharedMarked'
  <2> DEFINE f == run.ev
  <2>1. f \in Events /\ R \in SUBSET Urls /\ hist[f].shared
    BY <1>1, <1>2, <1>11, OutboxAssumption DEF ReplayHasRelays, TInv, Shape, ReplayShape
  <2>2. PICK op : op = IF R = {} THEN [kind |-> "remove", ev |-> f, by |-> p] ELSE SetOp(f, R, p)
    OBVIOUS
  <2>3. op \in Op /\ op.ev = f
    BY <1>1, <2>1, <2>2, OpTypes DEF Op, SetOp, TInv
  <2>4. Queue(TabOf(p), <<op>>) /\ comp' = comp
    BY <1>11, <2>2 DEF ReplayHasRelays, Drop
  <2>5. PICK new : new = IF R = {} THEN [run EXCEPT !.pc = "dropping", !.todo = [run.todo EXCEPT ![f] = None]]
                         ELSE [run EXCEPT !.pc = "setting", !.relays = R]
    OBVIOUS
  <2>6. new \in ReplayRun /\ new.ev = f
    BY <1>1, <2>1, <2>5 DEF ReplayRun, ReplayPcs
  <2>7. \A g \in Events : new.todo[g] # None => run.todo[g] # None
    BY <1>1, <2>5 DEF ReplayRun
  <2>8. rp' = [rp EXCEPT ![p] = new]
    BY <1>1, <1>11, <2>5 DEF ReplayHasRelays, TInv, TypeOK, ReplayRun
  <2>9. \A g \in Events : hist'[g].shared = hist[g].shared
    BY <1>1, <1>11 DEF ReplayHasRelays, History
  <2> QED BY <1>2, <1>3, <1>4, <2>1, <2>3, <2>4, <2>6, <2>7, <2>8, <2>9 DEF SharedMarked
<1>12. CASE ReplayCounts(p)
  <2> DEFINE f == run.ev
             entry == run.todo[f]
  <2>1. /\ f \in Events /\ entry \in Entry /\ entry.attempts < MaxAttempts /\ run.relays \in SUBSET Urls
        /\ hist[f].shared
    BY <1>1, <1>2, <1>12, OutboxAssumption DEF ReplayCounts, TInv, Shape, ReplayShape, ReplayRun
  <2>2. Count(p, f, entry, run.relays) /\ comp' = comp /\ hist' = hist
    BY <1>12 DEF ReplayCounts
  <2>3. PICK new : new = [run EXCEPT !.pc = "putting"]
    OBVIOUS
  <2>4. new \in ReplayRun /\ new.ev = f /\ new.todo = run.todo
    BY <1>1, <2>3 DEF ReplayRun, ReplayPcs
  <2>5. rp' = [rp EXCEPT ![p] = new]
    BY <1>12, <2>3 DEF ReplayCounts
  <2> QED BY <1>2, <1>3, <1>8, <2>1, <2>2, <2>4, <2>5 DEF SharedMarked
<1>13. ASSUME NEW A \in SUBSET run.relays, ReplayPublishes(p, A) PROVE SharedMarked'
  <2> DEFINE f == run.ev
  <2>1. f \in Events /\ hist[f].shared
    BY <1>1, <1>2, <1>13, OutboxAssumption DEF ReplayPublishes, TInv, Shape, ReplayShape
  <2>2. PICK new : new = [run EXCEPT !.pc = IF run.relays = {} THEN "next" ELSE "mark",
                                     !.results = run.relays, !.todo = [run.todo EXCEPT ![f] = None]]
    OBVIOUS
  <2>3. new \in ReplayRun /\ new.ev = f
    BY <1>1, <2>1, <2>2 DEF ReplayRun, ReplayPcs
  <2>4. \A g \in Events : new.todo[g] # None => run.todo[g] # None
    BY <1>1, <2>2 DEF ReplayRun
  <2>5. rp' = [rp EXCEPT ![p] = new] /\ comp' = comp /\ chain' = chain
    BY <1>1, <1>13, <2>2 DEF ReplayPublishes, TInv, TypeOK, ReplayRun
  <2>6. \A g \in Events : hist'[g].shared = hist[g].shared
    BY <1>1, <1>13 DEF ReplayPublishes, History
  <2> QED BY <1>2, <1>3, <1>5, <2>1, <2>3, <2>4, <2>5, <2>6 DEF SharedMarked
<1>14. CASE ReplayPublishThrows(p)
  <2>1. PICK new : new = [run EXCEPT !.pc = "next", !.todo = [run.todo EXCEPT ![run.ev] = None]]
    OBVIOUS
  <2>2. new \in ReplayRun /\ new.ev = run.ev
    BY <1>1, <2>1 DEF ReplayRun, ReplayPcs
  <2>3. \A g \in Events : new.todo[g] # None => run.todo[g] # None
    BY <1>1, <2>1 DEF ReplayRun
  <2>4. rp' = [rp EXCEPT ![p] = new] /\ comp' = comp /\ chain' = chain /\ hist' = hist
    BY <1>1, <1>14, <2>1 DEF ReplayPublishThrows, TInv, TypeOK, ReplayRun
  <2> QED BY <1>2, <1>3, <1>5, <2>2, <2>3, <2>4 DEF SharedMarked
<1>15. ASSUME NEW r \in Urls, ReplayMarks(p, r) PROVE SharedMarked'
  <2> DEFINE f == run.ev
  <2>1. f \in Events /\ hist[f].shared
    BY <1>1, <1>2, <1>15, OutboxAssumption DEF ReplayMarks, TInv, Shape, ReplayShape
  <2>2. PICK op : op = DoneOp(f, r, p)
    OBVIOUS
  <2>3. op \in Op /\ op.ev = f
    BY <1>1, <2>1, <2>2, OpTypes DEF DoneOp, TInv
  <2>4. Queue(TabOf(p), <<op>>) /\ comp' = comp /\ hist' = hist
    BY <1>15, <2>2 DEF ReplayMarks
  <2>5. PICK new : new = [run EXCEPT !.pc = "marking", !.results = @ \ {r}]
    OBVIOUS
  <2>6. new \in ReplayRun /\ new.ev = f /\ new.todo = run.todo
    BY <1>1, <2>5 DEF ReplayRun, ReplayPcs
  <2>7. rp' = [rp EXCEPT ![p] = new]
    BY <1>1, <1>15, <2>5 DEF ReplayMarks, TInv, TypeOK, ReplayRun
  <2> QED BY <1>2, <1>3, <1>4, <2>1, <2>3, <2>4, <2>6, <2>7 DEF SharedMarked
<1>16. CASE ReplayEnds(p)
  <2>1. /\ IdleReplay \in ReplayRun /\ IdleReplay.ev = None
        /\ \A f \in Events : IdleReplay.todo[f] = None
    BY OutboxAssumption DEF IdleReplay, ReplayRun, ReplayPcs
  <2>2. rp' = [rp EXCEPT ![p] = IdleReplay] /\ comp' = comp /\ chain' = chain /\ hist' = hist
    BY <1>16 DEF ReplayEnds
  <2> QED BY <1>3, <1>5, <2>1, <2>2 DEF SharedMarked
<1> QED BY <1>6, <1>7, <1>9, <1>10, <1>11, <1>12, <1>13, <1>14, <1>15, <1>16 DEF ReplayStep

LEMMA CrashMarked ==
    ASSUME KInv, NEW t \in Tabs, Crash(t)
    PROVE  SharedMarked'
<1>1. TInv /\ MarkedChain /\ MarkedReplays /\ MarkedCompanions
  BY DEF KInv, SharedMarked
<1>2. MarkedChain'
  <2>1. \A u \in Tabs : chain'[u] = IF u = t THEN <<>> ELSE chain[u]
    BY <1>1 DEF Crash, TInv, TypeOK
  <2> QED BY <1>1, <2>1 DEF MarkedChain, Crash
<1>3. MarkedReplays'
  <2>1. \A q \in Replays : rp'[q] = rp[q] \/ rp'[q] = IdleReplay
    BY DEF Crash
  <2>2. IdleReplay.ev = None /\ \A f \in Events : IdleReplay.todo[f] = None
    BY DEF IdleReplay
  <2> QED BY <1>1, <2>1, <2>2 DEF MarkedReplays, Crash
<1>4. MarkedCompanions'
  BY <1>1 DEF MarkedCompanions, Crash, NoCompanionRun
<1> QED BY <1>2, <1>3, <1>4 DEF SharedMarked

----------------------------------------------------------------------------
(* The invariant, and the theorem. *)

LEMMA InitKInv == Init => KInv
<1> SUFFICES ASSUME Init PROVE KInv
  OBVIOUS
<1>1. TInv
  BY InitTInv
<1>2. SharedMarked
  BY DEF Init, SharedMarked, MarkedChain, MarkedReplays, MarkedCompanions, IdleReplay, NoCompanionRun
<1>3. ASSUME NEW e \in Events PROVE Solo(e)
  BY DEF Init, Solo, OwnTab, OwnPut, OwnSet, OwnDone, OwnRead, OwnPhase, Kept, OpAt
<1> QED BY <1>1, <1>2, <1>3 DEF KInv

LEMMA NextKInv == KInv /\ [Next]_vars => KInv'
<1> SUFFICES ASSUME KInv, [Next]_vars PROVE KInv'
  OBVIOUS
<1>1. TInv'
  BY NextTInv DEF KInv
<1>2. CASE UNCHANGED vars \/ TimePasses
  <2>1. UNCHANGED <<store, chain, got, live, comp, rp, hist>>
    BY <1>2 DEF vars, TimePasses
  <2>2. SharedMarked'
    BY <2>1 DEF KInv, SharedMarked, MarkedChain, MarkedReplays, MarkedCompanions
  <2>3. ASSUME NEW e \in Events, Alone(e)' PROVE Solo(e)'
    <3>1. TInv /\ Solo(e) /\ Untouched(e)
      BY <2>1, <2>3 DEF KInv, Alone, Untouched
    <3> QED BY <2>1, <3>1, StayKeepsSolo
  <2> QED BY <1>1, <2>2, <2>3 DEF KInv
<1>3. ASSUME NEW f \in Events, NEW t \in Tabs, Publish(f, t) PROVE KInv'
  BY <1>1, <1>3, PublishSolo, LiveMarked DEF KInv
<1>4. ASSUME NEW f \in Events, LiveStep(f) PROVE KInv'
  <2>1. SharedMarked'
    BY <1>4, LiveMarked
  <2>2. ASSUME NEW e \in Events, Alone(e)' PROVE Solo(e)'
    BY <1>4, <2>2, ComputeSolo, AnswersSolo, UnreachableSolo, CompanionSolo DEF LiveStep
  <2> QED BY <1>1, <2>1, <2>2 DEF KInv
<1>5. ASSUME NEW t \in Tabs, ChainStep(t) \/ WriteFails(t) PROVE KInv'
  <2>1. SharedMarked'
    BY <1>5, ChainMarked
  <2>2. ASSUME NEW e \in Events, Alone(e)' PROVE Solo(e)'
    BY <1>5, <2>2, ChainSolo
  <2> QED BY <1>1, <2>1, <2>2 DEF KInv
<1>6. ASSUME NEW t \in Tabs, Crash(t) PROVE KInv'
  <2>1. SharedMarked'
    BY <1>6, CrashMarked
  <2>2. ASSUME NEW e \in Events, Alone(e)' PROVE Solo(e)'
    BY <1>6, <2>2, CrashSolo
  <2> QED BY <1>1, <2>1, <2>2 DEF KInv
<1>7. ASSUME NEW p \in Replays, StartReplay(p) \/ ReplayStep(p) PROVE KInv'
  <2>1. SharedMarked'
    BY <1>7, ReplayMarked
  <2>2. ASSUME NEW e \in Events, Alone(e)' PROVE Solo(e)'
    BY <1>7, <2>2, ReplaySolo
  <2> QED BY <1>1, <2>1, <2>2 DEF KInv
<1> QED BY <1>2, <1>3, <1>4, <1>5, <1>6, <1>7 DEF Next

\* Whatever the events, relays, tabs, crashes and interleavings: until a replay or
\* another publish's companions touch an event (and as long as no write of it is
\* rejected), a relay of its set that has not answered is still pending in
\* IndexedDB, and the entry is gone only when all of them have answered.
THEOREM KeepsUnanswered == Spec => []LiveKeepsUnanswered
<1>1. KInv => LiveKeepsUnanswered
  <2> SUFFICES ASSUME KInv, NEW e \in Events,
                      hist[e].durable, ~hist[e].shared, ~hist[e].faulty
               PROVE  \/ store[e] = None /\ hist[e].target # None /\ hist[e].target \subseteq hist[e].answered
                      \/ store[e] # None /\ (\/ store[e].pending = None
                                             \/ /\ hist[e].target # None
                                                /\ hist[e].target \ hist[e].answered \subseteq store[e].pending)
    BY DEF LiveKeepsUnanswered
  <2>1. Kept(e)
    BY DEF KInv, Alone, Solo
  <2> QED BY <2>1 DEF Kept
<1> QED BY InitKInv, NextKInv, <1>1, PTL DEF Spec
=============================================================================
