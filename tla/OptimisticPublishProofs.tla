---------------------- MODULE OptimisticPublishProofs ----------------------
(***************************************************************************)
(* Theorems about OptimisticPublish, for any versions, reloads and cache   *)
(* policies.  The types hold of any publishes; the properties of the       *)
(* rollback hold while one edit of the address is under way at a time      *)
(* (OneEdit), and fail for two that overlap, see `optimistic_twice`.       *)
(***************************************************************************)
EXTENDS OptimisticPublish, WellFoundedInduction, TLAPS

-----------------------------------------------------------------------------
(* The invariants. *)

\* Every version seen anywhere has been made, and what a publish replaces is older.
Numbered ==
    /\ mem.v <= made /\ idb <= made
    /\ \A v \in buffer \cup queue \cup owed \cup relays : v <= made
    /\ \A p \in Edits : /\ pub[p].v <= made
                        /\ pub[p].pc # "idle" => pub[p].prev.v < pub[p].v

TInv == Types /\ Numbered

History ==
    [known : SUBSET Version, cut : SUBSET Version, unsaved : SUBSET Version, echoed : SUBSET Version, replaced : SUBSET Version]

OneEdit == \A p, q \in Edits : p = q

\* Versions of the publishes that are at one of these places.
At(pcs) == {pub[p].v : p \in {q \in Edits : pub[q].pc \in pcs}}

\* A relay has it, or it is excused.
Good == relays \cup hist.cut \cup hist.echoed \cup {0}

\* Where the version of a publish whose fate is open may be.
Traced ==
    /\ mem.v \in Good \cup At({"fanout"})
    /\ queue \subseteq Good \cup At({"fanout", "flushing"})
    /\ idb \in Good \cup At({"fanout", "flushing", "reading", "deleting"})
    /\ \A p \in Edits : pub[p].prev.v \in Good

\* Removed from memory, and what it replaced is not yet back.
Rolling(p) == pub[p].pc \in {"flushing", "reading", "deleting", "restoring"}

\* What memory held and a relay holds is in memory, or about to be put back.
Kept ==
    /\ \A v \in hist.known \ hist.echoed :
          /\ mem.v >= v \/ \E p \in Edits : Rolling(p) /\ pub[p].prev.v >= v
          /\ \A p \in Edits : pub[p].pc = "fanout" =>
                v # pub[p].v /\ (v < pub[p].v => pub[p].prev.v >= v)
    /\ \A p \in Edits : pub[p].pc = "fanout" => mem.v >= pub[p].v

\* What a failed publish had replaced is in memory and on its way to disk, or
\* the publish that is under way will put it, or a newer one, back.
Back ==
    \A v \in hist.replaced :
        /\ \A p \in Edits : pub[p].pc # "idle" => pub[p].prev.v >= v
        /\ (\A p \in Edits : ~Rolling(p)) => mem.v >= v
        /\ cacheable /\ (\A w \in hist.unsaved : w < v)
                     /\ (\A p \in Edits : ~Rolling(p) /\ pub[p].pc # "recaching")
              => \E w \in {idb} \cup queue : w >= v

Inv == TInv /\ Traced /\ Kept /\ Back

-----------------------------------------------------------------------------
(* The newest of finitely many versions. *)

\* A set of numbers up to m has a greatest: seen from m, a least.
LEMMA MaxOf ==
    ASSUME NEW m \in Nat, NEW S \in SUBSET (0..m), S # {}
    PROVE  Max(S) \in S /\ \A y \in S : Max(S) >= y
<1> DEFINE T == {n \in Nat : n <= m /\ m - n \in S}
<1>1. T \subseteq Nat /\ T # {}
  <2>1. PICK x \in S : TRUE
    OBVIOUS
  <2>2. m - x \in Nat /\ m - x <= m /\ m - (m - x) = x
    BY <2>1
  <2> QED BY <2>1, <2>2
<1>2. PICK n \in T : \A y \in T : ~(<<y, n>> \in OpToRel(<, Nat))
  BY <1>1, NatLessThanWellFounded, WFMin
<1>3. \A y \in T : ~(y < n)
  BY <1>2 DEF OpToRel
<1>4. \A y \in S : m - n >= y
  <2> SUFFICES ASSUME NEW y \in S PROVE m - n >= y
    OBVIOUS
  <2>1. y \in 0..m /\ m - y \in Nat /\ m - y <= m /\ m - (m - y) = y
    OBVIOUS
  <2>2. m - y \in T
    BY <2>1
  <2> QED BY <1>3, <2>1, <2>2
<1> QED BY <1>4 DEF Max

\* What is written is the newest of the row and the queue.
LEMMA WrittenIsNewest ==
    ASSUME Types
    PROVE  Written \in {idb} \cup queue /\ \A v \in {idb} \cup queue : Written >= v
<1>1. {idb} \cup queue \in SUBSET (0..MaxVersions) /\ {idb} \cup queue # {} /\ MaxVersions \in Nat
  BY OptimisticAssumption DEF Types, Version
<1> QED BY <1>1, MaxOf DEF Written

-----------------------------------------------------------------------------
(* Types. *)

LEMMA Typed ==
    ASSUME Types
    PROVE  /\ made \in Nat /\ mem.v \in Nat /\ mem.v \in Version /\ idb \in Nat /\ MaxVersions \in Nat
           /\ \A v \in Version : v \in Nat /\ v <= MaxVersions
           /\ \A p \in Edits : /\ pub[p] \in Publish /\ pub[p].v \in Nat /\ pub[p].v \in Version
                               /\ pub[p].prev \in Instance /\ pub[p].prev.v \in Nat /\ pub[p].prev.v \in Version
  BY OptimisticAssumption DEF Types, Version, Instance, Publish

\* A publish that moves on keeps its version and what it replaces.
LEMMA Moved ==
    ASSUME Types, NEW p \in Edits, NEW pc \in Pcs, pub' = [pub EXCEPT ![p].pc = pc]
    PROVE  /\ pub' \in [Edits -> Publish]
           /\ pub'[p].pc = pc /\ pub'[p].v = pub[p].v /\ pub'[p].prev = pub[p].prev
           /\ \A q \in Edits : q # p => pub'[q] = pub[q]
  BY DEF Types, Publish

LEMMA Put ==
    ASSUME Types, NEW p \in Edits, NEW new \in Publish, pub' = [pub EXCEPT ![p] = new]
    PROVE  /\ pub' \in [Edits -> Publish] /\ pub'[p] = new
           /\ \A q \in Edits : q # p => pub'[q] = pub[q]
  BY DEF Types

LEMMA IdleTypes ==
    Idle \in Publish /\ Idle.pc = "idle" /\ Idle.v = 0 /\ Idle.prev.v = 0 /\ Nothing \in Instance /\ Nothing.v = 0
  BY OptimisticAssumption DEF Idle, Publish, Pcs, Version, Nothing, Instance

\* What an add makes of memory and of the pipeline.
LEMMA Added ==
    ASSUME Types, NEW i \in Instance, Add(i)
    PROVE  /\ mem' \in Instance /\ buffer' \subseteq buffer \cup {i.v}
           /\ mem'.v >= mem.v /\ mem'.v >= i.v
           /\ mem'.v \in {mem.v, i.v} /\ (i.v > mem.v => mem' = i)
<1>1. i.v \in Nat /\ mem.v \in Nat /\ mem \in Instance
  BY Typed DEF Instance, Version, Types
<1> QED BY <1>1 DEF Add

LEMMA EchoTypes ==
    ASSUME Types, NEW v \in Version
    PROVE  /\ Echo(v) \in History
           /\ Echo(v).known = hist.known /\ Echo(v).cut = hist.cut /\ Echo(v).unsaved = hist.unsaved /\ Echo(v).replaced = hist.replaced
           /\ hist.echoed \subseteq Echo(v).echoed
           /\ (\E p \in Edits : pub[p].v = v) => v \in Echo(v).echoed
  BY DEF Types, Echo, History

LEMMA EditT ==
    ASSUME TInv, NEW p \in Edits, Edit(p)
    PROVE  TInv'
<1>3. PICK new, i : new = [pc |-> "fanout", v |-> made + 1, prev |-> mem] /\ i = [v |-> made + 1, cached |-> FALSE]
  OBVIOUS
<1>4. made + 1 \in Version /\ made \in Nat /\ made' = made + 1 /\ new \in Publish /\ i \in Instance /\ mem.v < made + 1
  BY <1>3, Typed, OptimisticAssumption DEF TInv, Types, Numbered, Edit, Version, Publish, Pcs, Instance
<1>5. /\ pub' = [pub EXCEPT ![p] = new] /\ Add(i) /\ owed' = owed \cup {made + 1}
      /\ UNCHANGED <<queue, idb, relays, cacheable, faults, hist>>
  BY <1>3 DEF Edit, Replaced
<1>6. /\ mem' \in Instance /\ buffer' \subseteq buffer \cup {made + 1} /\ mem'.v \in {mem.v, made + 1}
      /\ pub' \in [Edits -> Publish] /\ pub'[p] = new /\ \A q \in Edits : q # p => pub'[q] = pub[q]
  BY <1>3, <1>4, <1>5, Added, Put DEF TInv
<1>1. Types'
  BY <1>4, <1>5, <1>6 DEF TInv, Types
<1>2. Numbered'
  <2>1. \A v \in buffer' \cup queue' \cup owed' \cup relays' : v <= made'
    <3>1. \A v \in buffer \cup queue \cup owed \cup relays : v \in Nat /\ v <= made
      BY Typed DEF TInv, Types, Numbered
    <3> QED BY <1>4, <1>5, <1>6, <3>1
  <2>2. \A q \in Edits : pub'[q].v <= made' /\ (pub'[q].pc # "idle" => pub'[q].prev.v < pub'[q].v)
    <3>1. \A q \in Edits : pub[q].v \in Nat /\ pub[q].v <= made /\ (pub[q].pc # "idle" => pub[q].prev.v < pub[q].v)
      BY Typed DEF TInv, Numbered
    <3> QED BY <1>3, <1>4, <1>6, <3>1
  <2>3. mem'.v <= made' /\ idb' <= made'
    BY <1>4, <1>5, <1>6, Typed DEF TInv, Numbered
  <2> QED BY <2>1, <2>2, <2>3 DEF Numbered
<1> QED BY <1>1, <1>2 DEF TInv

LEMMA SucceedT ==
    ASSUME TInv, NEW p \in Edits, Succeed(p)
    PROVE  TInv'
<1>1. Types'
  BY Put, IdleTypes, Typed, OptimisticAssumption DEF TInv, Types, Succeed, Pcs, Version
<1>2. Numbered'
  BY Put, IdleTypes, Typed, OptimisticAssumption DEF TInv, Numbered, Types, Succeed, Pcs
<1> QED BY <1>1, <1>2 DEF TInv

LEMMA FailT ==
    ASSUME TInv, NEW p \in Edits, NEW reached \in BOOLEAN, NEW refused \in BOOLEAN, Fail(p, reached, refused)
    PROVE  TInv'
<1>1. Types'
  <2>1. pub[p].v \in Version /\ pub[p].prev.v \in Version /\ "flushing" \in Pcs /\ Nothing \in Instance
    BY Typed, IdleTypes DEF TInv, Pcs
  <2>2. pub' \in [Edits -> Publish]
    BY <2>1, Moved DEF TInv, Fail
  <2>3. relays' \subseteq Version /\ owed' \subseteq Version /\ mem' \in Instance
    BY <2>1 DEF TInv, Types, Fail, Remove
  <2>4. hist' \in History
    BY <2>1 DEF TInv, Types, Fail, History
  <2> QED BY <2>2, <2>3, <2>4 DEF TInv, Types, Fail, History
<1>2. Numbered'
  BY Moved, IdleTypes, Typed, OptimisticAssumption DEF TInv, Numbered, Types, Fail, Pcs, Remove
<1> QED BY <1>1, <1>2 DEF TInv

LEMMA UncacheFlushT ==
    ASSUME TInv, NEW p \in Edits, UncacheFlush(p)
    PROVE  TInv'
<1>1. Types'
  BY Moved, WrittenIsNewest, Typed, OptimisticAssumption DEF TInv, Types, UncacheFlush, Pcs, Version, WriteQueue
<1>2. Numbered'
  BY Moved, WrittenIsNewest, Typed, OptimisticAssumption DEF TInv, Numbered, Types, UncacheFlush, Pcs, WriteQueue
<1> QED BY <1>1, <1>2 DEF TInv

LEMMA UncacheReadT ==
    ASSUME TInv, NEW p \in Edits, UncacheRead(p)
    PROVE  TInv'
<1>1. Types'
  <2>1. PICK pc \in Pcs : pub' = [pub EXCEPT ![p].pc = pc]
    BY DEF UncacheRead, Pcs
  <2> QED BY <2>1, Moved DEF TInv, Types, UncacheRead
<1>2. Numbered'
  BY Moved, Typed, OptimisticAssumption DEF TInv, Numbered, Types, UncacheRead, Pcs, IsStored
<1> QED BY <1>1, <1>2 DEF TInv

LEMMA UncacheDeleteT ==
    ASSUME TInv, NEW p \in Edits, UncacheDelete(p)
    PROVE  TInv'
<1>1. Types'
  <2>1. pub' \in [Edits -> Publish]
    BY Moved DEF TInv, UncacheDelete, Pcs
  <2>2. idb' \in Version
    BY OptimisticAssumption DEF UncacheDelete, Version
  <2> QED BY <2>1, <2>2 DEF TInv, Types, UncacheDelete
<1>2. Numbered'
  BY Moved, Typed, OptimisticAssumption DEF TInv, Numbered, Types, UncacheDelete, Pcs
<1> QED BY <1>1, <1>2 DEF TInv

LEMMA UncacheFailsT ==
    ASSUME TInv, NEW p \in Edits, UncacheFails(p)
    PROVE  TInv'
<1>1. /\ pub' = [pub EXCEPT ![p].pc = "restoring"] /\ "restoring" \in Pcs /\ queue' \in {queue, {}}
      /\ faults' \in 0..MaxFaults /\ pub[p].v \in Version /\ pub[p].pc # "idle"
  BY Typed, OptimisticAssumption DEF TInv, Types, UncacheFails, FlushFails, Fault, Pcs
<1>2. hist' \in History
  BY <1>1 DEF TInv, Types, History, UncacheFails
<1>3. Types'
  BY <1>1, <1>2, Moved DEF TInv, Types, History, UncacheFails
<1>4. Numbered'
  BY <1>1, Moved DEF TInv, Numbered, UncacheFails
<1> QED BY <1>3, <1>4 DEF TInv

LEMMA RestoreT ==
    ASSUME TInv, NEW p \in Edits, Restore(p)
    PROVE  TInv'
<1>1. Types'
  BY Moved, Put, IdleTypes, Added, Typed, OptimisticAssumption DEF TInv, Types, Restore, Pcs, Version
<1>2. Numbered'
  BY Moved, Put, IdleTypes, Added, Typed, OptimisticAssumption DEF TInv, Numbered, Types, Restore, Pcs
<1> QED BY <1>1, <1>2 DEF TInv

LEMMA RecacheT ==
    ASSUME TInv, NEW p \in Edits, Recache(p)
    PROVE  TInv'
<1>1. Types'
  <2>1. pub[p].prev.v \in Version
    BY Typed DEF TInv
  <2> QED BY <2>1, Put, IdleTypes DEF TInv, Types, Recache
<1>2. Numbered'
  BY Put, IdleTypes, Typed, OptimisticAssumption DEF TInv, Numbered, Types, Recache, Pcs
<1> QED BY <1>1, <1>2 DEF TInv

LEMMA RecacheFailsT ==
    ASSUME TInv, NEW p \in Edits, RecacheFails(p)
    PROVE  TInv'
<1>1. /\ pub' = [pub EXCEPT ![p] = Idle] /\ queue' \in {queue, {}}
      /\ faults' \in 0..MaxFaults /\ pub[p].prev.v \in Version
  BY Typed, OptimisticAssumption DEF TInv, Types, RecacheFails, FlushFails, Fault
<1>2. hist' \in History
  BY <1>1 DEF TInv, Types, History, RecacheFails
<1>3. Types'
  BY <1>1, <1>2, Put, IdleTypes DEF TInv, Types, History, RecacheFails
<1>4. Numbered'
  BY <1>1, Put, IdleTypes, Typed DEF TInv, Numbered, RecacheFails
<1> QED BY <1>3, <1>4 DEF TInv

LEMMA FlushT ==
    ASSUME TInv, Flush
    PROVE  TInv'
<1>1. Types'
  BY Typed, OptimisticAssumption DEF TInv, Types, Flush, Pcs, Version, StillHeld
<1>2. Numbered'
  BY Typed, OptimisticAssumption DEF TInv, Numbered, Types, Flush, Pcs, StillHeld
<1> QED BY <1>1, <1>2 DEF TInv

LEMMA WriteT ==
    ASSUME TInv, Write
    PROVE  TInv'
<1>1. Types'
  BY WrittenIsNewest, Typed, OptimisticAssumption DEF TInv, Types, Write, Pcs, Version, WriteQueue
<1>2. Numbered'
  BY WrittenIsNewest, Typed, OptimisticAssumption DEF TInv, Numbered, Types, Write, Pcs, WriteQueue
<1> QED BY <1>1, <1>2 DEF TInv

LEMMA ReadCacheT ==
    ASSUME TInv, ReadCache
    PROVE  TInv'
<1>3. Written \in Version /\ Written \in Nat /\ Written <= made
  BY WrittenIsNewest, Typed DEF TInv, Types, Numbered
<1>4. PICK i \in Instance, c \in BOOLEAN : i = [v |-> Written, cached |-> c] /\ i.v = Written /\ Add(i)
  BY <1>3 DEF Instance, ReadCache
<1>5. mem' \in Instance /\ buffer' \subseteq buffer \cup {Written} /\ mem'.v \in {mem.v, Written}
  BY <1>4, Added DEF TInv, Types
<1>6. hist' \in History
  BY <1>3, EchoTypes DEF TInv, Types, History, ReadCache
<1>1. Types'
  BY <1>3, <1>5, <1>6 DEF TInv, Types, History, ReadCache
<1>2. Numbered'
  <2>1. \A w \in buffer' \cup queue' \cup owed' \cup relays' :
           w \in buffer \cup queue \cup owed \cup relays \cup {Written}
    BY <1>5 DEF ReadCache
  <2> QED BY <1>3, <1>5, <2>1 DEF TInv, Numbered, ReadCache
<1> QED BY <1>1, <1>2 DEF TInv

LEMMA OtherDeviceT ==
    ASSUME TInv, OtherDevice
    PROVE  TInv'
<1>1. Types'
  BY Typed, OptimisticAssumption DEF TInv, Types, OtherDevice, Pcs, Version
<1>2. Numbered'
  BY Typed, OptimisticAssumption DEF TInv, Numbered, Types, OtherDevice, Pcs
<1> QED BY <1>1, <1>2 DEF TInv

LEMMA ArriveT ==
    ASSUME TInv, NEW v \in relays, Arrive(v)
    PROVE  TInv'
<1>3. v \in Version /\ v \in Nat /\ v <= made
  BY Typed DEF TInv, Types, Numbered
<1>4. PICK i \in Instance, c \in BOOLEAN : i = [v |-> v, cached |-> c] /\ i.v = v /\ Add(i)
  BY <1>3 DEF Instance, Arrive
<1>5. mem' \in Instance /\ buffer' \subseteq buffer \cup {v} /\ mem'.v \in {mem.v, v}
  BY <1>4, Added DEF TInv, Types
<1>6. hist' \in History
  BY <1>3, EchoTypes DEF TInv, Types, History, Arrive
<1>1. Types'
  BY <1>3, <1>5, <1>6 DEF TInv, Types, History, Arrive
<1>2. Numbered'
  <2>1. \A w \in buffer' \cup queue' \cup owed' \cup relays' :
           w \in buffer \cup queue \cup owed \cup relays \cup {v}
    BY <1>5 DEF Arrive
  <2> QED BY <1>3, <1>5, <2>1 DEF TInv, Numbered, Arrive
<1> QED BY <1>1, <1>2 DEF TInv

LEMMA ReplayT ==
    ASSUME TInv, NEW v \in owed, NEW delivered \in BOOLEAN, Replay(v, delivered)
    PROVE  TInv'
<1>3. v \in Version /\ v \in Nat /\ v <= made
  BY Typed DEF TInv, Types, Numbered
<1>4. PICK i \in Instance : i = [v |-> v, cached |-> FALSE] /\ i.v = v
  <2>1. [v |-> v, cached |-> FALSE] \in Instance /\ [v |-> v, cached |-> FALSE].v = v
    BY <1>3 DEF Instance
  <2> QED BY <2>1
<1>5. mem' \in Instance /\ buffer' \subseteq buffer \cup {v} /\ mem'.v \in {mem.v, v}
  BY <1>4, Added DEF TInv, Types, Replay
<1>6. hist' \in History
  BY <1>3, EchoTypes DEF TInv, Types, History, Replay
<1>1. Types'
  BY <1>3, <1>5, <1>6 DEF TInv, Types, History, Replay
<1>2. Numbered'
  <2>1. \A w \in buffer' \cup queue' \cup owed' \cup relays' :
           w \in buffer \cup queue \cup owed \cup relays \cup {v}
    BY <1>5 DEF Replay
  <2> QED BY <1>3, <1>5, <2>1 DEF TInv, Numbered, Replay
<1> QED BY <1>1, <1>2 DEF TInv

LEMMA ReloadT ==
    ASSUME TInv, Reload
    PROVE  TInv'
<1>1. Types'
  <2>1. {pub[p].v : p \in Edits} \subseteq Version
    BY Typed DEF TInv
  <2>2. hist' \in History
    BY <2>1 DEF TInv, Types, History, Reload
  <2>3. pub' \in [Edits -> Publish] /\ mem' \in Instance
    BY IdleTypes DEF Reload
  <2>4. faults' \in 0..MaxFaults
    BY OptimisticAssumption DEF TInv, Types, Reload, Fault
  <2> QED BY <2>2, <2>3, <2>4 DEF TInv, Types, History, Reload
<1>2. Numbered'
  BY IdleTypes, Typed, OptimisticAssumption DEF TInv, Numbered, Types, Reload, Pcs
<1> QED BY <1>1, <1>2 DEF TInv

LEMMA InitT == Init => TInv
  BY IdleTypes, OptimisticAssumption DEF Init, TInv, Types, Numbered, Version

LEMMA NextT == TInv /\ [Next]_vars => TInv'
<1> SUFFICES ASSUME TInv, [Next]_vars PROVE TInv'
  OBVIOUS
<1>1. CASE UNCHANGED vars
  BY <1>1 DEF vars, TInv, Types, Numbered
<1>2. ASSUME NEW p \in Edits, PublishStep(p) PROVE TInv'
  BY <1>2, EditT, SucceedT, FailT, UncacheFlushT, UncacheReadT, UncacheDeleteT,
     UncacheFailsT, RestoreT, RecacheT, RecacheFailsT DEF PublishStep
<1> QED BY <1>1, <1>2, FlushT, WriteT, ReadCacheT, OtherDeviceT, ArriveT, ReplayT, ReloadT DEF Next

LEMMA TypesInvariant == Spec => []TInv
  BY InitT, NextT, PTL DEF Spec

\* Whatever publishes, reloads, devices and replays do, memory, the cache
\* pipeline and IndexedDB keep their types.
THEOREM TypeCorrect == Spec => []TypeOK
<1>1. TInv => TypeOK
  BY DEF TInv, TypeOK, Numbered
<1> QED BY <1>1, TypesInvariant, PTL

-----------------------------------------------------------------------------
(* The rollback of one edit at a time. *)

LEMMA EditR ==
    ASSUME OneEdit, Inv, NEW p \in Edits, Edit(p)
    PROVE  Traced' /\ Kept' /\ Back'
<1> USE DEF Inv
<1>1. Types /\ Numbered /\ hist \in History
  BY DEF TInv, Types, History
<1>5. PICK new, i : new = [pc |-> "fanout", v |-> made + 1, prev |-> mem] /\ i = [v |-> made + 1, cached |-> FALSE]
  OBVIOUS
<1>6. made + 1 \in Version /\ new \in Publish /\ i \in Instance /\ i.v = made + 1 /\ mem.v < made + 1 /\ mem.v \in Nat
  BY <1>1, <1>5, Typed, OptimisticAssumption DEF Types, Numbered, Edit, Version, Publish, Pcs, Instance
<1>7. /\ pub' = [pub EXCEPT ![p] = new] /\ Add(i) /\ pub[p].pc = "idle"
      /\ UNCHANGED <<queue, idb, relays, cacheable, hist>>
  BY <1>5 DEF Edit, Replaced
<1>8. /\ mem'.v = made + 1
      /\ pub'[p].pc = "fanout" /\ pub'[p].v = made + 1 /\ pub'[p].prev = mem
      /\ \A q \in Edits : q = p
  BY <1>1, <1>5, <1>6, <1>7, Added, Put DEF OneEdit
<1>2. Traced'
  <2>1. mem.v \in Good /\ queue \subseteq Good /\ idb \in Good
    BY <1>7, <1>8 DEF Traced, At
  <2>2. Good' = Good /\ At({"fanout"})' = {made + 1}
    BY <1>7, <1>8 DEF Good, At
  <2> QED BY <1>7, <1>8, <2>1, <2>2 DEF Traced
<1>3. Kept'
  <2>1. \A v \in hist.known \ hist.echoed : v \in Nat /\ mem.v >= v
    BY <1>1, <1>7, <1>8, Typed DEF Kept, Rolling, History
  <2>2. \A q \in Edits : pub'[q].pc = "fanout" /\ pub'[q].v = made + 1 /\ pub'[q].prev.v = mem.v
    BY <1>8
  <2>3. \A v \in hist.known \ hist.echoed : v # made + 1 /\ made + 1 >= v /\ mem.v >= v
    BY <1>1, <1>6, <2>1, Typed
  <2> QED BY <1>1, <1>7, <1>8, <2>2, <2>3, Typed DEF Kept
<1>4. Back'
  <2>1. \A v \in hist.replaced :
           /\ v \in Nat /\ mem.v >= v
           /\ cacheable /\ (\A w \in hist.unsaved : w < v) => \E w \in {idb} \cup queue : w >= v
    BY <1>1, <1>7, <1>8, Typed DEF Back, Rolling, History
  <2>2. \A q \in Edits : pub'[q].prev.v = mem.v
    BY <1>8
  <2>3. \A v \in hist.replaced : made + 1 >= v
    BY <1>1, <1>6, <2>1, Typed
  <2> QED BY <1>7, <1>8, <2>1, <2>2, <2>3 DEF Back
<1> QED BY <1>2, <1>3, <1>4

LEMMA SucceedR ==
    ASSUME OneEdit, Inv, NEW p \in Edits, Succeed(p)
    PROVE  Traced' /\ Kept' /\ Back'
<1> USE DEF Inv
<1>1. Types /\ Numbered /\ hist \in History
  BY DEF TInv, Types, History
<1>2. Traced'
  BY <1>1, Typed, Put, IdleTypes DEF OneEdit, Traced, At, Good, History, Pcs, Succeed
<1>3. Kept'
  BY <1>1, Typed, Put, IdleTypes DEF OneEdit, Kept, Rolling, Numbered, Types, History, Pcs, Succeed
<1>4. Back'
  BY <1>1, Typed, Put, IdleTypes DEF OneEdit, Back, Rolling, Numbered, Types, History, Pcs, Succeed
<1> QED BY <1>2, <1>3, <1>4

LEMMA FailR ==
    ASSUME OneEdit, Inv, NEW p \in Edits, NEW reached \in BOOLEAN, NEW refused \in BOOLEAN, Fail(p, reached, refused)
    PROVE  Traced' /\ Kept' /\ Back'
<1> USE DEF Inv
<1>1. Types /\ Numbered /\ hist \in History
  BY DEF TInv, Types, History
<1>2. Traced'
  BY <1>1, Typed, Moved, IdleTypes DEF OneEdit, Traced, At, Good, History, Pcs, Fail, Remove
<1>3. Kept'
  <2>1. /\ pub'[p].pc = "flushing" /\ pub'[p].prev = pub[p].prev /\ pub[p].pc = "fanout" /\ \A q \in Edits : q = p
        /\ hist'.known = hist.known /\ hist'.echoed = hist.echoed
    <3>1. pub' = [pub EXCEPT ![p].pc = "flushing"] /\ pub[p].pc = "fanout" /\ "flushing" \in Pcs
      BY DEF Fail, Pcs
    <3>2. hist'.known = hist.known /\ hist'.echoed = hist.echoed
      BY <1>1 DEF Fail, History
    <3> QED BY <1>1, <3>1, <3>2, Moved DEF OneEdit
  <2>2. mem' = mem \/ mem.v = pub[p].v
    BY DEF Fail, Remove
  <2>3. \A v \in hist.known \ hist.echoed : v \in Nat /\ mem.v >= v /\ v # pub[p].v /\ (v < pub[p].v => pub[p].prev.v >= v)
    BY <1>1, <2>1, Typed DEF Kept, Rolling, History
  <2>4. \A v \in hist.known \ hist.echoed : mem'.v >= v \/ pub'[p].prev.v >= v
    BY <1>1, <2>1, <2>2, <2>3, Typed
  <2> QED BY <2>1, <2>4 DEF Kept, Rolling
<1>4. Back'
  BY <1>1, Typed, Moved, IdleTypes DEF OneEdit, Back, Rolling, Numbered, Types, History, Pcs, Fail, Remove
<1> QED BY <1>2, <1>3, <1>4

LEMMA UncacheFlushR ==
    ASSUME OneEdit, Inv, NEW p \in Edits, UncacheFlush(p)
    PROVE  Traced' /\ Kept' /\ Back'
<1> USE DEF Inv
<1>1. Types /\ Numbered /\ hist \in History
  BY DEF TInv, Types, History
<1>2. Traced'
  BY <1>1, Typed, Moved, IdleTypes, WrittenIsNewest DEF OneEdit, Traced, At, Good, History, Pcs, UncacheFlush, WriteQueue
<1>3. Kept'
  BY <1>1, Typed, Moved, IdleTypes, WrittenIsNewest DEF OneEdit, Kept, Rolling, Numbered, Types, History, Pcs, UncacheFlush, WriteQueue
<1>4. Back'
  BY <1>1, Typed, Moved, IdleTypes, WrittenIsNewest DEF OneEdit, Back, Rolling, Numbered, Types, History, Pcs, UncacheFlush, WriteQueue
<1> QED BY <1>2, <1>3, <1>4

LEMMA UncacheReadR ==
    ASSUME OneEdit, Inv, NEW p \in Edits, UncacheRead(p)
    PROVE  Traced' /\ Kept' /\ Back'
<1> USE DEF Inv
<1>1. Types /\ Numbered /\ hist \in History
  BY DEF TInv, Types, History
<1>2. Traced'
  <2>1. PICK pc \in {"deleting", "restoring"} :
           pub' = [pub EXCEPT ![p].pc = pc] /\ (pc = "restoring" => idb # pub[p].v)
    BY DEF UncacheRead, IsStored
  <2>2. /\ pub'[p].pc = pc /\ pub'[p].v = pub[p].v /\ pub'[p].prev = pub[p].prev /\ pub[p].pc = "reading"
        /\ \A q \in Edits : q = p
    BY <1>1, <2>1, Moved DEF OneEdit, UncacheRead, Pcs
  <2>3. /\ mem.v \in Good /\ queue \subseteq Good /\ idb \in Good \cup {pub[p].v} /\ pub[p].prev.v \in Good
        /\ pc = "restoring" => idb \in Good
    BY <2>1, <2>2 DEF Traced, At
  <2>4. UNCHANGED <<mem, queue, idb, relays, hist>> /\ Good' = Good
    BY DEF UncacheRead, Good
  <2>5. pc = "deleting" => pub[p].v \in At({"fanout", "flushing", "reading", "deleting"})'
    BY <2>2 DEF At
  <2> QED BY <2>1, <2>2, <2>3, <2>4, <2>5 DEF Traced
<1>3. Kept'
  BY <1>1, Typed, Moved, IdleTypes DEF OneEdit, Kept, Rolling, Numbered, Types, History, Pcs, UncacheRead, IsStored
<1>4. Back'
  BY <1>1, Typed, Moved, IdleTypes DEF OneEdit, Back, Rolling, Numbered, Types, History, Pcs, UncacheRead, IsStored
<1> QED BY <1>2, <1>3, <1>4

LEMMA UncacheDeleteR ==
    ASSUME OneEdit, Inv, NEW p \in Edits, UncacheDelete(p)
    PROVE  Traced' /\ Kept' /\ Back'
<1> USE DEF Inv
<1>1. Types /\ Numbered /\ hist \in History
  BY DEF TInv, Types, History
<1>2. Traced'
  BY <1>1, Typed, Moved, IdleTypes DEF OneEdit, Traced, At, Good, History, Pcs, UncacheDelete
<1>3. Kept'
  BY <1>1, Typed, Moved, IdleTypes DEF OneEdit, Kept, Rolling, Numbered, Types, History, Pcs, UncacheDelete
<1>4. Back'
  BY <1>1, Typed, Moved, IdleTypes DEF OneEdit, Back, Rolling, Numbered, Types, History, Pcs, UncacheDelete
<1> QED BY <1>2, <1>3, <1>4

LEMMA UncacheFailsR ==
    ASSUME OneEdit, Inv, NEW p \in Edits, UncacheFails(p)
    PROVE  Traced' /\ Kept' /\ Back'
<1> USE DEF Inv
<1>1. Types /\ Numbered /\ hist \in History
  BY DEF TInv, Types, History
<1>5. /\ pub'[p].pc = "restoring" /\ pub'[p].v = pub[p].v /\ pub'[p].prev = pub[p].prev
      /\ pub[p].pc \in {"flushing", "reading", "deleting"} /\ queue' \subseteq queue
      /\ UNCHANGED <<mem, idb, relays>> /\ \A q \in Edits : q = p
  BY <1>1, Moved DEF OneEdit, UncacheFails, FlushFails, Pcs
<1>6. /\ hist'.cut = hist.cut \cup {pub[p].v} /\ hist'.known = hist.known /\ hist'.echoed = hist.echoed
      /\ hist'.replaced = hist.replaced
  BY <1>1 DEF UncacheFails, History
<1>2. Traced'
  BY <1>5, <1>6 DEF Traced, At, Good
<1>3. Kept'
  BY <1>5, <1>6 DEF Kept, Rolling
<1>4. Back'
  BY <1>5, <1>6 DEF Back, Rolling
<1> QED BY <1>2, <1>3, <1>4

LEMMA RestoreR ==
    ASSUME OneEdit, Inv, NEW p \in Edits, Restore(p)
    PROVE  Traced' /\ Kept' /\ Back'
<1> USE DEF Inv
<1>1. Types /\ Numbered /\ hist \in History
  BY DEF TInv, Types, History
<1>2. Traced'
  BY <1>1, Typed, Moved, Put, IdleTypes, Added DEF OneEdit, Traced, At, Good, History, Pcs, Restore
<1>3. Kept'
  BY <1>1, Typed, Moved, Put, IdleTypes, Added DEF OneEdit, Kept, Rolling, Numbered, Types, History, Pcs, Restore
<1>4. Back'
  BY <1>1, Typed, Moved, Put, IdleTypes, Added DEF OneEdit, Back, Rolling, Numbered, Types, History, Pcs, Restore
<1> QED BY <1>2, <1>3, <1>4

LEMMA RecacheR ==
    ASSUME OneEdit, Inv, NEW p \in Edits, Recache(p)
    PROVE  Traced' /\ Kept' /\ Back'
<1> USE DEF Inv
<1>1. Types /\ Numbered /\ hist \in History
  BY DEF TInv, Types, History
<1>2. Traced'
  BY <1>1, Typed, Put, IdleTypes DEF OneEdit, Traced, At, Good, History, Pcs, Recache
<1>3. Kept'
  BY <1>1, Typed, Put, IdleTypes DEF OneEdit, Kept, Rolling, Numbered, Types, History, Pcs, Recache
<1>4. Back'
  BY <1>1, Typed, Put, IdleTypes DEF OneEdit, Back, Rolling, Numbered, Types, History, Pcs, Recache
<1> QED BY <1>2, <1>3, <1>4

LEMMA RecacheFailsR ==
    ASSUME OneEdit, Inv, NEW p \in Edits, RecacheFails(p)
    PROVE  Traced' /\ Kept' /\ Back'
<1> USE DEF Inv
<1>1. Types /\ Numbered /\ hist \in History
  BY DEF TInv, Types, History
<1>5. /\ pub'[p] = Idle /\ pub[p].pc = "recaching" /\ queue' \subseteq queue
      /\ UNCHANGED <<mem, idb, relays>> /\ \A q \in Edits : q = p
  BY <1>1, Put, IdleTypes DEF OneEdit, RecacheFails, FlushFails
<1>6. /\ hist'.cut = hist.cut /\ hist'.known = hist.known /\ hist'.echoed = hist.echoed
      /\ hist'.replaced = hist.replaced /\ pub[p].prev.v \in hist'.unsaved
  BY <1>1 DEF RecacheFails, History
<1>2. Traced'
  BY <1>5, <1>6, IdleTypes DEF Traced, At, Good
<1>3. Kept'
  BY <1>5, <1>6, IdleTypes DEF Kept, Rolling
<1>4. Back'
  <2>1. \A v \in hist.replaced : v \in Nat /\ pub[p].prev.v \in Nat /\ pub[p].prev.v >= v /\ mem.v >= v
    BY <1>1, <1>5, Typed DEF Back, Rolling, History
  <2>2. \A v \in hist.replaced : ~(pub[p].prev.v < v)
    BY <2>1
  <2> QED BY <1>5, <1>6, <2>1, <2>2, IdleTypes DEF Back, Rolling
<1> QED BY <1>2, <1>3, <1>4

LEMMA FlushR ==
    ASSUME OneEdit, Inv, Flush
    PROVE  Traced' /\ Kept' /\ Back'
<1> USE DEF Inv
<1>1. Types /\ Numbered /\ hist \in History
  BY DEF TInv, Types, History
<1>2. Traced'
  BY <1>1, Typed DEF OneEdit, Traced, At, Good, History, Pcs, Flush, StillHeld
<1>3. Kept'
  BY <1>1, Typed DEF OneEdit, Kept, Rolling, Numbered, Types, History, Pcs, Flush, StillHeld
<1>4. Back'
  BY <1>1, Typed DEF OneEdit, Back, Rolling, Numbered, Types, History, Pcs, Flush, StillHeld
<1> QED BY <1>2, <1>3, <1>4

LEMMA WriteR ==
    ASSUME OneEdit, Inv, Write
    PROVE  Traced' /\ Kept' /\ Back'
<1> USE DEF Inv
<1>1. Types /\ Numbered /\ hist \in History
  BY DEF TInv, Types, History
<1>2. Traced'
  BY <1>1, Typed, WrittenIsNewest DEF OneEdit, Traced, At, Good, History, Pcs, Write, WriteQueue
<1>3. Kept'
  BY <1>1, Typed, WrittenIsNewest DEF OneEdit, Kept, Rolling, Numbered, Types, History, Pcs, Write, WriteQueue
<1>4. Back'
  <2>1. /\ UNCHANGED <<hist, pub, mem, cacheable>> /\ idb' = Written /\ queue' = {}
        /\ \A p \in Edits : Rolling(p)' = Rolling(p)
    BY DEF Write, WriteQueue, Rolling
  <2>2. {idb} \cup queue \subseteq Nat /\ hist.replaced \subseteq Nat
    BY <1>1, Typed DEF Types
  <2>3. Written \in Nat /\ \A w \in {idb} \cup queue : Written >= w
    <3>1. Types BY <1>1
    <3> QED BY <2>2, <3>1, WrittenIsNewest
  <2>4. \A v \in hist.replaced : \A w \in {idb} \cup queue : w >= v => Written >= v
    <3> SUFFICES ASSUME NEW v \in Nat, NEW w \in Nat, w >= v, Written >= w, Written \in Nat PROVE Written >= v
      BY <2>2, <2>3
    <3> QED OBVIOUS
  <2> QED BY <2>1, <2>4 DEF Back
<1> QED BY <1>2, <1>3, <1>4

LEMMA ReadCacheR ==
    ASSUME OneEdit, Inv, ReadCache
    PROVE  Traced' /\ Kept' /\ Back'
<1> USE DEF Inv
<1>1. Types /\ Numbered /\ hist \in History
  BY DEF TInv, Types, History
<1>5. Written \in Version /\ Written \in Nat /\ mem.v \in Nat
  BY <1>1, WrittenIsNewest, Typed DEF Types
<1>6. PICK i \in Instance : i.v = Written /\ Add(i)
  <2>1. \A c \in BOOLEAN : [v |-> Written, cached |-> c] \in Instance /\ [v |-> Written, cached |-> c].v = Written
    BY <1>5 DEF Instance
  <2> QED BY <2>1 DEF ReadCache
<1>7. mem'.v \in Nat /\ mem'.v >= mem.v /\ mem'.v \in {mem.v, Written} /\ mem'.v >= Written
  BY <1>1, <1>5, <1>6, Added
<1>8. /\ UNCHANGED <<pub, queue, idb, cacheable>> /\ relays \subseteq relays'
      /\ hist'.cut = hist.cut /\ hist'.unsaved = hist.unsaved
      /\ hist'.replaced = hist.replaced /\ hist.echoed \subseteq hist'.echoed
      /\ hist'.known \subseteq hist.known \cup {Written}
  BY <1>1, <1>5, EchoTypes DEF ReadCache, History
<1>2. Traced'
  <2>1. Good \subseteq Good' /\ \A pcs : At(pcs)' = At(pcs)
    BY <1>8 DEF Good, At
  <2>2. mem'.v \in Good' \cup At({"fanout"})
    <3>1. Written \in Good \/ \E p \in Edits : pub[p].v = Written
      BY <1>1, WrittenIsNewest DEF Traced, At
    <3>2. (\E p \in Edits : pub[p].v = Written) => Written \in Good'
      BY <1>1, <1>5, EchoTypes DEF ReadCache, Good
    <3> QED BY <1>7, <2>1, <3>1, <3>2 DEF Traced
  <2> QED BY <1>8, <2>1, <2>2 DEF Traced
<1>3. Kept'
  <2>1. hist'.known = hist.known
    BY <1>1, <1>5, EchoTypes DEF ReadCache, History
  <2>2. \A v \in hist.known : v \in Nat
    BY <1>1, Typed DEF History
  <2>3. \A p \in Edits : pub[p].v \in Nat
    BY <1>1, Typed
  <2> QED BY <1>5, <1>7, <1>8, <2>1, <2>2, <2>3 DEF Kept, Rolling
<1>4. Back'
  <2>1. \A w \in hist.replaced : w \in Nat
    BY <1>1, Typed DEF History
  <2> QED BY <1>5, <1>7, <1>8, <2>1 DEF Back, Rolling
<1> QED BY <1>2, <1>3, <1>4

LEMMA OtherDeviceR ==
    ASSUME OneEdit, Inv, OtherDevice
    PROVE  Traced' /\ Kept' /\ Back'
<1> USE DEF Inv
<1>1. Types /\ Numbered /\ hist \in History
  BY DEF TInv, Types, History
<1>2. Traced'
  BY <1>1, Typed DEF OneEdit, Traced, At, Good, History, Pcs, OtherDevice
<1>3. Kept'
  BY <1>1, Typed DEF OneEdit, Kept, Rolling, Numbered, Types, History, Pcs, OtherDevice
<1>4. Back'
  BY <1>1, Typed DEF OneEdit, Back, Rolling, Numbered, Types, History, Pcs, OtherDevice
<1> QED BY <1>2, <1>3, <1>4

LEMMA ArriveR ==
    ASSUME OneEdit, Inv, NEW v \in relays, Arrive(v)
    PROVE  Traced' /\ Kept' /\ Back'
<1> USE DEF Inv
<1>1. Types /\ Numbered /\ hist \in History
  BY DEF TInv, Types, History
<1>5. v \in Version /\ v \in Nat /\ mem.v \in Nat
  BY <1>1, WrittenIsNewest, Typed DEF Types
<1>6. PICK i \in Instance : i.v = v /\ Add(i)
  <2>1. \A c \in BOOLEAN : [v |-> v, cached |-> c] \in Instance /\ [v |-> v, cached |-> c].v = v
    BY <1>5 DEF Instance
  <2> QED BY <2>1 DEF Arrive
<1>7. mem'.v \in Nat /\ mem'.v >= mem.v /\ mem'.v \in {mem.v, v} /\ mem'.v >= v
  BY <1>1, <1>5, <1>6, Added
<1>8. /\ UNCHANGED <<pub, queue, idb, cacheable>> /\ relays \subseteq relays'
      /\ hist'.cut = hist.cut /\ hist'.unsaved = hist.unsaved
      /\ hist'.replaced = hist.replaced /\ hist.echoed \subseteq hist'.echoed
      /\ hist'.known \subseteq hist.known \cup {v}
  BY <1>1, <1>5, EchoTypes DEF Arrive, History
<1>2. Traced'
  <2>1. Good \subseteq Good' /\ \A pcs : At(pcs)' = At(pcs)
    BY <1>8 DEF Good, At
  <2>2. mem'.v \in Good' \cup At({"fanout"})
    <3>1. mem'.v = mem.v \/ mem'.v \in Good'
      BY <1>7 DEF Arrive, Good
    <3> QED BY <2>1, <3>1 DEF Traced
  <2> QED BY <1>8, <2>1, <2>2 DEF Traced
<1>3. Kept'
  <2>1. \A w \in hist.known : w \in Nat
    BY <1>1, Typed DEF History
  <2>2. \A q \in Edits : pub[q].v \in Nat
    BY <1>1, Typed
  <2>3. \A q \in Edits : pub[q].pc = "fanout" => mem'.v >= pub[q].v
    BY <1>5, <1>7, <2>2 DEF Kept
  <2>4. \A w \in hist'.known \ hist'.echoed : w # v =>
           /\ mem'.v >= w \/ \E q \in Edits : Rolling(q) /\ pub[q].prev.v >= w
           /\ \A q \in Edits : pub[q].pc = "fanout" =>
                 w # pub[q].v /\ (w < pub[q].v => pub[q].prev.v >= w)
    BY <1>5, <1>7, <1>8, <2>1 DEF Kept
  <2>5. v \in hist'.known \ hist'.echoed =>
           /\ mem'.v >= v \/ \E q \in Edits : Rolling(q) /\ pub[q].prev.v >= v
           /\ \A q \in Edits : pub[q].pc = "fanout" =>
                 v # pub[q].v /\ (v < pub[q].v => pub[q].prev.v >= v)
    BY <1>5, <1>7, <2>2 DEF Arrive, Kept
  <2> QED BY <1>8, <2>3, <2>4, <2>5 DEF Kept, Rolling
<1>4. Back'
  <2>1. \A w \in hist.replaced : w \in Nat
    BY <1>1, Typed DEF History
  <2> QED BY <1>5, <1>7, <1>8, <2>1 DEF Back, Rolling
<1> QED BY <1>2, <1>3, <1>4

LEMMA ReplayR ==
    ASSUME OneEdit, Inv, NEW v \in owed, NEW delivered \in BOOLEAN, Replay(v, delivered)
    PROVE  Traced' /\ Kept' /\ Back'
<1> USE DEF Inv
<1>1. Types /\ Numbered /\ hist \in History
  BY DEF TInv, Types, History
<1>5. v \in Version /\ v \in Nat /\ mem.v \in Nat
  BY <1>1, WrittenIsNewest, Typed DEF Types
<1>6. PICK i \in Instance : i.v = v /\ (delivered => Add(i)) /\ (~delivered => mem' = mem)
  <2>1. \A c \in BOOLEAN : [v |-> v, cached |-> c] \in Instance /\ [v |-> v, cached |-> c].v = v
    BY <1>5 DEF Instance
  <2> QED BY <2>1 DEF Replay
<1>7. mem'.v \in Nat /\ mem'.v >= mem.v /\ mem'.v \in {mem.v, v} /\ (delivered => mem'.v >= v)
  BY <1>1, <1>5, <1>6, Added DEF Replay
<1>8. /\ UNCHANGED <<pub, queue, idb, cacheable>> /\ relays \subseteq relays'
      /\ hist'.cut = hist.cut /\ hist'.unsaved = hist.unsaved
      /\ hist'.replaced = hist.replaced /\ hist.echoed \subseteq hist'.echoed
      /\ hist'.known \subseteq hist.known \cup {v}
  BY <1>1, <1>5, EchoTypes DEF Replay, History
<1>2. Traced'
  <2>1. Good \subseteq Good' /\ \A pcs : At(pcs)' = At(pcs)
    BY <1>8 DEF Good, At
  <2>2. mem'.v \in Good' \cup At({"fanout"})
    <3>1. mem'.v = mem.v \/ mem'.v \in Good'
      BY <1>7 DEF Replay, Good
    <3> QED BY <2>1, <3>1 DEF Traced
  <2> QED BY <1>8, <2>1, <2>2 DEF Traced
<1>3. Kept'
  <2>1. \A w \in hist.known : w \in Nat
    BY <1>1, Typed DEF History
  <2>2. \A q \in Edits : pub[q].v \in Nat
    BY <1>1, Typed
  <2>3. \A q \in Edits : pub[q].pc = "fanout" => mem'.v >= pub[q].v
    BY <1>5, <1>7, <2>2 DEF Kept
  <2>4. \A w \in hist'.known \ hist'.echoed : w # v =>
           /\ mem'.v >= w \/ \E q \in Edits : Rolling(q) /\ pub[q].prev.v >= w
           /\ \A q \in Edits : pub[q].pc = "fanout" =>
                 w # pub[q].v /\ (w < pub[q].v => pub[q].prev.v >= w)
    BY <1>5, <1>7, <1>8, <2>1 DEF Kept
  <2>5. v \in hist'.known \ hist'.echoed =>
           /\ mem'.v >= v \/ \E q \in Edits : Rolling(q) /\ pub[q].prev.v >= v
           /\ \A q \in Edits : pub[q].pc = "fanout" =>
                 v # pub[q].v /\ (v < pub[q].v => pub[q].prev.v >= v)
    <3>1. CASE delivered /\ v >= mem.v
      <4>1. (\E q \in Edits : pub[q].v = v) => v \in hist'.echoed
        BY <1>1, <1>5, <3>1, EchoTypes DEF Replay, History
      <4> QED BY <1>5, <1>7, <2>2, <3>1, <4>1 DEF Kept
    <3>2. CASE ~(delivered /\ v >= mem.v)
      <4>1. hist'.known = hist.known
        BY <1>1, <1>5, <3>2, EchoTypes DEF Replay, History
      <4> QED BY <1>5, <1>7, <1>8, <2>1, <4>1 DEF Kept
    <3> QED BY <3>1, <3>2
  <2> QED BY <1>8, <2>3, <2>4, <2>5 DEF Kept, Rolling
<1>4. Back'
  <2>1. \A w \in hist.replaced : w \in Nat
    BY <1>1, Typed DEF History
  <2> QED BY <1>5, <1>7, <1>8, <2>1 DEF Back, Rolling
<1> QED BY <1>2, <1>3, <1>4

LEMMA ReloadR ==
    ASSUME OneEdit, Inv, Reload
    PROVE  Traced' /\ Kept' /\ Back'
<1> USE DEF Inv
<1>1. Types /\ Numbered /\ hist \in History
  BY DEF TInv, Types, History
<1>2. Traced'
  BY <1>1, Typed, IdleTypes DEF OneEdit, Traced, At, Good, History, Pcs, Reload
<1>3. Kept'
  BY <1>1, Typed, IdleTypes DEF OneEdit, Kept, Rolling, Numbered, Types, History, Pcs, Reload
<1>4. Back'
  BY <1>1, Typed, IdleTypes DEF OneEdit, Back, Rolling, Numbered, Types, History, Pcs, Reload
<1> QED BY <1>2, <1>3, <1>4

-----------------------------------------------------------------------------
(* The theorems. *)

LEMMA InitInv == Init => Inv
  BY InitT, IdleTypes DEF Init, Inv, Traced, At, Good, Kept, Rolling, Back

LEMMA NextInv == OneEdit /\ Inv /\ [Next]_vars => Inv'
<1> SUFFICES ASSUME OneEdit, Inv, [Next]_vars PROVE Inv'
  OBVIOUS
<1>1. TInv'
  BY NextT DEF Inv
<1>2. CASE UNCHANGED vars
  BY <1>1, <1>2 DEF vars, Inv, Traced, At, Good, Kept, Rolling, Back
<1>3. ASSUME NEW p \in Edits, PublishStep(p) PROVE Inv'
  BY <1>1, <1>3, EditR, SucceedR, FailR, UncacheFlushR, UncacheReadR, UncacheDeleteR,
     UncacheFailsR, RestoreR, RecacheR, RecacheFailsR
     DEF PublishStep, Inv
<1> QED BY <1>1, <1>2, <1>3, FlushR, WriteR, ReadCacheR, OtherDeviceR, ArriveR, ReplayR, ReloadR DEF Next, Inv

LEMMA Invariance ==
    ASSUME OneEdit
    PROVE  Spec => []Inv
<1>1. Inv /\ [Next]_vars => Inv'
  BY NextInv
<1> QED BY <1>1, InitInv, PTL DEF Spec

LEMMA RestTypes ==
    ASSUME Inv, AtRest
    PROVE  /\ \A p \in Edits : pub[p].pc = "idle"
           /\ queue = {} /\ mem.v \in Nat /\ idb \in Nat
           /\ \A v \in hist.known \cup hist.replaced : v \in Nat
  BY Typed DEF Inv, TInv, Types, AtRest, UnderWay

\* A failed edit leaves nothing behind: with one edit of the address at a time,
\* for any number of versions, devices, replays and reloads, the rollback takes a
\* version no relay accepted out of memory and IndexedDB, whatever the pipeline,
\* its batch and its queue were doing with it.
THEOREM PhantomGone ==
    ASSUME OneEdit
    PROVE  Spec => []NoPhantom
<1>1. Inv => NoPhantom
  <2> SUFFICES ASSUME Inv, AtRest PROVE {mem.v, idb} \subseteq Good
    BY DEF NoPhantom, Good
  <2> QED BY RestTypes DEF Inv, Traced, At
<1> QED BY <1>1, Invariance, PTL

\* The rollback loses nothing: with one edit at a time, what memory held and a
\* relay was known to hold is there, or something newer, once all is at rest.
THEOREM MemoryKept ==
    ASSUME OneEdit
    PROVE  Spec => []NothingLost
<1>1. Inv => NothingLost
  <2> SUFFICES ASSUME Inv, AtRest, NEW v \in hist.known \ hist.echoed PROVE mem.v >= v
    BY DEF NothingLost
  <2> QED BY RestTypes DEF Inv, Kept, Rolling
<1> QED BY <1>1, Invariance, PTL

\* What a failed edit replaced is back for good: with one edit at a time, it, or
\* something newer, is in memory and, when cacheable, in IndexedDB, although
\* uncacheEvent deletes the row whatever it holds by then.
THEOREM PutBack ==
    ASSUME OneEdit
    PROVE  Spec => []ReplacedIsBack
<1>1. Inv => ReplacedIsBack
  <2> SUFFICES ASSUME Inv, AtRest, NEW v \in hist.replaced
               PROVE  mem.v >= v /\ (cacheable /\ (\A w \in hist.unsaved : w < v) => idb >= v)
    BY DEF ReplacedIsBack
  <2> QED BY RestTypes DEF Inv, Back, Rolling
<1> QED BY <1>1, Invariance, PTL
=============================================================================
