---------------------------- MODULE GroupSyncProofs ----------------------------
(***************************************************************************)
(* Theorems about GroupSync, for any page size, page cap, overlap, skew    *)
(* and bounds with 2 * Skew <= Overlap.                                    *)
(*                                                                         *)
(* NoGap rests on what an incomplete backfill knows (Paged): an event it   *)
(* has not collected is below the next page's bound, or no older, but for  *)
(* the overlap, than all it has collected.                                 *)
(***************************************************************************)
EXTENDS GroupSync, SequenceTheorems, FiniteSetTheorems, WellFoundedInduction, TLAPS

-------------------------------------------------------------------------------
(* The invariant. *)

\* created_at is near the time of storing, and storing is over.
Stamped == \A i \in Stored : log[i] <= now + Skew

\* What was not collected is still to come, or not much older than what was.
Paged ==
    phase \in {"closed", "paging"} =>
        /\ collected = {} <=> until = {}
        /\ \A at \in until : \A j \in collected : at <= log[j]
        /\ \A i \in Stored \ collected : \/ \E at \in until : log[i] <= at
                                         \/ \A j \in collected : log[j] <= log[i] + Overlap

\* What is stored from now on matches the live subscription.
Following == phase \in {"live", "retrying"} => since = 0 \/ since + Skew <= now

Inv == TypeOK /\ SeenOnce /\ NoGap /\ Stamped /\ Paged /\ Following

-------------------------------------------------------------------------------
(* Numbers, and the sorted backfill. *)

\* Numbers have a least element; up to a bound, a greatest.
LEMMA MinOf ==
    ASSUME NEW S \in SUBSET Nat, S # {}
    PROVE  \E x \in S : \A y \in S : x <= y
<1>1. PICK x \in S : \A y \in S : ~(<<y, x>> \in OpToRel(<, Nat))
  BY NatLessThanWellFounded, WFMin
<1>2. \A y \in S : ~(y < x)
  BY <1>1 DEF OpToRel
<1> QED BY <1>2

LEMMA MaxOf ==
    ASSUME NEW m \in Nat, NEW S \in SUBSET (0..m), S # {}
    PROVE  \E x \in S : \A y \in S : y <= x
<1> DEFINE T == {n \in Nat : n <= m /\ m - n \in S}
<1>1. T \in SUBSET Nat /\ T # {}
  <2>1. PICK x \in S : TRUE
    OBVIOUS
  <2>2. m - x \in Nat /\ m - x <= m /\ m - (m - x) = x
    BY <2>1
  <2> QED BY <2>1, <2>2
<1>2. PICK n \in T : \A y \in T : n <= y
  BY <1>1, MinOf
<1>3. \A y \in S : y <= m - n
  <2> SUFFICES ASSUME NEW y \in S PROVE y <= m - n
    OBVIOUS
  <2>1. y \in 0..m /\ m - y \in Nat /\ m - y <= m /\ m - (m - y) = y
    OBVIOUS
  <2>2. m - y \in T
    BY <2>1
  <2> QED BY <1>2, <2>1, <2>2
<1> QED BY <1>3

LEMMA Typed ==
    ASSUME TypeOK
    PROVE  /\ now \in Nat /\ Skew \in Nat /\ Overlap \in Nat /\ 2 * Skew <= Overlap /\ MaxTime + Skew \in Nat
           /\ Len(log) \in Nat /\ Stored \subseteq Nat /\ \A i \in Stored : log[i] \in Nat /\ log[i] <= MaxTime + Skew
           /\ since \in Nat /\ collected \subseteq Stored
           /\ \A at \in until : at \in Nat /\ at <= MaxTime + Skew
<1>1. log \in Seq(0..MaxTime + Skew)
  BY DEF TypeOK
<1>2. Len(log) \in Nat /\ \A i \in Stored : log[i] \in 0..MaxTime + Skew
  BY <1>1, ElementOfSeq, LenProperties DEF Stored
<1> QED BY <1>2, GroupSyncAssumption DEF TypeOK, Stored

\* A set of stored events has newest and oldest ones.
LEMMA Ends ==
    ASSUME TypeOK, NEW events \in SUBSET Stored, events # {}
    PROVE  /\ \E i \in events : Newest(events) = log[i]
           /\ \E i \in events : Oldest(events) = log[i]
           /\ \A i \in events : log[i] <= Newest(events) /\ Oldest(events) <= log[i]
<1> DEFINE S == {log[i] : i \in events}
<1>1. S \in SUBSET (0..MaxTime + Skew) /\ S \in SUBSET Nat /\ S # {} /\ MaxTime + Skew \in Nat
  BY Typed
<1>2. \E at \in S : \A y \in S : y <= at
  BY ONLY <1>1, MaxOf
<1>3. \E at \in S : \A y \in S : at <= y
  BY ONLY <1>1, MinOf
<1>4. \E at \in S : \A i \in events : log[i] <= at
  BY <1>2
<1>5. \E at \in S : \A i \in events : at <= log[i]
  BY <1>3
<1>6. Newest(events) \in S /\ \A i \in events : log[i] <= Newest(events)
  BY <1>4 DEF Newest
<1>7. Oldest(events) \in S /\ \A i \in events : Oldest(events) <= log[i]
  BY <1>5 DEF Oldest
<1> QED BY <1>6, <1>7

\* One event of a set comes after all the others.
LEMMA LastEvent ==
    ASSUME TypeOK, NEW S \in SUBSET Stored, S # {}
    PROVE  \E m \in S : \A i \in S \ {m} : Before(i, m)
<1> DEFINE M == {i \in S : log[i] = Newest(S)}
<1>1. M \in SUBSET (0..Len(log)) /\ M # {} /\ Len(log) \in Nat
  <2>1. \E i \in S : Newest(S) = log[i]
    BY Ends
  <2>2. Stored \subseteq 0..Len(log) /\ Len(log) \in Nat
    BY Typed DEF Stored
  <2> QED BY <2>1, <2>2
<1>2. PICK m \in M : \A i \in M : i <= m
  BY ONLY <1>1, MaxOf
<1>3. \A i \in S : i \in Nat /\ log[i] \in Nat /\ log[i] <= Newest(S)
  BY Ends, Typed
<1> QED BY <1>2, <1>3 DEF Before

SortedOf(S, s) ==
    s \in [1..Cardinality(S) -> S] /\ \A k, l \in DOMAIN s : k < l => Before(s[k], s[l])

LEMMA FiniteEvents ==
    ASSUME TypeOK, NEW S \in SUBSET Stored
    PROVE  IsFiniteSet(S) /\ Cardinality(S) \in Nat
<1>1. IsFiniteSet(Stored)
  BY Typed, FS_Interval DEF Stored
<1> QED BY <1>1, FS_Subset, FS_CardinalityType

\* Any set of events can be sorted: the least one that cannot has a last event,
\* and the others can.
LEMMA Sortable ==
    ASSUME TypeOK, NEW S \in SUBSET Stored
    PROVE  \E s : SortedOf(S, s)
<1> DEFINE Unsortable == {n \in Nat : \E R \in SUBSET Stored : Cardinality(R) = n /\ ~\E s : SortedOf(R, s)}
<1>1. SUFFICES ASSUME Unsortable # {} PROVE FALSE
  BY FiniteEvents
<1>2. PICK n \in Unsortable : \A y \in Unsortable : n <= y
  <2>1. Unsortable \in SUBSET Nat
    OBVIOUS
  <2> QED BY ONLY <1>1, <2>1, MinOf
<1>3. PICK R \in SUBSET Stored : Cardinality(R) = n /\ ~\E s : SortedOf(R, s)
  BY <1>2
<1>4. IsFiniteSet(R) /\ n \in Nat
  BY <1>3, FiniteEvents
<1>5. CASE R = {}
  <2>1. n = 0
    BY <1>3, <1>5, FS_EmptySet
  <2>2. SortedOf(R, [k \in 1..0 |-> k])
    BY <1>3, <1>5, <2>1 DEF SortedOf
  <2> QED BY <1>3, <2>2
<1>6. CASE R # {}
  <2>1. PICK m \in R : \A i \in R \ {m} : Before(i, m)
    BY <1>6, LastEvent
  <2>2. Cardinality(R \ {m}) = n - 1 /\ n - 1 \in Nat
    <3>1. Cardinality(R \ {m}) = Cardinality(R) - 1
      BY ONLY <1>4, <2>1, FS_RemoveElement
    <3>2. R \ {m} \in SUBSET Stored
      OBVIOUS
    <3>3. Cardinality(R \ {m}) \in Nat
      BY <3>2, FiniteEvents
    <3> QED BY ONLY <1>3, <3>1, <3>3
  <2>3. PICK s : SortedOf(R \ {m}, s)
    <3>1. ~(n - 1 \in Unsortable)
      BY ONLY <1>2, <1>4
    <3> QED BY <2>2, <3>1
  <2> DEFINE t == [k \in 1..n |-> IF k = n THEN m ELSE s[k]]
  <2>4. s \in [1..n - 1 -> R \ {m}] /\ \A k, l \in 1..n - 1 : k < l => Before(s[k], s[l])
    BY <2>2, <2>3 DEF SortedOf
  <2>5. t \in [1..n -> R]
    BY <1>4, <2>1, <2>4
  <2>6. \A k, l \in 1..n : k < l => Before(t[k], t[l])
    BY <1>4, <2>1, <2>4
  <2>7. SortedOf(R, t)
    BY <1>3, <2>5, <2>6 DEF SortedOf
  <2> QED BY <1>3, <2>7
<1> QED BY <1>5, <1>6

\* Sorted lists each event once, in order.
LEMMA SortedLists ==
    ASSUME TypeOK, NEW S \in SUBSET Stored
    PROVE  /\ Sorted(S) \in Seq(S) /\ Range(Sorted(S)) = S
           /\ \A k, l \in 1..Len(Sorted(S)) : Sorted(S)[k] = Sorted(S)[l] => k = l
<1> DEFINE n == Cardinality(S)
<1>1. PICK s : s = Sorted(S)
  OBVIOUS
<1>2. s \in [1..n -> S] /\ \A k, l \in DOMAIN s : k < l => Before(s[k], s[l])
  BY <1>1, Sortable DEF Sorted, SortedOf
<1>3. IsFiniteSet(S) /\ n \in Nat
  BY FiniteEvents
<1>4. s \in Seq(S) /\ Len(s) = n
  BY <1>2, <1>3
<1>5. \A k, l \in 1..n : s[k] = s[l] => k = l
  <2> SUFFICES ASSUME NEW k \in 1..n, NEW l \in 1..n, k < l PROVE s[k] # s[l]
    BY <1>3
  <2>1. Before(s[k], s[l]) /\ s[k] \in Nat /\ log[s[k]] \in Nat
    BY <1>2, Typed
  <2> QED BY <2>1 DEF Before
<1>6. Range(s) = S
  <2>1. s \in Injection(1..n, S)
    BY <1>2, <1>5 DEF Injection, IsInjective
  <2>2. Cardinality(1..n) = n
    BY <1>3, FS_Interval
  <2>3. s \in Surjection(1..n, S)
    BY ONLY <1>3, <2>1, <2>2, FS_Injection
  <2> QED BY <1>2, <2>3 DEF Surjection, Range
<1>7. \A k, l \in 1..Len(s) : s[k] = s[l] => k = l
  BY <1>4, <1>5
<1> QED BY <1>1, <1>4, <1>6, <1>7

-------------------------------------------------------------------------------
(* What the app sees. *)

\* t is s with events not in it taken at the end, each once.
Taken(s, t, events) ==
    /\ t \in Seq(Stored) /\ Len(s) <= Len(t)
    /\ \A k \in 1..Len(s) : t[k] = s[k]
    /\ \A k, l \in 1..Len(t) : t[k] = t[l] => k = l
    /\ Range(t) = Range(s) \cup events

LEMMA ItemSeen ==
    ASSUME TypeOK
    PROVE  /\ Len(updates) \in Nat /\ Seen \subseteq Stored
           /\ \A k \in 1..Len(updates) : updates[k] \in Seen
<1>1. updates \in Seq(Stored)
  BY DEF TypeOK
<1>2. DOMAIN updates = 1..Len(updates) /\ Len(updates) \in Nat
  BY <1>1, LenProperties
<1>3. \A k \in 1..Len(updates) : updates[k] \in Stored
  BY <1>1, ElementOfSeq
<1> QED BY <1>2, <1>3 DEF Seen, Range

LEMMA FoldedTakes ==
    ASSUME TypeOK, SeenOnce, NEW events \in SUBSET Stored
    PROVE  Taken(updates, Folded(updates, events), events)
<1>1. PICK s : s = Sorted(events \ Seen)
  OBVIOUS
<1>2. /\ s \in Seq(events \ Seen) /\ Range(s) = events \ Seen
      /\ \A k, l \in 1..Len(s) : s[k] = s[l] => k = l
  <2>1. events \ Seen \in SUBSET Stored
    OBVIOUS
  <2> QED BY <1>1, <2>1, SortedLists
<1>3. updates \in Seq(Stored) /\ s \in Seq(Stored)
  BY <1>2, SeqMonotonic DEF TypeOK
<1>4. PICK t : t = updates \o s
  OBVIOUS
<1>5. /\ t \in Seq(Stored) /\ Len(t) = Len(updates) + Len(s)
      /\ \A k \in 1..Len(updates) + Len(s) : t[k] = IF k <= Len(updates) THEN updates[k] ELSE s[k - Len(updates)]
  BY <1>3, <1>4, ConcatProperties
<1>6. Len(updates) \in Nat /\ Len(s) \in Nat /\ \A k \in 1..Len(s) : s[k] \in events \ Seen
  BY <1>2, <1>3, LenProperties, ElementOfSeq
<1>7. \A k, l \in 1..Len(t) : t[k] = t[l] => k = l
  <2> SUFFICES ASSUME NEW k \in 1..Len(t), NEW l \in 1..Len(t), k < l PROVE t[k] # t[l]
    BY <1>5, <1>6
  <2>1. CASE l <= Len(updates)
    BY <2>1, <1>5, <1>6 DEF SeenOnce
  <2>2. CASE k <= Len(updates) /\ ~(l <= Len(updates))
    <3>1. t[k] \in Seen
      BY <2>2, <1>5, <1>6, ItemSeen
    <3>2. l - Len(updates) \in 1..Len(s) /\ t[l] = s[l - Len(updates)]
      BY <2>2, <1>5, <1>6
    <3> QED BY <3>1, <3>2, <1>6
  <2>3. CASE ~(k <= Len(updates))
    <3>1. /\ k - Len(updates) \in 1..Len(s) /\ l - Len(updates) \in 1..Len(s)
          /\ k - Len(updates) # l - Len(updates)
          /\ t[k] = s[k - Len(updates)] /\ t[l] = s[l - Len(updates)]
      BY <2>3, <1>5, <1>6
    <3> QED BY <3>1, <1>2
  <2> QED BY <2>1, <2>2, <2>3, <1>5, <1>6
<1>8. Range(t) = Seen \cup events
  BY <1>2, <1>3, <1>4, RangeConcatenation DEF Seen
<1>9. \A k \in 1..Len(updates) : t[k] = updates[k]
  BY <1>5, <1>6
<1>10. Len(updates) <= Len(t)
  BY <1>5, <1>6
<1>11. t = Folded(updates, events)
  BY <1>1, <1>4 DEF Folded, Seen
<1> QED BY <1>5, <1>7, <1>8, <1>9, <1>10, <1>11 DEF Taken, Seen

LEMMA AppendTakes ==
    ASSUME TypeOK, SeenOnce, NEW i \in Stored
    PROVE  Taken(updates, Append1(updates, i), {i})
<1>1. updates \in Seq(Stored)
  BY DEF TypeOK
<1>2. CASE i \in Seen
  BY <1>1, <1>2, ItemSeen DEF Append1, Taken, Seen, SeenOnce
<1>3. CASE i \notin Seen
  <2>1. PICK t : t = Append(updates, i)
    OBVIOUS
  <2>2. /\ t \in Seq(Stored) /\ Len(t) = Len(updates) + 1
        /\ \A k \in 1..Len(updates) : t[k] = updates[k]
        /\ t[Len(updates) + 1] = i
    BY <1>1, <2>1, AppendProperties
  <2>3. DOMAIN t = 1..Len(t) /\ DOMAIN updates = 1..Len(updates) /\ Len(updates) \in Nat
    BY <1>1, <2>2, LenProperties
  <2>4. \A k, l \in 1..Len(t) : t[k] = t[l] => k = l
    <3> SUFFICES ASSUME NEW k \in 1..Len(t), NEW l \in 1..Len(t), k < l PROVE t[k] # t[l]
      BY <2>2, <2>3
    <3>1. k \in 1..Len(updates) /\ t[k] = updates[k] /\ updates[k] \in Seen
      BY <2>2, <2>3, ItemSeen
    <3>2. CASE l = Len(updates) + 1
      BY <1>3, <2>2, <3>1, <3>2
    <3>3. CASE l # Len(updates) + 1
      BY <2>2, <2>3, <3>1, <3>3 DEF SeenOnce
    <3> QED BY <3>2, <3>3
  <2>5. Range(t) = Seen \cup {i}
    <3>1. 1..Len(t) = (1..Len(updates)) \cup {Len(updates) + 1}
      BY <2>2, <2>3
    <3> QED BY <2>2, <2>3, <3>1 DEF Range, Seen
  <2>6. t = Append1(updates, i)
    BY <1>3, <2>1 DEF Append1, Seen
  <2>7. Len(updates) <= Len(t)
    BY <2>2, <2>3
  <2> QED BY <2>2, <2>4, <2>5, <2>6, <2>7 DEF Taken, Seen
<1> QED BY <1>2, <1>3

\* The rest of the invariant when more is seen and nothing else has changed.
LEMMA MoreSeen ==
    ASSUME Inv, NEW events \in SUBSET Stored, Taken(updates, updates', events),
           UNCHANGED <<relay, phase, backfill, since, budget, authRetried, cut>>, sending' \subseteq sending
    PROVE  Inv'
<1>1. Stored' = Stored /\ Seen \subseteq Seen' /\ Len(log)' = Len(log)
  BY DEF Taken, Stored, relay, Seen
<1>2. TypeOK'
  BY <1>1 DEF Inv, TypeOK, Taken, relay, backfill, budget
<1>3. SeenOnce'
  BY DEF Taken, SeenOnce
<1>4. NoGap'
  BY <1>1 DEF Inv, NoGap, relay
<1>5. Stamped' /\ Paged' /\ Following'
  BY <1>1 DEF Inv, Stamped, Paged, Following, relay, backfill
<1> QED BY <1>2, <1>3, <1>4, <1>5 DEF Inv

-------------------------------------------------------------------------------
(* The end of the backfill. *)

\* All that was not collected is no older, but for the overlap, than what was.
Recent(events) == \A i \in Stored \ events : \A j \in events : log[j] <= log[i] + Overlap

LEMMA LiveSinceBounds ==
    ASSUME Inv, NEW events \in SUBSET Stored
    PROVE  /\ LiveSince(events) \in 0..MaxTime + Skew
           /\ LiveSince(events) = 0 \/ LiveSince(events) + Skew <= now
           /\ Recent(events) => \A i \in Stored \ events : LiveSince(events) <= log[i]
<1>1. CASE events = {}
  BY <1>1, Typed DEF Inv, LiveSince
<1>2. CASE events # {}
  <2>1. PICK j \in events : Newest(events) = log[j]
    BY <1>2, Ends DEF Inv
  <2>2. log[j] \in Nat /\ log[j] <= MaxTime + Skew /\ log[j] <= now + Skew
    BY Typed DEF Inv, Stamped
  <2>3. CASE log[j] < Overlap
    BY <2>1, <2>2, <2>3, <1>2, Typed DEF Inv, LiveSince
  <2>4. CASE ~(log[j] < Overlap)
    <3>1. LiveSince(events) = log[j] - Overlap
      BY <2>1, <2>4, <1>2 DEF LiveSince
    <3>2. now \in Nat /\ Skew \in Nat /\ Overlap \in Nat /\ 2 * Skew <= Overlap /\ MaxTime + Skew \in Nat
      BY Typed DEF Inv
    <3>3. log[j] - Overlap \in 0..MaxTime + Skew /\ log[j] - Overlap + Skew <= now
      BY ONLY <2>2, <2>4, <3>2
    <3>4. Recent(events) => \A i \in Stored \ events : log[j] - Overlap <= log[i]
      <4> SUFFICES ASSUME Recent(events), NEW i \in Stored \ events PROVE log[j] - Overlap <= log[i]
        OBVIOUS
      <4>1. log[j] <= log[i] + Overlap /\ log[i] \in Nat
        BY Typed DEF Recent, Inv
      <4> QED BY <4>1, <2>2, <3>2
    <3> QED BY <3>1, <3>3, <3>4
  <2> QED BY <2>3, <2>4
<1> QED BY <1>1, <1>2

LEMMA GoneLive ==
    ASSUME Inv, NEW events \in SUBSET Stored, GoLive(events), cut' \in BOOLEAN, cut' \/ Recent(events),
           UNCHANGED <<relay, sending, sends>>, errors' \in 0..MaxErrors, authRetried' \in BOOLEAN
    PROVE  Inv'
<1>1. Taken(updates, updates', events)
  <2>1. TypeOK /\ SeenOnce /\ updates' = Folded(updates, events)
    BY DEF Inv, GoLive
  <2> QED BY <2>1, FoldedTakes
<1>2. Stored' = Stored /\ events \subseteq Seen' /\ Len(log)' = Len(log)
  BY <1>1 DEF Taken, Stored, relay, Seen
<1>3. PICK low : low = LiveSince(events)
  OBVIOUS
<1>4. since' = low
  BY <1>3 DEF GoLive
<1>5. /\ low \in 0..MaxTime + Skew
      /\ low = 0 \/ low + Skew <= now
      /\ Recent(events) => \A i \in Stored \ events : low <= log[i]
  BY <1>3, LiveSinceBounds
<1>6. TypeOK'
  BY <1>1, <1>2, <1>4, <1>5 DEF Inv, TypeOK, Taken, relay, backfill, GoLive, Phases
<1>7. SeenOnce'
  BY <1>1 DEF Taken, SeenOnce
<1>8. NoGap'
  <2> SUFFICES ASSUME ~cut', NEW i \in Stored' \ Seen' PROVE log[i]' >= since'
    BY DEF NoGap
  <2>1. i \in Stored \ events /\ log[i]' = log[i] /\ log[i] \in Nat
    BY <1>2, Typed DEF relay, Inv
  <2>2. low <= log[i]
    BY <2>1, <1>5
  <2> QED BY <2>1, <2>2, <1>4, <1>5
<1>9. Stamped' /\ Paged' /\ Following'
  BY <1>2, <1>4, <1>5 DEF Inv, Stamped, Paged, Following, relay, GoLive
<1> QED BY <1>6, <1>7, <1>8, <1>9 DEF Inv

\* What the relay stores now is within the skew of now.
LEMMA Growing ==
    ASSUME Inv, NEW at \in Stamps, log' = Append(log, at), Len(log) < MaxEvents,
           UNCHANGED <<now, phase, backfill, since, updates, errors, authRetried, cut>>,
           sends' \in 0..MaxSends, sending' \subseteq sending \cup {Len(log) + 1}
    PROVE  Inv'
<1>1. /\ log \in Seq(0..MaxTime + Skew) /\ now \in Nat /\ Skew \in Nat /\ at \in 0..MaxTime + Skew
      /\ at <= now + Skew /\ now <= at + Skew /\ Overlap \in Nat /\ 2 * Skew <= Overlap
      /\ Len(log) \in Nat
  BY Typed DEF Inv, TypeOK, Stamps
<1>2. /\ log' \in Seq(0..MaxTime + Skew) /\ Len(log') = Len(log) + 1
      /\ \A i \in 1..Len(log) : log'[i] = log[i]
      /\ log'[Len(log) + 1] = at
  BY ONLY <1>1, log' = Append(log, at), AppendProperties
<1>3. /\ Stored' = Stored \cup {Len(log) + 1} /\ Len(log) + 1 \notin Stored
      /\ \A i \in Stored : log'[i] = log[i]
  BY <1>1, <1>2 DEF Stored
<1>4. TypeOK'
  <2>1. updates' \in Seq(Stored')
    <3>1. Stored \subseteq Stored' /\ updates \in Seq(Stored) /\ updates' = updates
      BY <1>3 DEF Inv, TypeOK
    <3> QED BY ONLY <3>1, SeqMonotonic
  <2>2. Len(log') <= MaxEvents
    BY <1>1, <1>2, GroupSyncAssumption
  <2> QED BY <1>2, <1>3, <2>1, <2>2 DEF Inv, TypeOK, backfill
<1>5. SeenOnce'
  BY DEF Inv, SeenOnce
<1>6. NoGap'
  <2> SUFFICES ASSUME phase \in {"live", "retrying"}, ~cut, NEW i \in Stored' \ Seen PROVE log'[i] >= since
    BY DEF NoGap, Seen
  <2>1. since \in Nat
    BY Typed DEF Inv
  <2>2. CASE i \in Stored
    BY <2>2, <1>3 DEF Inv, NoGap
  <2>3. CASE i = Len(log) + 1
    <3>1. since = 0 \/ since + Skew <= now
      BY DEF Inv, Following
    <3> QED BY <1>1, <1>2, <2>1, <2>3, <3>1
  <2> QED BY <1>3, <2>2, <2>3
<1>7. Stamped'
  BY <1>1, <1>2, <1>3 DEF Inv, Stamped
<1>8. Paged'
  <2> SUFFICES ASSUME phase \in {"closed", "paging"} PROVE Paged'
    BY DEF Paged
  <2>1. /\ collected = {} <=> until = {}
        /\ \A u \in until : \A j \in collected : u <= log[j]
        /\ \A i \in Stored \ collected : \/ \E u \in until : log[i] <= u
                                         \/ \A j \in collected : log[j] <= log[i] + Overlap
    BY DEF Inv, Paged
  <2>2. collected \subseteq Stored /\ collected' = collected /\ until' = until
    BY Typed DEF Inv, backfill
  <2>3. \A j \in collected : log[j] \in Nat /\ log[j] <= at + Overlap
    <3> SUFFICES ASSUME NEW j \in collected PROVE log[j] \in Nat /\ log[j] <= at + Overlap
      OBVIOUS
    <3>1. log[j] \in Nat /\ log[j] <= now + Skew
      BY <2>2, Typed DEF Inv, Stamped
    <3> QED BY ONLY <1>1, <3>1
  <2>4. \A i \in Stored' \ collected : \/ \E u \in until : log'[i] <= u
                                       \/ \A j \in collected : log'[j] <= log'[i] + Overlap
    <3> SUFFICES ASSUME NEW i \in Stored' \ collected
                 PROVE  \/ \E u \in until : log'[i] <= u
                        \/ \A j \in collected : log'[j] <= log'[i] + Overlap
      OBVIOUS
    <3>1. CASE i \in Stored
      BY <3>1, <2>1, <2>2, <1>3
    <3>2. CASE i = Len(log) + 1
      BY <3>2, <2>2, <2>3, <1>2, <1>3
    <3> QED BY <1>3, <3>1, <3>2
  <2>5. \A u \in until : \A j \in collected : u <= log'[j]
    BY <2>1, <2>2, <1>3
  <2> QED BY <2>1, <2>2, <2>4, <2>5 DEF Paged
<1>9. Following'
  BY DEF Inv, Following
<1> QED BY <1>4, <1>5, <1>6, <1>7, <1>8, <1>9 DEF Inv

-------------------------------------------------------------------------------
(* A page. *)

\* What the collected events and the next page's window know of an event.
LEMMA Window ==
    ASSUME Inv, phase = "paging"
    PROVE  /\ until = {} => Matching = Stored /\ collected = {}
           /\ until # {} => \E at \in Nat : /\ until = {at} /\ collected # {}
                                           /\ Matching = {i \in Stored : log[i] <= at}
                                           /\ \A j \in collected : at <= log[j]
           /\ Matching \subseteq Stored
           /\ \A i \in Stored \ (collected \cup Matching) : \A j \in collected : log[j] <= log[i] + Overlap
<1>1. until \in {{}} \cup {{at} : at \in 0..MaxTime + Skew}
  BY DEF Inv, TypeOK
<1>2. /\ collected = {} <=> until = {}
      /\ \A at \in until : \A j \in collected : at <= log[j]
      /\ \A i \in Stored \ collected : \/ \E at \in until : log[i] <= at
                                       \/ \A j \in collected : log[j] <= log[i] + Overlap
  BY DEF Inv, Paged
<1>3. CASE until = {}
  BY <1>2, <1>3 DEF Matching
<1>4. CASE until # {}
  <2>1. PICK at \in 0..MaxTime + Skew : until = {at}
    BY <1>1, <1>4
  <2>2. Matching = {i \in Stored : log[i] <= at}
    BY <2>1 DEF Matching
  <2> QED BY <1>2, <1>4, <2>1, <2>2
<1> QED BY <1>3, <1>4

\* An answer that holds all of the window leaves out nothing recent.
LEMMA FinalPage ==
    ASSUME Inv, phase = "paging"
    PROVE  Recent(collected \cup Matching)
<1> SUFFICES ASSUME NEW i \in Stored \ (collected \cup Matching), NEW j \in collected \cup Matching
             PROVE  log[j] <= log[i] + Overlap
  BY DEF Recent
<1>1. log[i] \in Nat /\ Overlap \in Nat /\ collected \subseteq Stored
  BY Typed DEF Inv
<1>2. CASE j \in collected
  BY <1>2, Window
<1>3. CASE j \notin collected
  <2>1. PICK at \in Nat : Matching = {k \in Stored : log[k] <= at}
    BY Window
  <2>2. log[j] \in Nat /\ log[j] <= at /\ ~(log[i] <= at)
    BY <1>3, <2>1, Typed DEF Inv
  <2> QED BY <1>1, <2>1, <2>2
<1> QED BY <1>2, <1>3

\* An answer of the newest in the window lets the next window begin at its oldest.
LEMMA NextPage ==
    ASSUME Inv, phase = "paging", NEW answer \in Leading(Matching), answer \ collected # {},
           collected' = collected \cup answer, until' = NextUntil(answer),
           UNCHANGED <<relay, phase>>
    PROVE  Paged' /\ \E at \in 0..MaxTime + Skew : until' = {at}
<1>1. /\ answer \subseteq Matching /\ answer \subseteq Stored /\ answer # {} /\ collected \subseteq Stored
      /\ \A k \in answer, i \in Matching \ answer : log[i] <= log[k]
  BY Window, Typed DEF Leading, Inv
<1>2. /\ \A i \in Stored : log[i] \in Nat /\ log[i] <= MaxTime + Skew
      /\ Overlap \in Nat /\ MaxTime + Skew \in Nat
  BY Typed DEF Inv
<1>3. PICK k \in answer : Oldest(answer) = log[k]
  BY <1>1, Ends DEF Inv
<1>4. \A j \in answer : log[k] <= log[j]
  BY <1>1, <1>3, Ends DEF Inv
<1>5. until' = {log[k]} /\ log[k] \in Nat /\ log[k] <= MaxTime + Skew
  BY <1>1, <1>2, <1>3 DEF NextUntil
<1>6. \A j \in collected : log[k] <= log[j]
  <2> SUFFICES ASSUME NEW j \in collected PROVE log[k] <= log[j]
    OBVIOUS
  <2>1. PICK at \in Nat : Matching = {i \in Stored : log[i] <= at} /\ at <= log[j]
    BY Window
  <2>2. log[k] <= at /\ log[k] \in Nat /\ log[j] \in Nat
    BY <1>1, <1>2, <2>1
  <2> QED BY <2>1, <2>2
<1>7. \A i \in Stored \ (collected \cup answer) :
          \/ log[i] <= log[k]
          \/ \A j \in collected \cup answer : log[j] <= log[i] + Overlap
  <2> SUFFICES ASSUME NEW i \in Stored \ (collected \cup answer), i \notin Matching
               PROVE  \A j \in collected \cup answer : log[j] <= log[i] + Overlap
    BY <1>1
  <2>1. \A j \in collected \cup Matching : log[j] <= log[i] + Overlap
    BY FinalPage DEF Recent
  <2> QED BY <1>1, <2>1
<1>8. Stored' = Stored /\ log' = log /\ collected' = collected \cup answer
  BY DEF relay, Stored
<1>9. Paged'
  BY <1>1, <1>4, <1>5, <1>6, <1>7, <1>8 DEF Paged
<1> QED BY <1>5, <1>9

LEMMA PageSteps ==
    ASSUME Inv, Page
    PROVE  Inv'
<1>1. /\ phase = "paging" /\ UNCHANGED <<relay, sending, budget, authRetried>>
      /\ errors' \in 0..MaxErrors /\ authRetried' \in BOOLEAN /\ cut \in BOOLEAN /\ TypeOK /\ sends' = sends
  BY DEF Page, Inv, TypeOK, budget
<1>2. PICK answer \in Leading(Matching), truncated \in BOOLEAN :
          /\ PageComes(answer, truncated)
          /\ truncated \/ Cardinality(answer) = Limit \/ answer = Matching
  BY DEF Page
<1> DEFINE all   == collected \cup (answer \ collected)
           final == ~truncated /\ Cardinality(answer) < Limit
<1>3. all = collected \cup answer /\ answer \subseteq Stored /\ all \in SUBSET Stored
  BY <1>1, Window, Typed DEF Leading, Inv
<1>4. ASSUME final PROVE Recent(all)
  <2>1. Limit \in Nat
    BY GroupSyncAssumption
  <2>2. answer = Matching
    BY <1>2, <1>4, <2>1
  <2> QED BY <1>1, <1>3, <2>2, FinalPage
<1>5. CASE GoLive(all) /\ answer \ collected = {} /\ cut' = (cut \/ (all # {} /\ ~final))
  <2>1. cut' \in BOOLEAN
    BY <1>1, <1>5
  <2>2. cut' \/ Recent(all)
    BY <1>4, <1>5 DEF Recent
  <2>3. GoLive(all)
    BY <1>5
  <2> QED BY ONLY Inv, <1>1, <1>3, <2>1, <2>2, <2>3, GoneLive
<1>6. CASE GoLive(all) /\ final /\ UNCHANGED cut
  BY ONLY Inv, <1>1, <1>3, <1>4, <1>6, GoneLive
<1>7. CASE GoLive(all) /\ cut' = TRUE
  BY ONLY Inv, <1>1, <1>3, <1>7, GoneLive
<1>8. CASE /\ answer \ collected # {} /\ ~Capped
           /\ collected' = all /\ page' = page + 1 /\ until' = NextUntil(answer)
           /\ UNCHANGED <<phase, since, updates, cut>>
  <2>1. Paged' /\ \E at \in 0..MaxTime + Skew : until' = {at}
    BY <1>1, <1>3, <1>8, NextPage
  <2>2. page' \in 0..MaxPages - 1
    BY <1>1, <1>8, GroupSyncAssumption DEF TypeOK, Capped
  <2>3. Stored' = Stored /\ Len(log)' = Len(log) /\ log' = log /\ now' = now
    BY <1>1 DEF relay, Stored
  <2>4. TypeOK'
    BY <1>1, <1>3, <1>8, <2>1, <2>2, <2>3 DEF TypeOK, budget
  <2>5. SeenOnce' /\ NoGap' /\ Stamped' /\ Following'
    BY <1>8, <2>3 DEF Inv, SeenOnce, NoGap, Stamped, Following, Seen
  <2> QED BY <2>1, <2>4, <2>5 DEF Inv
<1> QED BY <1>2, <1>5, <1>6, <1>7, <1>8 DEF PageComes

-------------------------------------------------------------------------------
(* The theorems. *)

LEMMA InitInv == Init => Inv
<1> SUFFICES ASSUME Init PROVE Inv
  OBVIOUS
<1>1. log = <<>> /\ updates = <<>> /\ Stored = {} /\ Seen = {}
  BY DEF Init, Stored, Seen, Range
<1>2. TypeOK
  <2>1. log \in Seq(0..MaxTime + Skew) /\ updates \in Seq(Stored) /\ Len(log) = 0
    BY <1>1, EmptySeq
  <2>2. 0 \in 0..MaxTime /\ 0 \in 0..MaxTime + Skew /\ 0 \in 0..MaxPages - 1 /\ 0 <= MaxEvents
        /\ 0 \in 0..MaxSends /\ 0 \in 0..MaxErrors
    BY GroupSyncAssumption
  <2> QED BY <2>1, <2>2 DEF Init, TypeOK, Phases
<1>3. SeenOnce /\ NoGap /\ Stamped /\ Paged /\ Following
  BY <1>1 DEF Init, SeenOnce, NoGap, Stamped, Paged, Following
<1> QED BY <1>2, <1>3 DEF Inv

LEMMA NextInv ==
    ASSUME Inv, [Next]_vars
    PROVE  Inv'
<1>0. Inv /\ TypeOK /\ SeenOnce
  BY DEF Inv
<1>1. CASE Tick
  <2>1. now' = now + 1 /\ now < MaxTime /\ now \in Nat /\ MaxTime \in Nat /\ Skew \in Nat
    BY <1>1, Typed, GroupSyncAssumption DEF Tick, Inv
  <2>2. UNCHANGED <<log, phase, backfill, since, updates, sending, budget, authRetried, cut>>
    BY <1>1 DEF Tick
  <2>3. Stored' = Stored /\ Seen' = Seen /\ Len(log)' = Len(log)
    BY <2>2 DEF Stored, Seen
  <2>4. TypeOK'
    BY <1>0, <2>1, <2>2, <2>3 DEF TypeOK, backfill, budget
  <2>5. Stamped'
    <3>1. \A i \in Stored : log[i] \in Nat /\ log[i] <= now + Skew
      BY Typed DEF Inv, Stamped
    <3> QED BY <2>1, <2>2, <2>3, <3>1 DEF Stamped
  <2>6. Following'
    <3>1. since \in Nat
      BY Typed DEF Inv
    <3> QED BY <2>1, <2>2, <3>1 DEF Inv, Following
  <2>7. SeenOnce' /\ NoGap' /\ Paged'
    BY <2>2, <2>3 DEF Inv, SeenOnce, NoGap, Paged, backfill
  <2> QED BY <2>4, <2>5, <2>6, <2>7 DEF Inv
<1>2. CASE PeerPublishes
  <2>1. sends' \in 0..MaxSends /\ sending' \subseteq sending \cup {Len(log) + 1} /\ errors' = errors
    BY <1>0, <1>2 DEF PeerPublishes, TypeOK, budget
  <2> QED BY <1>2, <2>1, Growing DEF PeerPublishes
<1>3. CASE Send
  <2>1. sends' \in 0..MaxSends /\ sending' \subseteq sending \cup {Len(log) + 1}
    BY <1>0, <1>3, GroupSyncAssumption DEF Send, TypeOK
  <2> QED BY <1>3, <2>1, Growing DEF Send
<1>4. CASE Page
  BY <1>4, PageSteps
<1>5. CASE PageFails
  <2>1. errors' \in 0..MaxErrors /\ UNCHANGED <<relay, sending, sends, cut>> /\ cut \in BOOLEAN
    BY <1>0, <1>5, GroupSyncAssumption DEF PageFails, TypeOK
  <2>2. CASE /\ ~authRetried /\ authRetried' = TRUE /\ page' = 0 /\ until' = {} /\ collected' = {}
             /\ UNCHANGED <<phase, since, updates>>
    <3>1. Stored' = Stored /\ Seen' = Seen /\ Len(log)' = Len(log) /\ now' = now /\ log' = log
      BY <2>1, <2>2 DEF Stored, Seen, relay
    <3>2. TypeOK'
      BY <1>0, <2>1, <2>2, <3>1, GroupSyncAssumption DEF TypeOK
    <3>3. SeenOnce' /\ NoGap' /\ Stamped' /\ Paged' /\ Following'
      BY <2>1, <2>2, <3>1 DEF Inv, SeenOnce, NoGap, Stamped, Paged, Following
    <3> QED BY <3>2, <3>3 DEF Inv
  <2>3. CASE GoLive({}) /\ UNCHANGED authRetried
    <3>1. authRetried' \in BOOLEAN /\ cut' \in BOOLEAN /\ Recent({}) /\ {} \in SUBSET Stored /\ GoLive({})
      BY <1>0, <2>1, <2>3 DEF TypeOK, Recent
    <3> QED BY ONLY <1>0, <2>1, <3>1, GoneLive
  <2> QED BY <1>5, <2>2, <2>3 DEF PageFails
<1>6. CASE Deliver
  <2>1. PICK i \in Stored : updates' = Append1(updates, i)
    BY <1>6 DEF Deliver
  <2>2. Taken(updates, updates', {i})
    BY <1>0, <2>1, AppendTakes
  <2> QED BY <1>6, <2>2, MoreSeen DEF Deliver
<1>7. CASE Sent
  <2>1. PICK i \in sending : updates' \in {updates, Append1(updates, i)} /\ sending' = sending \ {i}
    BY <1>7 DEF Sent
  <2>2. i \in Stored /\ updates \in Seq(Stored)
    BY <1>0 DEF TypeOK
  <2>3. CASE updates' = updates
    <3>1. Taken(updates, updates', {})
      BY <1>0, <2>2, <2>3, LenProperties DEF Taken, SeenOnce
    <3> QED BY <1>7, <2>1, <3>1, MoreSeen DEF Sent
  <2>4. CASE updates' = Append1(updates, i)
    <3>1. Taken(updates, updates', {i})
      BY <1>0, <2>2, <2>4, AppendTakes
    <3> QED BY <1>7, <2>1, <2>2, <3>1, MoreSeen DEF Sent
  <2> QED BY <2>1, <2>3, <2>4
<1>8. CASE Open \/ LiveFails \/ Reopen \/ Stop \/ UNCHANGED vars
  <2>1. /\ UNCHANGED <<relay, backfill, since, updates, sending, sends, cut>>
        /\ errors' \in 0..MaxErrors /\ authRetried' \in BOOLEAN /\ phase' \in Phases
    <3>1. errors \in 0..MaxErrors /\ authRetried \in BOOLEAN /\ phase \in Phases /\ MaxErrors \in Nat
      BY <1>0, GroupSyncAssumption DEF TypeOK
    <3>2. CASE Open \/ Reopen \/ Stop \/ UNCHANGED vars
      <4>1. phase' = phase \/ phase' \in {"paging", "live", "dead", "stopped"}
        BY <3>2 DEF Open, Reopen, Stop, vars
      <4>2. UNCHANGED <<relay, backfill, since, updates, sending, sends, cut, errors, authRetried>>
        BY <3>2 DEF Open, Reopen, Stop, vars, relay, backfill, budget
      <4> QED BY <3>1, <4>1, <4>2 DEF Phases
    <3>3. CASE LiveFails
      <4>1. UNCHANGED <<relay, backfill, since, updates, sending, sends, cut>> /\ errors' \in 0..MaxErrors
        BY <3>1, <3>3 DEF LiveFails
      <4>2. authRetried' \in BOOLEAN /\ phase' \in Phases
        <5>1. CASE authRetried
          BY <3>1, <3>3, <5>1 DEF LiveFails, Phases
        <5>2. CASE ~authRetried
          <6>1. phase' \in {"retrying", "dead"} /\ authRetried' = (phase' = "retrying")
            BY <3>3, <5>2 DEF LiveFails
          <6> QED BY <6>1 DEF Phases
        <5> QED BY <5>1, <5>2
      <4> QED BY <4>1, <4>2
    <3> QED BY <1>8, <3>2, <3>3
  <2>2. /\ phase' \in {"closed", "paging"} => phase \in {"closed", "paging"}
        /\ phase' \in {"live", "retrying"} => phase \in {"live", "retrying"}
    BY <1>8 DEF Open, LiveFails, Reopen, Stop, vars
  <2>3. Stored' = Stored /\ Seen' = Seen /\ Len(log)' = Len(log) /\ now' = now /\ log' = log
    BY <2>1 DEF Stored, Seen, relay
  <2>4. TypeOK'
    BY <1>0, <2>1, <2>3 DEF TypeOK, backfill
  <2>5. SeenOnce' /\ NoGap' /\ Stamped' /\ Paged' /\ Following'
    BY <2>1, <2>2, <2>3 DEF Inv, SeenOnce, NoGap, Stamped, Paged, Following, backfill
  <2> QED BY <2>4, <2>5 DEF Inv
<1> QED BY <1>1, <1>2, <1>3, <1>4, <1>5, <1>6, <1>7, <1>8 DEF Next

LEMMA Invariance == Spec => []Inv
<1> QED BY InitInv, NextInv, PTL DEF Spec

\* Every variable of the session keeps its type, within the bounds.
THEOREM TypeCorrect == Spec => []TypeOK
<1>1. Inv => TypeOK
  BY DEF Inv
<1> QED BY Invariance, <1>1, PTL

\* The app sees no event twice (append of group-sync.js, and the sorted backfill).
THEOREM TakenOnce == Spec => []SeenOnce
<1>1. Inv => SeenOnce
  BY DEF Inv
<1> QED BY Invariance, <1>1, PTL

\* No event falls between backfill and live stream, whatever the order of pages,
\* publishes and clocks, as long as clocks differ by no more than the overlap.
THEOREM NothingBetween == Spec => []NoGap
<1>1. Inv => NoGap
  BY DEF Inv
<1> QED BY Invariance, <1>1, PTL

LEMMA TakenIsPrefix ==
    ASSUME updates \in Seq(Stored), updates' \in Seq(Stored), Len(updates) <= Len(updates'),
           \A k \in 1..Len(updates) : updates'[k] = updates[k]
    PROVE  IsPrefix(updates, updates')
<1>1. Len(updates) \in Nat /\ Len(updates') \in Nat
  OBVIOUS
<1>2. SubSeq(updates, 1, Len(updates)) = SubSeq(updates', 1, Len(updates))
  <2> DEFINE s == SubSeq(updates, 1, Len(updates))
             t == SubSeq(updates', 1, Len(updates))
  <2>1. /\ s \in Seq(Stored) /\ Len(s) = Len(updates)
        /\ \A k \in 1..Len(updates) : s[k] = updates[k]
    BY <1>1, SubSeqProperties
  <2>2. /\ t \in Seq(Stored) /\ Len(t) = Len(updates)
        /\ \A k \in 1..Len(updates) : t[k] = updates'[k]
    BY <1>1, SubSeqProperties
  <2> QED BY <2>1, <2>2, SeqEqual
<1> QED BY <1>2 DEF IsPrefix

\* What the app has seen stays where it is: the serials an app was given are final.
THEOREM SerialsFinal == Spec => SerialsStay
<1>1. Inv /\ [Next]_vars => [IsPrefix(updates, updates')]_updates
  <2> SUFFICES ASSUME Inv, Next, updates' # updates PROVE IsPrefix(updates, updates')
    BY DEF vars
  <2>1. TypeOK /\ SeenOnce
    BY DEF Inv
  <2>2. \E events \in SUBSET Stored : Taken(updates, updates', events)
    <3>1. CASE \E events \in SUBSET Stored : updates' = Folded(updates, events)
      BY <2>1, <3>1, FoldedTakes
    <3>2. CASE \E i \in Stored : updates' = Append1(updates, i)
      BY <2>1, <3>2, AppendTakes
    <3>3. \/ \E events \in SUBSET Stored : updates' = Folded(updates, events)
          \/ \E i \in Stored : updates' = Append1(updates, i)
      <4>1. CASE Page
        <5>1. PICK answer \in Leading(Matching), truncated \in BOOLEAN : PageComes(answer, truncated)
          BY <4>1 DEF Page
        <5>2. GoLive(collected \cup (answer \ collected))
          BY <5>1 DEF PageComes
        <5>3. answer \subseteq Stored /\ collected \subseteq Stored
          BY <2>1 DEF Leading, Matching, TypeOK
        <5> QED BY <5>2, <5>3 DEF GoLive
      <4>2. CASE PageFails
        BY <4>2 DEF PageFails, GoLive
      <4>3. CASE Deliver
        BY <4>3 DEF Deliver
      <4>4. CASE Sent
        BY <2>1, <4>4 DEF Sent, TypeOK
      <4>5. CASE Tick \/ PeerPublishes \/ Open \/ LiveFails \/ Reopen \/ Send \/ Stop
        BY <4>5 DEF Tick, PeerPublishes, Open, LiveFails, Reopen, Send, Stop
      <4> QED BY <4>1, <4>2, <4>3, <4>4, <4>5 DEF Next
    <3> QED BY <3>1, <3>2, <3>3
  <2>3. updates \in Seq(Stored)
    BY <2>1 DEF TypeOK
  <2> QED BY <2>2, <2>3, TakenIsPrefix DEF Taken
<1> QED BY Invariance, <1>1, PTL DEF Spec, SerialsStay
===============================================================================
