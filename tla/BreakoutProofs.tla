--------------------------- MODULE BreakoutProofs ---------------------------
(***************************************************************************)
(* Proofs about a seat in a call with breakout rooms.                      *)
(*                                                                         *)
(* The invariant is about the client's record alone, so that each function *)
(* of the stores has a lemma on records: a Sound record goes in and comes  *)
(* out.  Sound has a part for the types (Typed), one for the call (Call:   *)
(* what is connected is tracked or about to be disconnected, by one join   *)
(* at a time) and one for the seat (Seat: the call is where the pointer    *)
(* is).  Between a step and its effects the record may be short of Good:   *)
(* a caller still has to go on, and finds the error it comes back from     *)
(* (Handed).  The effects make it Good again.                              *)
(***************************************************************************)
EXTENDS Breakout, FiniteSetTheorems, WellFoundedInduction, TLAPS

----------------------------------------------------------------------------
(* The inductive invariant, as predicates of the client's record. *)

\* What an async function is, and where it can be.
Shape(m) ==
    \/ /\ m.kind = "enter" /\ m.room \in Rooms /\ m.to = m.room /\ m.token
       /\ m.pc \in {"asking", "leaving", "clearing", "connecting", "media", "tearing", "returned"}
    \/ /\ m.kind = "return" /\ m.to = Main /\ ~m.token
       /\ m.pc \in {"leaving", "token", "clearing", "connecting", "media", "tearing", "returned", "giving up"}
       /\ m.pc = "giving up" => m.room # None
    \/ m.kind = "leave" /\ m.to = None /\ m.pc \in {"leaving", "returned"}
    \/ m.kind = "request" /\ m.room \in Rooms /\ m.pc \in {"checking", "seating", "knocking"}

Shaped(M) ==
    /\ M \in SUBSET Move /\ IsFiniteSet(M)
    /\ \A m \in M : Shape(m)
    /\ \A m, k \in M : m.id = k.id => m = k

Typed(c) == c \in Client /\ Shaped(c.moves) /\ IsFiniteSet(c.up)

Others(c, m) == {k \in c.moves : k.id # m.id}
Outdated(m) == [m EXCEPT !.stale = m.stale \/ m.pc \in Begun]
Outdate(M) == {Outdated(m) : m \in M}

CallSame(c, d) ==
    /\ d.active = c.active /\ d.phase = c.phase /\ d.heard = c.heard
    /\ d.room = c.room /\ d.up = c.up /\ d.reason = c.reason
SeatSame(c, d) == d.session = c.session /\ d.current = c.current /\ d.pending = c.pending /\ d.gone = c.gone
\* n is the move m at a later place.
SameMove(m, n) ==
    n.id = m.id /\ n.kind = m.kind /\ n.room = m.room /\ n.to = m.to /\ n.token = m.token /\ n.clear = m.clear

----------------------------------------------------------------------------
(* Records and identifiers. *)

\* There is a number no member of a finite set has: the pigeons are the first n + 1 numbers.
LEMMA FreshIdIsFresh ==
    ASSUME NEW S, IsFiniteSet(S)
    PROVE  FreshId(S) \in Nat \ {0} /\ \A x \in S : x.id # FreshId(S)
<1> DEFINE n == Cardinality(S)
           I == 1..(n + 1)
<1>1. n \in Nat BY FS_CardinalityType
<1>2. IsFiniteSet(I) /\ Cardinality(I) = n + 1 BY <1>1, FS_Interval
<1>3. \E i \in I : \A x \in S : x.id # i
  <2> SUFFICES ASSUME \A i \in I : \E x \in S : x.id = i
               PROVE  FALSE
    OBVIOUS
  <2> DEFINE f == [i \in I |-> CHOOSE x \in S : x.id = i]
  <2>1. \A i \in I : f[i] \in S /\ f[i].id = i OBVIOUS
  <2>2. f \in [I -> S] BY <2>1
  <2> HIDE DEF f, I
  <2>3. \E i, j \in I : i # j /\ f[i] = f[j] BY <1>1, <1>2, <2>2, FS_PigeonHole
  <2> QED BY <2>1, <2>3
<1> QED BY <1>1, <1>3 DEF FreshId

\* As many async functions as before.
LEMMA ImageFinite ==
    ASSUME NEW M, IsFiniteSet(M)
    PROVE  IsFiniteSet(Outdate(M))
<1> DEFINE f == [m \in M |-> Outdated(m)]
<1>1. f \in Surjection(M, Outdate(M)) BY DEF Surjection, Outdate
<1> QED BY <1>1, FS_Surjection

\* A newer attempt makes a join stale and leaves the rest of it.
LEMMA OutdatedMove ==
    ASSUME NEW m \in Move
    PROVE  /\ Outdated(m) \in Move /\ SameMove(m, Outdated(m))
           /\ Outdated(m).pc = m.pc /\ Outdated(m).drop = m.drop
           /\ Outdated(m).stale = (m.stale \/ m.pc \in Begun)
BY DEF Outdated, Move, SameMove

\* What an async function may be depends on its place only.
LEMMA ShapeSame ==
    ASSUME NEW m \in Move, NEW n \in Move, SameMove(m, n), n.pc = m.pc, Shape(m)
    PROVE  Shape(n)
BY DEF Shape, SameMove

\* After a newer attempt the async functions are what they were.
LEMMA OutdateMoves ==
    ASSUME NEW M, Shaped(M)
    PROVE  Shaped(Outdate(M))
<1>1. \A m \in M : m \in Move BY DEF Shaped
<1>2. IsFiniteSet(Outdate(M)) BY ImageFinite DEF Shaped
<1>3. \A m \in M : /\ Outdated(m) \in Move /\ Shape(Outdated(m)) /\ Outdated(m).id = m.id
  BY <1>1, OutdatedMove, ShapeSame DEF Shaped, SameMove
<1>4. \A k \in Outdate(M) : \E m \in M : k = Outdated(m) BY DEF Outdate
<1> QED BY <1>2, <1>3, <1>4 DEF Shaped

\* Moves are put in place of what they were, or taken away.
LEMMA PutMoves ==
    ASSUME NEW c, Typed(c), NEW n \in Move, Shape(n)
    PROVE  Shaped(Others(c, n) \cup {n})
<1>1. Others(c, n) \in SUBSET c.moves BY DEF Others
<1>2. IsFiniteSet(Others(c, n) \cup {n}) BY <1>1, FS_Subset, FS_AddElement DEF Typed, Shaped
<1>3. \A m \in Others(c, n) : m.id # n.id BY DEF Others
<1> QED BY <1>1, <1>2, <1>3 DEF Typed, Shaped

\* Async functions that have ended leave the others as they are.
LEMMA FewerMoves ==
    ASSUME NEW M, Shaped(M), NEW N \in SUBSET M
    PROVE  Shaped(N)
BY FS_Subset DEF Shaped

\* One more async function, with a number of its own.
LEMMA AddMove ==
    ASSUME NEW M, Shaped(M), NEW n \in Move, Shape(n), \A m \in M : m.id # n.id
    PROVE  Shaped(M \cup {n})
BY FS_AddElement DEF Shaped

\* Numbers tell async functions apart.
LEMMA TakenAway ==
    ASSUME NEW c, Typed(c), NEW m \in c.moves
    PROVE  c.moves \ {m} = Others(c, m)
BY DEF Typed, Shaped, Others

\* The others after a newer attempt are the others, outdated.
LEMMA OutdatedOthers ==
    ASSUME NEW c, Typed(c), NEW m
    PROVE  {k \in Outdate(c.moves) : k.id # m.id} = Outdate(Others(c, m))
<1>1. \A k \in c.moves : Outdated(k).id = k.id BY OutdatedMove DEF Typed, Shaped, SameMove
<1> QED BY <1>1 DEF Outdate, Others

\* A new async function has a new number.
LEMMA NewMoveIsFresh ==
    ASSUME NEW c, Typed(c), NEW kind, NEW r, NEW to
    PROVE  \A k \in c.moves : k.id # NewMove(c, kind, r, to).id
BY FreshIdIsFresh DEF NewMove, Typed, Shaped

\* A new async function has its type.
LEMMA NewMoveIs ==
    ASSUME NEW c, Typed(c), NEW kind \in {"enter", "return", "leave", "request"},
           NEW r \in Rooms \cup {None}, NEW to \in Channels \cup {None}
    PROVE  NewMove(c, kind, r, to) \in Move
<1> DEFINE i == FreshId(c.moves)
<1>1. i \in Nat \ {0} BY FreshIdIsFresh DEF Typed, Shaped
<1> HIDE DEF i
<1>2. [id |-> i, kind |-> kind, pc |-> "asking", room |-> r, to |-> to,
       token |-> kind = "enter", stale |-> FALSE, drop |-> None, clear |-> FALSE] \in Move
  BY <1>1 DEF Move
<1> QED BY <1>2 DEF NewMove, i

----------------------------------------------------------------------------
(* What the functions of the call store do to the record. *)

\* What a function of the call store leaves alone.
SeatKept(c, d) == d \in Client /\ SeatSame(c, d)

\* endCall: idle, with no channel and no listener; the Room stays, and every join is stale.
LEMMA EndCallIs ==
    ASSUME NEW c, Typed(c)
    PROVE  LET d == EndCall(c)
           IN  /\ SeatKept(c, d) /\ Typed(d)
               /\ d.active = None /\ d.phase = "idle" /\ d.heard = FALSE
               /\ d.room = c.room /\ d.up = c.up /\ d.reason = c.reason /\ d.odd = c.odd
               /\ d.moves = Outdate(c.moves)
<1>1. c \in Client BY DEF Typed
<1> DEFINE M == Outdate(c.moves)
           d == [c EXCEPT !.heard = FALSE, !.moves = M, !.active = None, !.phase = "idle", !.error = None]
<1>2. EndCall(c) = d BY <1>1 DEF EndCall, NextAttempt, Client, Outdate, Outdated
<1>3. Shaped(M) BY OutdateMoves DEF Typed
<1>4. M \in SUBSET Move BY <1>3 DEF Shaped
<1> HIDE DEF M
<1>5. d \in Client BY <1>1, <1>4 DEF Client, Phases
<1>6. SeatSame(c, d) BY <1>1 DEF Client, SeatSame
<1>7. /\ d.active = None /\ d.phase = "idle" /\ d.heard = FALSE
      /\ d.room = c.room /\ d.up = c.up /\ d.reason = c.reason /\ d.odd = c.odd /\ d.moves = M
  BY <1>1 DEF Client
<1> HIDE DEF d
<1>8. Typed(d) BY <1>3, <1>5, <1>7 DEF Typed
<1> QED BY <1>2, <1>5, <1>6, <1>7, <1>8 DEF M, SeatKept

\* Putting an async function in its place changes nothing else.
LEMMA PutIs ==
    ASSUME NEW c, Typed(c), NEW n \in Move, Shape(n)
    PROVE  LET d == Put(c, n)
           IN  /\ SeatKept(c, d) /\ Typed(d) /\ CallSame(c, d) /\ d.odd = c.odd
               /\ d.moves = Others(c, n) \cup {n}
<1>1. c \in Client BY DEF Typed
<1> DEFINE M == Others(c, n) \cup {n}
           d == [c EXCEPT !.moves = M]
<1>2. Put(c, n) = d BY <1>1 DEF Put, Client, Others
<1>3. Shaped(M) BY PutMoves
<1>4. M \in SUBSET Move BY <1>3 DEF Shaped
<1> HIDE DEF M
<1>5. d \in Client BY <1>1, <1>4 DEF Client
<1>6. SeatSame(c, d) /\ CallSame(c, d) /\ d.odd = c.odd /\ d.moves = M /\ d.up = c.up
  BY <1>1 DEF Client, SeatSame, CallSame
<1> HIDE DEF d
<1>8. Typed(d) BY <1>3, <1>5, <1>6 DEF Typed
<1> QED BY <1>2, <1>5, <1>6, <1>8 DEF M, SeatKept

\* A join, or a leave.
Joiner(m) ==
    /\ m \in Move
    /\ \/ m.kind = "enter" /\ m.room \in Rooms /\ m.to = m.room /\ m.token
       \/ m.kind = "return" /\ m.to = Main /\ ~m.token
Leaver(m) == m \in Move /\ m.kind = "leave" /\ m.to = None

\* A function that has returned waits for its caller to go on.
LEMMA ReturnedIs ==
    ASSUME NEW c, Typed(c), NEW m, Joiner(m) \/ Leaver(m)
    PROVE  LET d == Returned(c, m)
           IN  /\ SeatKept(c, d) /\ Typed(d) /\ CallSame(c, d) /\ d.odd = c.odd
               /\ \E n \in Move : /\ SameMove(m, n) /\ n.pc = "returned" /\ d.moves = Others(c, m) \cup {n}
<1> DEFINE n == [m EXCEPT !.pc = "returned", !.drop = None]
<1>1. m \in Move BY DEF Joiner, Leaver
<1>2. n \in Move /\ SameMove(m, n) /\ n.pc = "returned" BY <1>1 DEF Move, SameMove, JoinPcs
<1>3. Returned(c, m) = Put(c, n) BY DEF Returned
<1> HIDE DEF n
<1>4. Shape(n) BY <1>1, <1>2 DEF Shape, SameMove, Joiner, Leaver
<1>5. Others(c, n) = Others(c, m) BY <1>2 DEF Others, SameMove
<1> QED BY <1>2, <1>3, <1>4, <1>5, PutIs

\* A call is left, for the join or the leave m.
Leaves(c, d, m) ==
    /\ SeatKept(c, d) /\ Typed(d)
    /\ d.active = None /\ d.phase = "idle" /\ d.heard = FALSE
    /\ d.room = c.room /\ d.up = c.up /\ d.reason = c.reason /\ d.odd = c.odd
    /\ \E n \in Move : /\ SameMove(m, n) /\ n.pc = "leaving" /\ n.drop = c.room
                       /\ d.moves = Outdate(Others(c, m)) \cup {n}

\* endCall, then the disconnect of the Room tracked now.
LEMMA LeavesIs ==
    ASSUME NEW c, Typed(c), NEW m, Joiner(m) \/ Leaver(m)
    PROVE  Leaves(c, Put(EndCall(c), [m EXCEPT !.pc = "leaving", !.drop = c.room]), m)
<1> DEFINE n == [m EXCEPT !.pc = "leaving", !.drop = c.room]
           e == EndCall(c)
<1>1. m \in Move /\ c \in Client BY DEF Joiner, Leaver, Typed
<1>2. c.room \in Room \cup {None} BY <1>1 DEF Client
<1>3. n \in Move /\ SameMove(m, n) /\ n.pc = "leaving" /\ n.drop = c.room
  BY <1>1, <1>2 DEF Move, SameMove, JoinPcs
<1>4. /\ SeatKept(c, e) /\ Typed(e)
      /\ e.active = None /\ e.phase = "idle" /\ e.heard = FALSE
      /\ e.room = c.room /\ e.up = c.up /\ e.reason = c.reason /\ e.odd = c.odd
      /\ e.moves = Outdate(c.moves)
  BY EndCallIs
<1> HIDE DEF n, e
<1> DEFINE d == Put(e, n)
<1>5. Shape(n) BY <1>1, <1>3 DEF Shape, SameMove, Joiner, Leaver
<1>6. /\ SeatKept(e, d) /\ Typed(d) /\ CallSame(e, d) /\ d.odd = e.odd
      /\ d.moves = Others(e, n) \cup {n}
  BY <1>3, <1>4, <1>5, PutIs
<1>7. Others(e, n) = Outdate(Others(c, m)) BY <1>3, <1>4, OutdatedOthers DEF Others, SameMove
<1> HIDE DEF d
<1>8. Leaves(c, d, m) BY <1>3, <1>4, <1>6, <1>7 DEF Leaves, SeatKept, SeatSame, CallSame
<1> QED BY <1>8 DEF d, e, n

\* The next attempt begins, for the join m.
Begins(c, d, m) ==
    /\ SeatKept(c, d) /\ Typed(d)
    /\ d.active = m.to /\ d.room = c.room /\ d.up = c.up
    /\ d.odd = IF Overtakes(c, m) THEN c.odd \cup {"overlap"} ELSE c.odd
    /\ \E n \in Move :
         /\ SameMove(m, n) /\ ~n.stale /\ d.moves = Outdate(Others(c, m)) \cup {n}
         /\ \/ m.token /\ d.phase = "ready" /\ d.heard /\ n.pc = "connecting" /\ c.room = None
            \/ m.token /\ d.phase = "ready" /\ d.heard /\ n.pc = "clearing" /\ n.drop = c.room /\ c.room # None
            \/ ~m.token /\ d.phase = "requesting" /\ ~d.heard /\ n.pc = "token"

\* joinGroupCall from its first line to its first await, with a token at hand or without.
LEMMA BeginsIs ==
    ASSUME NEW c, Typed(c), NEW m, Joiner(m), ~(c.active = m.to /\ Live(c))
    PROVE  Begins(c, Begin(c, m), m)
<1> DEFINE own == [m EXCEPT !.stale = FALSE]
           M == Outdate(c.moves)
           O == IF Overtakes(c, m) THEN c.odd \cup {"overlap"} ELSE c.odd
           b == [c EXCEPT !.heard = FALSE, !.moves = M, !.active = m.to, !.phase = "requesting",
                          !.error = None, !.odd = O]
<1>1. m \in Move /\ c \in Client BY DEF Joiner, Typed
<1>2. Begin(c, m) = IF own.token THEN Granted(b, own) ELSE Put(b, [own EXCEPT !.pc = "token", !.drop = None])
  BY <1>1 DEF Begin, NextAttempt, Client, Outdate, Outdated, Move
<1>3. own \in Move /\ SameMove(m, own) /\ ~own.stale BY <1>1 DEF Move, SameMove
<1>4. Shaped(M) BY OutdateMoves DEF Typed
<1>5. M \in SUBSET Move BY <1>4 DEF Shaped
<1>6. O \in SUBSET Oddities /\ m.to \in Channels \cup {None} BY <1>1 DEF Client, Oddities, Move
<1> HIDE DEF M, O
<1>7. b \in Client BY <1>1, <1>5, <1>6 DEF Client, Phases
<1>8. /\ SeatSame(c, b) /\ b.active = m.to /\ b.phase = "requesting" /\ b.heard = FALSE /\ b.odd = O
      /\ b.room = c.room /\ b.up = c.up /\ b.reason = c.reason /\ b.moves = M
  BY <1>1 DEF Client, SeatSame
<1> HIDE DEF b, own
<1>9. Typed(b) /\ Joiner(own) /\ own.token = m.token
  BY <1>3, <1>4, <1>7, <1>8 DEF Typed, Joiner, SameMove
<1>10. Others(b, own) = Outdate(Others(c, m)) BY <1>3, <1>8, OutdatedOthers DEF Others, SameMove, M
<1>11. CASE m.token
  <2> DEFINE g == [b EXCEPT !.phase = "ready", !.heard = TRUE]
             gn == [g EXCEPT !.reason = None]
             n1 == [own EXCEPT !.pc = "connecting", !.drop = None]
             n2 == [own EXCEPT !.pc = "clearing", !.drop = b.room]
  <2>1. Begin(c, m) = IF b.room = None THEN Put(gn, n1) ELSE Put(g, n2)
    BY <1>2, <1>7, <1>9, <1>11 DEF Granted, ConnectToRoom, Client
  <2>2. g \in Client /\ gn \in Client
    <3>1. g \in Client BY <1>7 DEF Client, Phases
    <3> HIDE DEF g
    <3>2. gn \in Client BY <3>1 DEF Client, Reasons
    <3> QED BY <3>1, <3>2
  <2>3. /\ SeatSame(b, g) /\ g.active = b.active /\ g.phase = "ready" /\ g.heard /\ g.odd = b.odd
        /\ g.room = b.room /\ g.up = b.up /\ g.moves = b.moves
    BY <1>7 DEF Client, SeatSame
  <2>4. /\ SeatSame(b, gn) /\ gn.active = b.active /\ gn.phase = "ready" /\ gn.heard /\ gn.odd = b.odd
        /\ gn.room = b.room /\ gn.up = b.up /\ gn.moves = b.moves
    BY <1>7 DEF Client, SeatSame
  <2>5. /\ n1 \in Move /\ SameMove(own, n1) /\ ~n1.stale /\ n1.pc = "connecting"
        /\ n2 \in Move /\ SameMove(own, n2) /\ ~n2.stale /\ n2.pc = "clearing" /\ n2.drop = b.room
    BY <1>3, <1>7 DEF Move, SameMove, JoinPcs, Client
  <2> HIDE DEF g, gn, n1, n2
  <2>6. Typed(g) /\ Typed(gn) /\ Shape(n1) /\ Shape(n2)
    BY <1>9, <2>2, <2>3, <2>4, <2>5 DEF Typed, Shape, SameMove, Joiner
  <2>7. Others(gn, n1) = Others(b, own) /\ Others(g, n2) = Others(b, own)
    BY <2>3, <2>4, <2>5 DEF Others, SameMove
  <2>8. CASE b.room = None
    <3> DEFINE d == Put(gn, n1)
    <3>1. /\ SeatKept(gn, d) /\ Typed(d) /\ CallSame(gn, d) /\ d.odd = gn.odd
          /\ d.moves = Others(gn, n1) \cup {n1}
      BY <2>5, <2>6, PutIs
    <3> HIDE DEF d
    <3>2. /\ SeatKept(c, d) /\ d.active = m.to /\ d.room = c.room /\ d.up = c.up
          /\ d.odd = O /\ d.phase = "ready" /\ d.heard
      BY <1>8, <2>4, <3>1 DEF SeatKept, SeatSame, CallSame
    <3>3. /\ SameMove(m, n1) /\ ~n1.stale /\ d.moves = Outdate(Others(c, m)) \cup {n1}
          /\ n1.pc = "connecting" /\ c.room = None
      BY <1>3, <1>8, <1>10, <2>5, <2>7, <2>8, <3>1 DEF SameMove
    <3>4. Begins(c, d, m) BY <1>11, <2>5, <3>1, <3>2, <3>3 DEF Begins, O
    <3> QED BY <2>1, <2>8, <3>4 DEF d
  <2>9. CASE b.room # None
    <3> DEFINE d == Put(g, n2)
    <3>1. /\ SeatKept(g, d) /\ Typed(d) /\ CallSame(g, d) /\ d.odd = g.odd
          /\ d.moves = Others(g, n2) \cup {n2}
      BY <2>5, <2>6, PutIs
    <3> HIDE DEF d
    <3>2. /\ SeatKept(c, d) /\ d.active = m.to /\ d.room = c.room /\ d.up = c.up
          /\ d.odd = O /\ d.phase = "ready" /\ d.heard
      BY <1>8, <2>3, <3>1 DEF SeatKept, SeatSame, CallSame
    <3>3. /\ SameMove(m, n2) /\ ~n2.stale /\ d.moves = Outdate(Others(c, m)) \cup {n2}
          /\ n2.pc = "clearing" /\ n2.drop = c.room /\ c.room # None
      BY <1>3, <1>8, <1>10, <2>5, <2>7, <2>9, <3>1 DEF SameMove
    <3>4. Begins(c, d, m) BY <1>11, <2>5, <3>1, <3>2, <3>3 DEF Begins, O
    <3> QED BY <2>1, <2>9, <3>4 DEF d
  <2> QED BY <2>8, <2>9
<1>12. CASE ~m.token
  <2> DEFINE n == [own EXCEPT !.pc = "token", !.drop = None]
             d == Put(b, n)
  <2>1. n \in Move /\ SameMove(own, n) /\ ~n.stale /\ n.pc = "token" BY <1>3 DEF Move, SameMove, JoinPcs
  <2> HIDE DEF n
  <2>2. Shape(n) /\ Others(b, n) = Others(b, own)
    BY <1>9, <1>12, <2>1 DEF Shape, SameMove, Joiner, Others
  <2>3. /\ SeatKept(b, d) /\ Typed(d) /\ CallSame(b, d) /\ d.odd = b.odd
        /\ d.moves = Others(b, n) \cup {n}
    BY <1>9, <2>1, <2>2, PutIs
  <2>4. Begin(c, m) = d BY <1>2, <1>9, <1>12 DEF n
  <2> HIDE DEF d
  <2>5. Begins(c, d, m)
    BY <1>3, <1>8, <1>10, <1>12, <2>1, <2>2, <2>3
    DEF Begins, SeatKept, SeatSame, CallSame, SameMove, O
  <2> QED BY <2>4, <2>5
<1> QED BY <1>11, <1>12

----------------------------------------------------------------------------
(* The call: what is active, what is connected, and who will see to it. *)

\* A join from the moment it leaves the old call until it returns.
Underway == {"leaving", "token", "clearing", "connecting", "media", "tearing"}
Holding == {"clearing", "connecting", "media", "tearing"}

\* Always.
Idle(c) ==
    /\ c.active = None <=> c.phase = "idle"
    /\ \A m \in c.moves : m.pc = "leaving" => c.active = None
    /\ \A m, k \in c.moves : m.pc = "leaving" /\ k.pc = "leaving" => k = m
    /\ \A m \in c.moves : m.pc \in Begun /\ ~m.stale => c.active = m.to
    /\ \A m, k \in c.moves : m.pc \in Begun /\ ~m.stale /\ k.pc \in Begun /\ ~k.stale => k = m
    /\ \A m \in c.moves : m.pc = "token" /\ ~m.stale => c.phase = "requesting" /\ ~c.heard
    /\ c.heard => c.active # None

\* At most one join has a Room to connect or to tear down; it is alone with
\* the tracked Room.
OneHolds(c) ==
    /\ \A m, k \in c.moves : m.pc \in Holding /\ k.pc \in Holding => k = m
    /\ \A m \in c.moves : m.pc # "clearing"
    /\ \A m \in c.moves : m.pc \in Holding /\ m.stale => c.active = None
    /\ \A m \in c.moves : m.pc = "tearing" => m.stale /\ m.drop # None

\* What is connected is tracked, or is about to be disconnected.
Tracked(c) ==
    /\ c.up \subseteq {c.room}
    /\ (c.room # None /\ c.up = {}) => \E m \in c.moves : m.pc \in Dropping /\ m.drop = c.room
    /\ \A m \in c.moves : m.pc \in Dropping /\ m.drop # None => c.room \in {None, m.drop}
    /\ (c.active = None /\ c.room # None) =>
         \E m \in c.moves : (m.pc = "leaving" /\ m.drop = c.room) \/ m.pc \in {"media", "tearing"}

\* Where a join that holds a Room is against the phase.
Paced(c) ==
    /\ \A m \in c.moves : m.pc = "connecting" =>
         /\ c.room = None
         /\ ~m.stale => c.phase = "ready"
         /\ \A k \in c.moves : k.pc = "leaving" => k.drop = None
    /\ \A m \in c.moves : m.pc = "media" /\ ~m.stale => \/ c.phase = "ready" /\ c.room # None
                                                        \/ c.phase = "ended"
    /\ c.phase = "requesting" => \A m \in c.moves : m.pc \notin Holding
    /\ c.phase \in {"error", "ended", "requesting"} => c.room = None
    /\ c.phase = "ready" => c.heard /\ (c.room = None => \E m \in c.moves : m.pc = "connecting")
    /\ (c.phase = "ready" /\ c.room # None) => c.room.at = c.active

Calm(c) == OneHolds(c) /\ Tracked(c) /\ Paced(c)

Call(c) == Idle(c) /\ ("overlap" \notin c.odd => Calm(c))

\* Nothing of the call changes.
CallFrame(c, d) ==
    /\ CallSame(c, d) /\ c.odd \subseteq d.odd
    /\ \A m \in c.moves \cup d.moves : m.pc \in Underway => (m \in c.moves <=> m \in d.moves)

\* What the call promises depends on the call and on the joins that are under way.
LEMMA CallFramed ==
    ASSUME NEW c, NEW d, Call(c), CallFrame(c, d)
    PROVE  Call(d)
<1> USE DEF CallFrame, CallSame, Underway
<1>1. Idle(d) BY DEF Call, Idle, Begun
<1>2. ASSUME "overlap" \notin d.odd PROVE Calm(d)
  <2>1. OneHolds(c) /\ Tracked(c) /\ Paced(c) BY <1>2 DEF Call, Calm
  <2>2. OneHolds(d) BY <2>1 DEF OneHolds, Holding
  <2>3. Tracked(d) BY <2>1 DEF Tracked, Dropping
  <2>4. Paced(d) BY <2>1 DEF Paced, Holding
  <2> QED BY <2>2, <2>3, <2>4 DEF Calm
<1> QED BY <1>1, <1>2 DEF Call

\* The outdated functions one by one.
LEMMA OutdateIs ==
    ASSUME NEW M \in SUBSET Move
    PROVE  /\ \A k \in Outdate(M) : \E m \in M :
                 /\ SameMove(m, k) /\ k.pc = m.pc /\ k.drop = m.drop
                 /\ k.stale = (m.stale \/ m.pc \in Begun) /\ k = Outdated(m)
           /\ \A m \in M : \E k \in Outdate(M) :
                 /\ SameMove(m, k) /\ k.pc = m.pc /\ k.drop = m.drop
                 /\ k.stale = (m.stale \/ m.pc \in Begun)
<1>1. \A m \in M : /\ SameMove(m, Outdated(m)) /\ Outdated(m).pc = m.pc /\ Outdated(m).drop = m.drop
                   /\ Outdated(m).stale = (m.stale \/ m.pc \in Begun)
  BY OutdatedMove
<1> QED BY <1>1 DEF Outdate

\* A move that is not under way yet.
Fresh(c, m) == \A k \in c.moves : k.pc \in Underway => k.id # m.id

\* Leaving keeps the promise: what was connected is what the disconnect takes along.
LEMMA LeavesCall ==
    ASSUME NEW c, Typed(c), Call(c), NEW m, Fresh(c, m), c.active # None, NEW d, Leaves(c, d, m)
    PROVE  Call(d)
<1> DEFINE O == Others(c, m)
<1>1. PICK n \in Move : /\ SameMove(m, n) /\ n.pc = "leaving" /\ n.drop = c.room
                        /\ d.moves = Outdate(O) \cup {n}
  BY DEF Leaves
<1>2. O \in SUBSET Move /\ O \in SUBSET c.moves BY DEF Others, Typed, Shaped
<1>3. \A k \in Outdate(O) : \E q \in c.moves :
          /\ k.pc = q.pc /\ k.drop = q.drop /\ k.stale = (q.stale \/ q.pc \in Begun) /\ k = Outdated(q)
  BY <1>2, OutdateIs
<1>4. \A q \in c.moves : q.pc \in Underway => \E k \in Outdate(O) :
          /\ k.pc = q.pc /\ k.drop = q.drop /\ k.stale = (q.stale \/ q.pc \in Begun)
  <2>1. \A q \in c.moves : q.pc \in Underway => q \in O BY DEF Fresh, Others
  <2> QED BY <1>2, <2>1, OutdateIs
<1>5. /\ d.active = None /\ d.phase = "idle" /\ ~d.heard /\ d.room = c.room /\ d.up = c.up /\ d.odd = c.odd
  BY DEF Leaves
<1>6. \A q \in c.moves : q.pc # "leaving" BY DEF Call, Idle
<1> HIDE DEF O
<1>7. \A k \in Outdate(O) : k.pc # "leaving" BY <1>3, <1>6
<1>8. Idle(d)
  <2>1. \A k \in d.moves : k.pc \in Begun => k.stale BY <1>1, <1>3 DEF Begun
  <2> QED BY <1>1, <1>5, <1>7, <2>1 DEF Idle, Begun
<1>9. ASSUME "overlap" \notin d.odd PROVE Calm(d)
  <2>1. OneHolds(c) /\ Tracked(c) /\ Paced(c) BY <1>5, <1>9 DEF Call, Calm
  <2>2. OneHolds(d)
    BY <1>1, <1>3, <1>5, <2>1 DEF OneHolds, Holding, Begun
  <2>3. Tracked(d)
    BY <1>1, <1>3, <1>5, <1>6, <2>1 DEF Tracked, OneHolds, Dropping
  <2>4. \A k \in d.moves : k.pc = "connecting" => k.stale /\ d.room = None
    <3>1. \A q \in c.moves : q.pc = "connecting" => c.room = None BY <2>1 DEF Paced
    <3> QED BY <1>1, <1>3, <1>5, <3>1 DEF Begun
  <2>5. \A k \in d.moves : k.pc = "media" => k.stale
    BY <1>1, <1>3, <1>5 DEF Begun
  <2>6. \A k \in d.moves : k.pc = "leaving" => k.drop = d.room BY <1>1, <1>5, <1>7
  <2>7. Paced(d) BY <1>5, <2>4, <2>5, <2>6 DEF Paced
  <2> QED BY <2>2, <2>3, <2>7 DEF Calm
<1> QED BY <1>8, <1>9 DEF Call

\* A join keeps the promise if it starts with no Room, or overlaps and is excused.
LEMMA BeginsCall ==
    ASSUME NEW c, Typed(c), NEW m, NEW d, Begins(c, d, m), m.to \in Channels, Joiner(m),
           \A k \in Others(c, m) : k.pc # "leaving",
           "overlap" \notin d.odd => c.room = None /\ c.up = {}
    PROVE  Call(d)
<1> DEFINE O == Others(c, m)
<1>1. PICK n \in Move :
         /\ SameMove(m, n) /\ ~n.stale /\ d.moves = Outdate(O) \cup {n}
         /\ \/ m.token /\ d.phase = "ready" /\ d.heard /\ n.pc = "connecting" /\ c.room = None
            \/ m.token /\ d.phase = "ready" /\ d.heard /\ n.pc = "clearing" /\ n.drop = c.room /\ c.room # None
            \/ ~m.token /\ d.phase = "requesting" /\ ~d.heard /\ n.pc = "token"
  BY DEF Begins
<1>2. O \in SUBSET Move /\ O \in SUBSET c.moves BY DEF Others, Typed, Shaped
<1>3. \A k \in Outdate(O) : \E q \in O :
          /\ k.pc = q.pc /\ k.drop = q.drop /\ k.stale = (q.stale \/ q.pc \in Begun) /\ k = Outdated(q)
  BY <1>2, OutdateIs
<1>4. /\ d.active = m.to /\ d.room = c.room /\ d.up = c.up
      /\ d.odd = IF Overtakes(c, m) THEN c.odd \cup {"overlap"} ELSE c.odd
  BY DEF Begins
<1>5. \A k \in Outdate(O) : k.pc # "leaving" /\ (k.pc \in Begun => k.stale) BY <1>3
<1>6. None # m.to BY BreakoutAssumption
<1>7. n.to = m.to BY <1>1 DEF SameMove
<1>8. "overlap" \notin d.odd => \A k \in Outdate(O) : k.pc \notin Holding
  BY <1>3, <1>4 DEF Overtakes, Others, Holding
<1> HIDE DEF O
<1>9. Idle(d)
  <2>1. d.phase # "idle" /\ d.active # None BY <1>1, <1>4, <1>6
  <2>2. \A k \in d.moves : k.pc = "leaving" => FALSE BY <1>1, <1>5
  <2>3. \A k \in d.moves : k.pc \in Begun /\ ~k.stale => k = n BY <1>1, <1>5
  <2>4. n.pc = "token" => d.phase = "requesting" /\ ~d.heard BY <1>1
  <2> QED BY <1>4, <1>7, <2>1, <2>2, <2>3, <2>4 DEF Idle, Begun
<1>10. ASSUME "overlap" \notin d.odd PROVE Calm(d)
  <2>1. d.room = None /\ d.up = {} BY <1>4, <1>10
  <2>2. \A k \in Outdate(O) : k.pc \notin Holding /\ k.pc \notin Dropping
    BY <1>5, <1>8, <1>10 DEF Holding, Dropping
  <2>3. OneHolds(d) BY <1>1, <1>4, <2>1, <2>2 DEF OneHolds, Holding
  <2>4. Tracked(d) BY <1>1, <1>4, <2>1, <2>2 DEF Tracked, Dropping
  <2>5. Paced(d) BY <1>1, <1>4, <1>5, <2>1, <2>2 DEF Paced, Holding
  <2> QED BY <2>3, <2>4, <2>5 DEF Calm
<1> QED BY <1>9, <1>10 DEF Call

\* With no tracked Room nothing is connected.
LEMMA NoneConnected ==
    ASSUME NEW c, c \in Client, c.up \subseteq {c.room}, c.room = None
    PROVE  c.up = {}
BY BreakoutAssumption DEF Client

\* A join is of a channel.
LEMMA JoinsAChannel ==
    ASSUME NEW m, Joiner(m)
    PROVE  m.to \in Channels /\ m.to # None /\ m \in Move
BY BreakoutAssumption DEF Joiner, Channels

\* m has returned, whatever it was.
Returns(c, d, m) ==
    /\ SeatKept(c, d) /\ Typed(d)
    /\ \E n \in Move : SameMove(m, n) /\ n.pc = "returned" /\ d.moves = Others(c, m) \cup {n}

\* switchGroupCall: refused when idle, nothing to do when there already, otherwise leave and join.
LEMMA SwitchIs ==
    ASSUME NEW c, Typed(c), NEW m, Joiner(m)
    PROVE  LET d == SwitchGroupCall(c, m)
           IN  \/ c.active = None /\ d.odd = c.odd \cup {"crossed"} /\ Returns(c, d, m) /\ CallSame(c, d)
               \/ c.active # None /\ c.active = m.to /\ d.odd = c.odd /\ Returns(c, d, m) /\ CallSame(c, d)
               \/ c.active \notin {None, m.to} /\ Leaves(c, d, m)
               \/ c.active = m.to /\ c.active # None /\ ~Live(c) /\ Begins(c, d, m)
<1>1. CASE c.active = None
  <2> DEFINE x == [c EXCEPT !.odd = c.odd \cup {"crossed"}]
             d == Returned(x, m)
  <2>1. c \in Client /\ c.odd \cup {"crossed"} \in SUBSET Oddities BY DEF Typed, Client, Oddities
  <2>2. x \in Client BY <2>1 DEF Client
  <2>3. SwitchGroupCall(c, m) = d BY <1>1, <2>1 DEF SwitchGroupCall, Client
  <2>4. SeatSame(c, x) /\ CallSame(c, x) /\ x.moves = c.moves /\ x.odd = c.odd \cup {"crossed"} /\ x.up = c.up
    BY <2>1 DEF SeatSame, CallSame, Client
  <2> HIDE DEF x
  <2>5. Typed(x) /\ Others(x, m) = Others(c, m) BY <2>2, <2>4 DEF Typed, Others
  <2>6. /\ SeatKept(x, d) /\ Typed(d) /\ CallSame(x, d) /\ d.odd = x.odd
        /\ \E n \in Move : /\ SameMove(m, n) /\ n.pc = "returned" /\ d.moves = Others(x, m) \cup {n}
    BY <2>5, ReturnedIs
  <2> HIDE DEF d
  <2>7. SeatKept(c, d) /\ CallSame(c, d) /\ d.odd = c.odd \cup {"crossed"}
    BY <2>4, <2>6 DEF SeatKept, SeatSame, CallSame
  <2>8. Returns(c, d, m) BY <2>5, <2>6, <2>7 DEF Returns
  <2> QED BY <1>1, <2>3, <2>7, <2>8
<1>2. CASE c.active # None /\ c.active # m.to
  <2>1. SwitchGroupCall(c, m) = Put(EndCall(c), [m EXCEPT !.pc = "leaving", !.drop = c.room])
    BY <1>2 DEF SwitchGroupCall, Join
  <2> QED BY <1>2, <2>1, LeavesIs
<1>3. CASE c.active # None /\ c.active = m.to /\ Live(c)
  <2> DEFINE d == Returned(c, m)
  <2>1. SwitchGroupCall(c, m) = d BY <1>3 DEF SwitchGroupCall, Join, Begin
  <2>2. Returns(c, d, m) /\ CallSame(c, d) /\ d.odd = c.odd BY ReturnedIs DEF Returns
  <2> QED BY <1>3, <2>1, <2>2
<1>4. CASE c.active # None /\ c.active = m.to /\ ~Live(c)
  <2>1. SwitchGroupCall(c, m) = Begin(c, m) BY <1>4 DEF SwitchGroupCall, Join
  <2> QED BY <1>4, <2>1, BeginsIs
<1> QED BY <1>1, <1>2, <1>3, <1>4

\* switchGroupCall keeps the promise of the call.
LEMMA SwitchCall ==
    ASSUME NEW c, Typed(c), Call(c), NEW m, Joiner(m), Fresh(c, m)
    PROVE  Call(SwitchGroupCall(c, m))
<1> DEFINE d == SwitchGroupCall(c, m)
<1>1. \/ d.odd = c.odd \cup {"crossed"} /\ Returns(c, d, m) /\ CallSame(c, d)
      \/ d.odd = c.odd /\ Returns(c, d, m) /\ CallSame(c, d)
      \/ c.active # None /\ Leaves(c, d, m)
      \/ c.active = m.to /\ c.active # None /\ ~Live(c) /\ Begins(c, d, m)
  BY SwitchIs
<1> HIDE DEF d
<1>2. ASSUME c.odd \subseteq d.odd, Returns(c, d, m), CallSame(c, d)
      PROVE  Call(d)
  <2>1. PICK n \in Move : n.pc = "returned" /\ d.moves = Others(c, m) \cup {n} BY <1>2 DEF Returns
  <2>2. CallFrame(c, d) BY <1>2, <2>1 DEF CallFrame, Fresh, Others, Underway
  <2> QED BY <2>2, CallFramed
<1>3. ASSUME c.active # None, Leaves(c, d, m) PROVE Call(d)
  BY <1>3, LeavesCall
<1>4. ASSUME c.active = m.to, c.active # None, ~Live(c), Begins(c, d, m) PROVE Call(d)
  <2>1. \A k \in Others(c, m) : k.pc # "leaving" BY <1>4 DEF Others, Call, Idle
  <2>2. c.phase \in {"ended", "error"} BY <1>4 DEF Call, Idle, Typed, Client, Phases, Live
  <2>3. "overlap" \notin d.odd => "overlap" \notin c.odd BY <1>4 DEF Begins
  <2>4. "overlap" \notin d.odd => c.room = None /\ c.up = {}
    BY <2>2, <2>3, NoneConnected DEF Call, Calm, Paced, Tracked, Typed
  <2> QED BY <1>4, <2>1, <2>4, BeginsCall, JoinsAChannel
<1>5. Call(d) BY <1>1, <1>2, <1>3, <1>4
<1> QED BY <1>5 DEF d

\* leaveGroupCall keeps the promise of the call.
LEMMA LeaveCall ==
    ASSUME NEW c, Typed(c), Call(c), NEW m, Leaver(m), Fresh(c, m), c.active # None
    PROVE  Leaves(c, Leave(c, m), m) /\ Call(Leave(c, m))
<1>1. [m EXCEPT !.pc = "leaving", !.to = None, !.drop = c.room] = [m EXCEPT !.pc = "leaving", !.drop = c.room]
  BY DEF Leaver, Move
<1>2. Leaves(c, Leave(c, m), m) BY <1>1, LeavesIs DEF Leave
<1> QED BY <1>2, LeavesCall

\* A move under way is a join, or it leaves for good.
LEMMA UnderwayIs ==
    ASSUME NEW c, Typed(c), NEW m \in c.moves, m.pc \in Underway
    PROVE  /\ m \in Move /\ (Joiner(m) \/ Leaver(m))
           /\ m.pc # "leaving" => Joiner(m)
           /\ m.pc = "leaving" /\ m.to # None => Joiner(m)
           /\ m.pc = "token" => m.to = Main
BY DEF Typed, Shaped, Shape, Joiner, Leaver, Underway

\* m goes on, and the call with it.
Onward(c, d, m) ==
    /\ SeatKept(c, d) /\ Typed(d) /\ d.active = c.active /\ d.odd = c.odd
    /\ \E n \in Move : SameMove(m, n) /\ n.pc # "leaving" /\ d.moves = Others(c, m) \cup {n}

\* Every async function is m or one of the others.
LEMMA UniqueOthers ==
    ASSUME NEW c, Typed(c), NEW m \in c.moves
    PROVE  \A k \in c.moves : k = m \/ k \in Others(c, m)
BY DEF Typed, Shaped, Others

\* A token, or its refusal, arrives: only the join of the current attempt hears of it.
LEMMA TokenCall ==
    ASSUME NEW c, Typed(c), Call(c), NEW m \in c.moves, m.pc = "token", NEW e \in {None, "failed"}
    PROVE  LET d == TokenArrives(c, m, e)
           IN  /\ Onward(c, d, m) /\ Call(d)
               /\ \/ d.phase = c.phase /\ d.reason = c.reason
                  \/ d.phase = "ready"
                  \/ d.phase = "error" /\ d.active = Main
<1> DEFINE d == TokenArrives(c, m, e)
           O == Others(c, m)
<1>1. Joiner(m) /\ m.to = Main /\ m \in Move BY UnderwayIs DEF Underway
<1>2. c \in Client BY DEF Typed
<1>3. \A k \in c.moves : k = m \/ k \in O BY UniqueOthers
<1>4. O \subseteq c.moves BY DEF Others
<1>5. CASE m.stale
  <2>1. d = Returned(c, m) BY <1>5 DEF TokenArrives
  <2>2. PICK n \in Move : SameMove(m, n) /\ n.pc = "returned" /\ d.moves = O \cup {n}
    BY <1>1, <2>1, ReturnedIs
  <2>3. SeatKept(c, d) /\ Typed(d) /\ CallSame(c, d) /\ d.odd = c.odd BY <1>1, <2>1, ReturnedIs
  <2> HIDE DEF d, O
  <2>4. Onward(c, d, m) BY <2>2, <2>3 DEF Onward, O, CallSame
  <2>5. Idle(d) BY <1>4, <2>2, <2>3 DEF Call, Idle, CallSame, Begun
  <2>6. ASSUME Calm(c) PROVE Calm(d)
    <3>1. OneHolds(d) BY <1>4, <2>2, <2>3, <2>6 DEF Calm, OneHolds, CallSame, Holding
    <3>2. Tracked(d) BY <1>3, <2>2, <2>3, <2>6 DEF Calm, Tracked, CallSame, Dropping, O, Others
    <3>3. Paced(d) BY <1>3, <1>4, <2>2, <2>3, <2>6 DEF Calm, Paced, CallSame, Holding
    <3> QED BY <3>1, <3>2, <3>3 DEF Calm
  <2>7. Call(d) BY <2>3, <2>5, <2>6 DEF Call
  <2> QED BY <2>3, <2>4, <2>7 DEF d, CallSame
<1>6. CASE ~m.stale /\ e = None
  <2>1. d = Granted(c, m) BY <1>6 DEF TokenArrives
  <2> DEFINE g == [c EXCEPT !.phase = "ready", !.heard = TRUE]
             gn == [g EXCEPT !.reason = None]
             n1 == [m EXCEPT !.pc = "connecting", !.drop = None]
             n2 == [m EXCEPT !.pc = "clearing", !.drop = c.room]
  <2>2. d = IF c.room = None THEN Put(gn, n1) ELSE Put(g, n2)
    BY <1>2, <2>1 DEF Granted, ConnectToRoom, Client
  <2>3. g \in Client /\ gn \in Client
    <3>1. g \in Client BY <1>2 DEF Client, Phases
    <3> HIDE DEF g
    <3>2. gn \in Client BY <3>1 DEF Client, Reasons
    <3> QED BY <3>1, <3>2
  <2>4. \A x \in {g, gn} : /\ SeatSame(c, x) /\ x.active = c.active /\ x.phase = "ready" /\ x.heard
                           /\ x.odd = c.odd /\ x.room = c.room /\ x.up = c.up /\ x.moves = c.moves
    <3>1. /\ SeatSame(c, g) /\ g.active = c.active /\ g.phase = "ready" /\ g.heard
          /\ g.odd = c.odd /\ g.room = c.room /\ g.up = c.up /\ g.moves = c.moves
      BY <1>2 DEF Client, SeatSame
    <3>2. /\ SeatSame(c, gn) /\ gn.active = c.active /\ gn.phase = "ready" /\ gn.heard
          /\ gn.odd = c.odd /\ gn.room = c.room /\ gn.up = c.up /\ gn.moves = c.moves
      BY <1>2 DEF Client, SeatSame
    <3> HIDE DEF g, gn
    <3> QED BY <3>1, <3>2
  <2>5. \A n \in {n1, n2} : n \in Move /\ SameMove(m, n) /\ n.stale = m.stale
    <3>1. c.room \in Room \cup {None} BY <1>2 DEF Client
    <3>2. n1 \in Move /\ SameMove(m, n1) /\ n1.stale = m.stale BY <1>1 DEF Move, SameMove, JoinPcs
    <3>3. n2 \in Move /\ SameMove(m, n2) /\ n2.stale = m.stale BY <1>1, <3>1 DEF Move, SameMove, JoinPcs
    <3> HIDE DEF n1, n2
    <3> QED BY <3>2, <3>3
  <2>6. n1.pc = "connecting" /\ n2.pc = "clearing" BY <1>1 DEF Move
  <2> HIDE DEF d, g, gn, n1, n2
  <2>7. Typed(g) /\ Typed(gn) BY <2>3, <2>4 DEF Typed
  <2>8. \A n \in {n1, n2} : Shape(n) BY <1>1, <2>5, <2>6 DEF Shape, SameMove, Joiner
  <2>9. \A x \in {g, gn}, n \in {n1, n2} : Others(x, n) = O BY <2>4, <2>5 DEF Others, SameMove
  <2>10. \E n \in {n1, n2} :
           /\ d.moves = O \cup {n}
           /\ SeatKept(c, d) /\ Typed(d) /\ d.active = c.active /\ d.phase = "ready" /\ d.heard
           /\ d.odd = c.odd /\ d.room = c.room /\ d.up = c.up
           /\ c.room = None => n = n1
    <3>1. CASE c.room = None
      <4>1. SeatKept(gn, d) /\ Typed(d) /\ CallSame(gn, d) /\ d.odd = gn.odd /\ d.moves = Others(gn, n1) \cup {n1}
        BY <2>2, <2>5, <2>7, <2>8, <3>1, PutIs
      <4> QED BY <2>4, <2>9, <4>1 DEF SeatKept, SeatSame, CallSame
    <3>2. CASE c.room # None
      <4>1. SeatKept(g, d) /\ Typed(d) /\ CallSame(g, d) /\ d.odd = g.odd /\ d.moves = Others(g, n2) \cup {n2}
        BY <2>2, <2>5, <2>7, <2>8, <3>2, PutIs
      <4> QED BY <2>4, <2>9, <3>2, <4>1 DEF SeatKept, SeatSame, CallSame
    <3> QED BY <3>1, <3>2
  <2>11. PICK n \in {n1, n2} :
           /\ d.moves = O \cup {n}
           /\ SeatKept(c, d) /\ Typed(d) /\ d.active = c.active /\ d.phase = "ready" /\ d.heard
           /\ d.odd = c.odd /\ d.room = c.room /\ d.up = c.up
           /\ c.room = None => n = n1
    BY <2>10
  <2>12. n \in Move /\ SameMove(m, n) /\ ~n.stale /\ n.pc \in {"connecting", "clearing"}
    BY <1>6, <2>5, <2>6
  <2> HIDE DEF O
  <2>13. c.phase = "requesting" /\ c.active = m.to /\ c.active # None
    BY <1>1, <1>6, BreakoutAssumption DEF Call, Idle, Begun, Channels
  <2>14. \A k \in c.moves : k.pc # "leaving" BY <2>13 DEF Call, Idle
  <2>15. \A k \in O : k.pc \in Begun => k.stale
    BY <1>4, <1>6 DEF Call, Idle, Begun, O, Others
  <2>16. Idle(d)
    <3>1. \A k \in d.moves : k.pc \in Begun /\ ~k.stale => k = n BY <2>11, <2>15
    <3>2. \A k \in d.moves : k.pc # "leaving" BY <1>4, <2>11, <2>12, <2>14
    <3>3. n.to = m.to BY <2>12 DEF SameMove
    <3> QED BY <2>11, <2>12, <2>13, <3>1, <3>2, <3>3 DEF Idle, Begun, Call
  <2>17. ASSUME Calm(c) PROVE Calm(d)
    <3>1. c.room = None /\ \A k \in O : k.pc \notin Holding
      BY <1>4, <2>13, <2>17 DEF Calm, Paced
    <3>2. c.up = {} BY <1>2, <2>17, <3>1, NoneConnected DEF Calm, Tracked
    <3>3. n.pc = "connecting" BY <2>6, <2>11, <3>1
    <3>4. \A k \in d.moves : k = n \/ (k.pc \notin Holding /\ k.pc # "leaving" /\ k.pc \notin Dropping)
      BY <1>4, <2>11, <2>14, <3>1 DEF Holding, Dropping
    <3>5. OneHolds(d) BY <2>11, <2>12, <3>3, <3>4 DEF OneHolds, Holding
    <3>6. Tracked(d) BY <2>11, <2>13, <3>1, <3>2, <3>3, <3>4 DEF Tracked, Dropping
    <3>7. Paced(d) BY <2>11, <3>1, <3>3, <3>4 DEF Paced, Holding
    <3> QED BY <3>5, <3>6, <3>7 DEF Calm
  <2>18. Call(d) BY <2>11, <2>16, <2>17 DEF Call
  <2>19. Onward(c, d, m) BY <2>11, <2>12 DEF Onward, O
  <2> QED BY <2>11, <2>18, <2>19 DEF d
<1>7. CASE ~m.stale /\ e # None
  <2> DEFINE x == [c EXCEPT !.phase = "error", !.error = e]
  <2>1. d = Returned(x, m) BY <1>7 DEF TokenArrives
  <2>2. x \in Client BY <1>2, <1>7 DEF Client, Phases
  <2>3. /\ SeatSame(c, x) /\ x.active = c.active /\ x.phase = "error" /\ x.heard = c.heard
        /\ x.odd = c.odd /\ x.room = c.room /\ x.up = c.up /\ x.moves = c.moves
    BY <1>2 DEF Client, SeatSame
  <2> HIDE DEF x
  <2>4. Typed(x) /\ Others(x, m) = O BY <2>2, <2>3 DEF Typed, Others
  <2>5. PICK n \in Move : SameMove(m, n) /\ n.pc = "returned" /\ d.moves = O \cup {n}
    BY <1>1, <2>1, <2>4, ReturnedIs
  <2>6. SeatKept(x, d) /\ Typed(d) /\ CallSame(x, d) /\ d.odd = x.odd BY <1>1, <2>1, <2>4, ReturnedIs
  <2> HIDE DEF d, O
  <2>7. /\ SeatKept(c, d) /\ d.active = c.active /\ d.phase = "error" /\ d.heard = c.heard
        /\ d.odd = c.odd /\ d.room = c.room /\ d.up = c.up
    BY <2>3, <2>6 DEF SeatKept, SeatSame, CallSame
  <2>8. c.phase = "requesting" /\ c.active = m.to /\ c.active # None
    BY <1>1, <1>7, BreakoutAssumption DEF Call, Idle, Begun, Channels
  <2>9. \A k \in c.moves : k.pc # "leaving" BY <2>8 DEF Call, Idle
  <2>10. \A k \in d.moves : (k.pc \in Begun => k.stale) /\ k.pc # "leaving"
    BY <1>4, <1>7, <2>5, <2>9 DEF Call, Idle, Begun, O, Others
  <2>11. Idle(d) BY <2>7, <2>8, <2>10 DEF Idle, Begun, Call
  <2>12. ASSUME Calm(c) PROVE Calm(d)
    <3>1. d.room = None /\ \A k \in d.moves : k.pc \notin Holding
      BY <1>4, <2>5, <2>7, <2>8, <2>12 DEF Calm, Paced, Holding
    <3>2. d.up = {} BY <1>2, <2>7, <2>12, <3>1, NoneConnected DEF Calm, Tracked
    <3>3. \A k \in d.moves : k.pc \notin Dropping BY <2>10, <3>1 DEF Dropping, Holding
    <3>4. OneHolds(d) BY <3>1 DEF OneHolds, Holding
    <3>5. Tracked(d) BY <3>1, <3>2, <3>3 DEF Tracked
    <3>6. Paced(d) BY <2>7, <3>1 DEF Paced, Holding
    <3> QED BY <3>4, <3>5, <3>6 DEF Calm
  <2>13. Call(d) BY <2>7, <2>11, <2>12 DEF Call
  <2>14. Onward(c, d, m) BY <2>5, <2>6, <2>7 DEF Onward, O
  <2>15. d.phase = "error" /\ d.active = Main BY <1>1, <2>7, <2>8
  <2> QED BY <2>13, <2>14, <2>15 DEF d
<1> QED BY <1>5, <1>6, <1>7

\* A Room is connected: tracked from now on, and the only one.
LEMMA ConnectedCall ==
    ASSUME NEW c, Typed(c), Call(c), NEW m \in c.moves, m.pc = "connecting"
    PROVE  LET d == Connected(c, m)
           IN  Onward(c, d, m) /\ Call(d) /\ d.phase = c.phase /\ d.reason = c.reason
<1> DEFINE R == FreshRoom(c, m.to)
           x == [c EXCEPT !.up = c.up \cup {R}, !.room = R]
           n == [m EXCEPT !.pc = "media"]
           d == Connected(c, m)
           O == Others(c, m)
<1>1. Joiner(m) /\ m \in Move /\ m.to \in Channels /\ m.to # None BY UnderwayIs, JoinsAChannel DEF Underway
<1>2. c \in Client BY DEF Typed
<1>3. R \in Room /\ R.at = m.to BY <1>1, FreshIdIsFresh DEF FreshRoom, Room, RoomIds, Typed
<1>4. R # None BY <1>3, BreakoutAssumption
<1>5. d = Put(x, n) BY <1>2 DEF Connected, Client
<1> HIDE DEF R
<1>6. x \in Client BY <1>2, <1>3 DEF Client
<1>7. /\ SeatSame(c, x) /\ x.active = c.active /\ x.phase = c.phase /\ x.heard = c.heard
      /\ x.reason = c.reason
      /\ x.odd = c.odd /\ x.room = R /\ x.up = c.up \cup {R} /\ x.moves = c.moves
  BY <1>2 DEF Client, SeatSame
<1>8. n \in Move /\ SameMove(m, n) /\ n.stale = m.stale /\ n.pc = "media"
  BY <1>1 DEF Move, SameMove, JoinPcs
<1> HIDE DEF x, n
<1>9. IsFiniteSet(x.up) BY <1>7, FS_AddElement DEF Typed
<1>10. Typed(x) /\ Shape(n) /\ Others(x, n) = O
  BY <1>1, <1>6, <1>7, <1>8, <1>9 DEF Typed, Shape, SameMove, Joiner, Others
<1>11. SeatKept(x, d) /\ Typed(d) /\ CallSame(x, d) /\ d.odd = x.odd /\ d.moves = O \cup {n}
  BY <1>5, <1>8, <1>10, PutIs
<1>12. \A k \in c.moves : k = m \/ k \in O BY UniqueOthers
<1>13. O \subseteq c.moves /\ m \notin O BY DEF Others
<1> HIDE DEF d, O
<1>14. /\ SeatKept(c, d) /\ d.active = c.active /\ d.phase = c.phase /\ d.heard = c.heard
       /\ d.odd = c.odd /\ d.room = R /\ d.up = c.up \cup {R} /\ d.reason = c.reason
  BY <1>7, <1>11 DEF SeatKept, SeatSame, CallSame
<1>15. Idle(d)
  <2>1. n.to = m.to BY <1>8 DEF SameMove
  <2> QED BY <1>8, <1>11, <1>13, <1>14, <2>1 DEF Call, Idle, Begun
<1>16. ASSUME Calm(c) PROVE Calm(d)
  <2>1. c.room = None BY <1>16 DEF Calm, Paced
  <2>2. d.up = {R} BY <1>2, <1>14, <1>16, <2>1, NoneConnected DEF Calm, Tracked
  <2>3. \A k \in O : k.pc \notin Holding
    BY <1>13, <1>16 DEF Calm, OneHolds, Holding
  <2>4. \A k \in O : k.pc = "leaving" => k.drop = None BY <1>13, <1>16 DEF Calm, Paced
  <2>5. m.stale => c.active = None BY <1>16 DEF Calm, OneHolds, Holding
  <2>6. OneHolds(d) BY <1>8, <1>11, <1>14, <2>3, <2>5 DEF OneHolds, Holding
  <2>7. Tracked(d)
    BY <1>4, <1>8, <1>11, <1>14, <2>2, <2>3, <2>4 DEF Tracked, Dropping, Holding
  <2>8. ~m.stale => c.phase = "ready" /\ c.active = m.to
    BY <1>16 DEF Call, Idle, Calm, Paced, Begun
  <2>9. m.stale => c.phase = "idle" BY <2>5 DEF Call, Idle
  <2>10. c.phase = "ready" => c.heard BY <1>16 DEF Calm, Paced
  <2>11. Paced(d)
    BY <1>3, <1>4, <1>8, <1>11, <1>14, <2>3, <2>8, <2>9, <2>10 DEF Paced, Holding
  <2> QED BY <2>6, <2>7, <2>11 DEF Calm
<1>17. Call(d) BY <1>14, <1>15, <1>16 DEF Call
<1>18. Onward(c, d, m) BY <1>8, <1>11, <1>14 DEF Onward, O
<1> QED BY <1>14, <1>17, <1>18 DEF d

\* A connect fails: an error of the current attempt, nothing for a stale one.
LEMMA ConnectFailsCall ==
    ASSUME NEW c, Typed(c), Call(c), NEW m \in c.moves, m.pc = "connecting"
    PROVE  LET d == ConnectFails(c, m)
           IN  /\ Onward(c, d, m) /\ Call(d)
               /\ \E n \in d.moves : n.pc = "returned" /\ SameMove(m, n)
               /\ \/ d.phase = c.phase /\ d.reason = c.reason
                  \/ d.phase = "error" /\ d.active = m.to
<1> DEFINE e == IF m.stale THEN c.error ELSE "failed"
           p == IF m.stale THEN c.phase ELSE "error"
           x == [c EXCEPT !.phase = p, !.error = e]
           d == ConnectFails(c, m)
           O == Others(c, m)
<1>1. Joiner(m) /\ m \in Move /\ m.to \in Channels /\ m.to # None BY UnderwayIs, JoinsAChannel DEF Underway
<1>2. c \in Client BY DEF Typed
<1>3. p \in Phases /\ e \in {None, "gone", "failed"} BY <1>2 DEF Client, Phases
<1>4. d = Returned(x, m) BY <1>2 DEF ConnectFails, Client
<1> HIDE DEF p, e
<1>5. x \in Client BY <1>2, <1>3 DEF Client
<1>6. /\ SeatSame(c, x) /\ x.active = c.active /\ x.phase = p /\ x.heard = c.heard /\ x.reason = c.reason
      /\ x.odd = c.odd /\ x.room = c.room /\ x.up = c.up /\ x.moves = c.moves
  BY <1>2 DEF Client, SeatSame
<1> HIDE DEF x
<1>7. Typed(x) /\ Others(x, m) = O BY <1>5, <1>6 DEF Typed, Others
<1>8. PICK n \in Move : SameMove(m, n) /\ n.pc = "returned" /\ d.moves = O \cup {n}
  BY <1>1, <1>4, <1>7, ReturnedIs
<1>9. SeatKept(x, d) /\ Typed(d) /\ CallSame(x, d) /\ d.odd = x.odd BY <1>1, <1>4, <1>7, ReturnedIs
<1>10. \A k \in c.moves : k = m \/ k \in O BY UniqueOthers
<1>11. O \subseteq c.moves /\ m \notin O BY DEF Others
<1> HIDE DEF d, O
<1>12. /\ SeatKept(c, d) /\ d.active = c.active /\ d.phase = p /\ d.heard = c.heard /\ d.reason = c.reason
       /\ d.odd = c.odd /\ d.room = c.room /\ d.up = c.up
  BY <1>6, <1>9 DEF SeatKept, SeatSame, CallSame
<1>13. ~m.stale => c.active = m.to /\ c.active # None /\ c.phase # "idle"
  BY <1>1 DEF Call, Idle, Begun
<1>14. Idle(d)
  <2>1. ~m.stale => \A k \in O : k.pc \in Begun => k.stale BY <1>11 DEF Call, Idle, Begun
  <2>2. d.active = None <=> d.phase = "idle" BY <1>12, <1>13 DEF Call, Idle, p
  <2>3. \A k \in d.moves : k.pc = "token" /\ ~k.stale => d.phase = "requesting" /\ ~d.heard
    BY <1>8, <1>11, <1>12, <2>1 DEF Call, Idle, p, Begun
  <2> QED BY <1>8, <1>11, <1>12, <2>2, <2>3 DEF Call, Idle, Begun
<1>15. ASSUME Calm(c) PROVE Calm(d)
  <2>1. c.room = None BY <1>15 DEF Calm, Paced
  <2>2. d.up = {} BY <1>2, <1>12, <1>15, <2>1, NoneConnected DEF Calm, Tracked
  <2>3. \A k \in d.moves : k.pc \notin Holding
    BY <1>8, <1>11, <1>15 DEF Calm, OneHolds, Holding
  <2>4. m.stale => c.phase = "idle" BY <1>15 DEF Calm, OneHolds, Holding, Call, Idle
  <2>5. d.phase \in {"idle", "error"} BY <1>12, <2>4 DEF p
  <2>6. OneHolds(d) BY <2>3 DEF OneHolds, Holding
  <2>7. Tracked(d) BY <1>12, <2>1, <2>2 DEF Tracked
  <2>8. Paced(d) BY <1>12, <2>1, <2>3, <2>5 DEF Paced, Holding
  <2> QED BY <2>6, <2>7, <2>8 DEF Calm
<1>16. Call(d) BY <1>12, <1>14, <1>15 DEF Call
<1>17. Onward(c, d, m) BY <1>8, <1>9, <1>12 DEF Onward, O
<1>18. \/ d.phase = c.phase /\ d.reason = c.reason
       \/ d.phase = "error" /\ d.active = m.to
  BY <1>12, <1>13 DEF p
<1>19. \E k \in d.moves : k.pc = "returned" /\ SameMove(m, k) BY <1>8
<1> QED BY <1>16, <1>17, <1>18, <1>19 DEF d

\* The devices are ready: a stale join goes on to tear down the tracked Room.
LEMMA MediaCall ==
    ASSUME NEW c, Typed(c), Call(c), NEW m \in c.moves, m.pc = "media"
    PROVE  LET d == MediaReady(c, m)
           IN  Onward(c, d, m) /\ Call(d) /\ d.phase = c.phase /\ d.reason = c.reason
<1> DEFINE d == MediaReady(c, m)
           O == Others(c, m)
           t == [m EXCEPT !.pc = "tearing", !.drop = c.room]
<1>1. Joiner(m) /\ m \in Move /\ m.to # None BY UnderwayIs, JoinsAChannel DEF Underway
<1>2. c \in Client BY DEF Typed
<1>3. PICK n \in Move : /\ SameMove(m, n) /\ d.moves = O \cup {n}
                        /\ SeatKept(c, d) /\ Typed(d) /\ CallSame(c, d) /\ d.odd = c.odd
                        /\ \/ n.pc = "tearing" /\ n.drop = c.room /\ c.room # None /\ m.stale /\ n.stale
                           \/ n.pc = "returned" /\ (c.room = None \/ ~m.stale)
  <2>1. CASE m.stale /\ c.room # None
    <3>1. d = Put(c, t) BY <2>1 DEF MediaReady
    <3>2. c.room \in Room \cup {None} BY <1>2 DEF Client
    <3>3. t \in Move /\ SameMove(m, t) /\ t.stale = m.stale /\ t.pc = "tearing" /\ t.drop = c.room
      BY <1>1, <3>2 DEF Move, SameMove, JoinPcs
    <3> HIDE DEF t
    <3>4. Shape(t) /\ Others(c, t) = O BY <1>1, <3>3 DEF Shape, SameMove, Joiner, Others
    <3>5. SeatKept(c, d) /\ Typed(d) /\ CallSame(c, d) /\ d.odd = c.odd /\ d.moves = O \cup {t}
      BY <3>1, <3>3, <3>4, PutIs
    <3> HIDE DEF d, O
    <3> QED BY <2>1, <3>3, <3>5
  <2>2. CASE ~(m.stale /\ c.room # None)
    <3>1. d = Returned(c, m) BY <2>2 DEF MediaReady
    <3>2. /\ SeatKept(c, d) /\ Typed(d) /\ CallSame(c, d) /\ d.odd = c.odd
          /\ \E n \in Move : SameMove(m, n) /\ n.pc = "returned" /\ d.moves = O \cup {n}
      BY <1>1, <3>1, ReturnedIs
    <3> HIDE DEF d, O
    <3> QED BY <2>2, <3>2
  <2> QED BY <2>1, <2>2
<1>4. \A k \in c.moves : k = m \/ k \in O BY UniqueOthers
<1>5. O \subseteq c.moves /\ m \notin O BY DEF Others
<1> HIDE DEF d, O
<1>6. Idle(d)
  <2>1. \A k \in d.moves : k.pc = "leaving" \/ k.pc \in Begun => k \in c.moves BY <1>3, <1>5 DEF Begun
  <2> QED BY <1>3, <2>1 DEF Call, Idle, CallSame, Begun
<1>7. ASSUME Calm(c) PROVE Calm(d)
  <2>1. \A k \in O : k.pc \notin Holding BY <1>5, <1>7 DEF Calm, OneHolds, Holding
  <2>2. m.stale => c.active = None /\ c.phase = "idle"
    BY <1>7 DEF Calm, OneHolds, Holding, Call, Idle
  <2>3. ~m.stale => c.active # None BY <1>1 DEF Call, Idle, Begun
  <2>4. OneHolds(d) BY <1>3, <2>1, <2>2 DEF OneHolds, Holding, CallSame
  <2>5. Tracked(d)
    <3>1. d.up \subseteq {d.room} BY <1>3, <1>7 DEF Calm, Tracked, CallSame
    <3>2. (d.room # None /\ d.up = {}) => \E k \in d.moves : k.pc \in Dropping /\ k.drop = d.room
      BY <1>3, <1>4, <1>7 DEF Calm, Tracked, CallSame, Dropping
    <3>3. \A k \in d.moves : k.pc \in Dropping /\ k.drop # None => d.room \in {None, k.drop}
      BY <1>3, <1>5, <1>7 DEF Calm, Tracked, CallSame, Dropping
    <3>4. (d.active = None /\ d.room # None) =>
            \E k \in d.moves : (k.pc = "leaving" /\ k.drop = d.room) \/ k.pc \in {"media", "tearing"}
      BY <1>3, <2>3 DEF CallSame
    <3> QED BY <3>1, <3>2, <3>3, <3>4 DEF Tracked
  <2>6. \A k \in d.moves : k.pc \in Holding => k.pc = "tearing" BY <1>3, <2>1 DEF Holding
  <2>7. ~m.stale => \/ c.phase = "ready" /\ c.room # None
                    \/ c.phase = "ended"
    BY <1>7 DEF Calm, Paced
  <2>8. /\ c.phase = "requesting" => m.pc \notin Holding
        /\ c.phase \in {"error", "ended", "requesting"} => c.room = None
        /\ c.phase = "ready" => c.heard
        /\ (c.phase = "ready" /\ c.room # None) => c.room.at = c.active
    BY <1>7 DEF Calm, Paced
  <2>9. Paced(d) BY <1>3, <2>2, <2>6, <2>7, <2>8 DEF Paced, Holding, CallSame
  <2> QED BY <2>4, <2>5, <2>9 DEF Calm
<1>8. Call(d) BY <1>3, <1>6, <1>7 DEF Call
<1>9. Onward(c, d, m) BY <1>3 DEF Onward, O, CallSame
<1> QED BY <1>3, <1>8, <1>9 DEF d, CallSame

\* A Room ends under the call: "ended" if anyone listens, and nothing is tracked.
LEMMA RoomEndsCall ==
    ASSUME NEW c, Typed(c), Call(c), NEW R \in c.up, NEW why \in Reasons
    PROVE  LET d == RoomEnds(c, R, why)
           IN  /\ SeatKept(c, d) /\ Typed(d) /\ Call(d)
               /\ d.active = c.active /\ d.moves = c.moves /\ d.odd = c.odd /\ d.reason = why
               /\ Calm(c) => \/ d.phase = "idle"
                             \/ d.phase = "ended" /\ d.active = R.at /\ d.room = None /\ c.room = R
<1> DEFINE U == c.room = R /\ ~\E m \in c.moves : m.pc \in Dropping /\ m.drop # None
           r == IF U THEN None ELSE c.room
           p == IF U /\ c.heard THEN "ended" ELSE c.phase
           x == [c EXCEPT !.up = c.up \ {R}, !.reason = why, !.room = r, !.phase = p]
           d == RoomEnds(c, R, why)
<1>1. c \in Client BY DEF Typed
<1>2. d = x
  <2>1. CASE U BY <1>1, <2>1 DEF RoomEnds, Client
  <2>2. CASE ~U BY <1>1, <2>2 DEF RoomEnds, Client
  <2> QED BY <2>1, <2>2
<1>3. R \in Room /\ R # None BY <1>1, BreakoutAssumption DEF Client
<1>4. r \in Room \cup {None} /\ p \in Phases BY <1>1 DEF Client, Phases
<1>5. U => c.room = R OBVIOUS
<1>6. ~U => c.room # R \/ \E m \in c.moves : m.pc \in Dropping /\ m.drop # None OBVIOUS
<1>7. U => \A m \in c.moves : m.pc \in Dropping => m.drop = None OBVIOUS
<1> HIDE DEF U
<1>8. r = (IF U THEN None ELSE c.room) /\ p = (IF U /\ c.heard THEN "ended" ELSE c.phase) OBVIOUS
<1> HIDE DEF r, p
<1>9. x \in Client BY <1>1, <1>4 DEF Client
<1>10. /\ SeatSame(c, x) /\ x.active = c.active /\ x.phase = p /\ x.heard = c.heard /\ x.reason = why
       /\ x.odd = c.odd /\ x.room = r /\ x.up = c.up \ {R} /\ x.moves = c.moves
  BY <1>1 DEF Client, SeatSame
<1> HIDE DEF x, d
<1>11. Typed(x) BY <1>9, <1>10, FS_Subset DEF Typed
<1>12. Idle(x)
  <2>1. c.active = None <=> c.phase = "idle" BY DEF Call, Idle
  <2>2. c.heard => c.active # None BY DEF Call, Idle
  <2>3. x.active = None <=> x.phase = "idle" BY <1>8, <1>10, <2>1, <2>2
  <2>4. \A m \in c.moves : m.pc = "token" /\ ~m.stale => p = "requesting" /\ ~x.heard
    BY <1>8, <1>10 DEF Call, Idle
  <2> QED BY <1>10, <2>3, <2>4 DEF Call, Idle
<1>13. ASSUME Calm(c)
       PROVE  /\ Calm(x)
              /\ \/ x.phase = "idle"
                 \/ x.phase = "ended" /\ x.active = R.at /\ x.room = None /\ c.room = R
  <2>1. c.room = R /\ x.up = {} BY <1>10, <1>13 DEF Calm, Tracked
  <2>2. c.phase \notin {"error", "ended", "requesting"} BY <1>3, <1>13, <2>1 DEF Calm, Paced
  <2>3. c.phase = "ready" => c.heard /\ c.room.at = c.active /\ c.active # None
    BY <1>3, <1>13, <2>1 DEF Calm, Paced, Call, Idle
  <2>4. c.phase = "ready" => U
    <3>1. ASSUME c.phase = "ready", NEW m \in c.moves, m.pc \in Dropping PROVE FALSE
      BY <1>13, <2>3, <3>1 DEF Calm, OneHolds, Holding, Dropping, Call, Idle
    <3> QED BY <1>6, <2>1, <3>1
  <2>5. c.phase = "idle" => ~c.heard /\ c.active = None BY DEF Call, Idle
  <2>6. c.phase \in {"ready", "idle"} BY <1>1, <2>2 DEF Client, Phases
  <2>7. \/ x.phase = "idle" /\ c.phase = "idle" /\ c.active = None
        \/ x.phase = "ended" /\ x.active = R.at /\ x.room = None /\ c.active # None
    BY <1>8, <1>10, <2>1, <2>3, <2>4, <2>5, <2>6
  <2>8. OneHolds(x) BY <1>10, <1>13 DEF Calm, OneHolds
  <2>9. Tracked(x)
    <3>1. x.up \subseteq {x.room} BY <2>1
    <3>2. x.room # None => x.room = c.room /\ \E m \in c.moves : m.pc \in Dropping /\ m.drop # None
      BY <1>6, <1>8, <1>10, <2>1
    <3>3. \A m \in c.moves : m.pc \in Dropping /\ m.drop # None => c.room \in {None, m.drop}
      BY <1>13 DEF Calm, Tracked
    <3>4. x.room # None => \E m \in x.moves : m.pc \in Dropping /\ m.drop = x.room
      BY <1>3, <1>10, <2>1, <3>2, <3>3
    <3>5. \A m \in x.moves : m.pc \in Dropping /\ m.drop # None => x.room \in {None, m.drop}
      BY <1>10, <3>2, <3>3
    <3>6. (x.active = None /\ x.room # None) =>
            \E m \in x.moves : (m.pc = "leaving" /\ m.drop = x.room) \/ m.pc \in {"media", "tearing"}
      BY <1>10, <1>13, <3>2 DEF Calm, Tracked
    <3> QED BY <3>1, <3>4, <3>5, <3>6 DEF Tracked
  <2>10. Paced(x)
    <3>1. \A m \in x.moves : m.pc # "connecting" BY <1>3, <1>10, <1>13, <2>1 DEF Calm, Paced
    <3>2. \A m \in x.moves : m.pc = "media" /\ ~m.stale => c.phase \in {"ready", "ended"}
      BY <1>10, <1>13 DEF Calm, Paced
    <3>3. \A m \in x.moves : m.pc = "media" /\ ~m.stale => x.phase = "ended" BY <2>2, <2>7, <3>2
    <3>4. x.phase \in {"idle", "ended"} /\ (x.phase = "ended" => x.room = None) BY <2>7
    <3> QED BY <3>1, <3>3, <3>4 DEF Paced
  <2> QED BY <2>1, <2>7, <2>8, <2>9, <2>10 DEF Calm
<1>14. Call(x) BY <1>10, <1>12, <1>13 DEF Call
<1>15. SeatKept(c, x) BY <1>9, <1>10 DEF SeatKept
<1> QED BY <1>2, <1>10, <1>11, <1>13, <1>14, <1>15 DEF d

\* A disconnect is complete: its Room is gone, and so is what is tracked.
LEMMA DisconnectedIs ==
    ASSUME NEW c, Typed(c), NEW m \in c.moves, m.pc \in Dropping
    PROVE  \E x : /\ SeatKept(c, x) /\ Typed(x) /\ x.active = c.active /\ x.phase = c.phase /\ x.heard = c.heard
                  /\ x.odd = c.odd /\ x.moves = c.moves /\ x.up = c.up \ {m.drop}
                  /\ x.room = IF m.drop = None THEN c.room ELSE None
                  /\ Disconnected(c, m) =
                       IF m.pc = "clearing" THEN Put(x, [m EXCEPT !.pc = "connecting", !.drop = None])
                       ELSE IF m.pc = "leaving" /\ m.to # None THEN Begin(x, m) ELSE Returned(x, m)
<1> DEFINE r == IF m.drop = None THEN c.room ELSE None
           x == [c EXCEPT !.up = c.up \ {m.drop}, !.room = r, !.reason = None]
<1>1. c \in Client BY DEF Typed
<1>2. Disconnected(c, m) =
        IF m.pc = "clearing" THEN Put(x, [m EXCEPT !.pc = "connecting", !.drop = None])
        ELSE IF m.pc = "leaving" /\ m.to # None THEN Begin(x, m) ELSE Returned(x, m)
  BY <1>1 DEF Disconnected, Client, Dropping
<1>3. r \in Room \cup {None} BY <1>1 DEF Client
<1> HIDE DEF r
<1>4. x \in Client BY <1>1, <1>3 DEF Client, Reasons
<1>5. /\ SeatSame(c, x) /\ x.active = c.active /\ x.phase = c.phase /\ x.heard = c.heard
      /\ x.odd = c.odd /\ x.moves = c.moves /\ x.up = c.up \ {m.drop} /\ x.room = r
  BY <1>1 DEF Client, SeatSame
<1> HIDE DEF x
<1>6. Typed(x) BY <1>4, <1>5, FS_Subset DEF Typed
<1>7. SeatKept(c, x) BY <1>4, <1>5 DEF SeatKept
<1> QED BY <1>2, <1>5, <1>6, <1>7 DEF r

\* m, which has left one call, begins the next.
Restarts(c, d, m) ==
    /\ SeatKept(c, d) /\ Typed(d)
    /\ m.pc = "leaving" /\ m.to # None /\ d.active = m.to /\ d.phase \in {"requesting", "ready"}
    /\ c.odd \subseteq d.odd /\ d.odd \subseteq c.odd \cup {"overlap"}
    /\ \E n \in Move : SameMove(m, n) /\ n.pc # "leaving" /\ d.moves = Outdate(Others(c, m)) \cup {n}

\* What a disconnect leaves connected.
LEMMA LeftConnected ==
    ASSUME NEW c, Typed(c), Calm(c), NEW m \in c.moves, m.pc \in Dropping
    PROVE  /\ c.up \ {m.drop} \subseteq {IF m.drop = None THEN c.room ELSE None}
           /\ m.drop # None => c.up \ {m.drop} = {}
<1>1. c.up \subseteq {c.room} /\ c.up \subseteq Room BY DEF Calm, Tracked, Typed, Client
<1>2. m.drop # None => c.room \in {None, m.drop} BY DEF Calm, Tracked
<1>3. None \notin c.up BY <1>1, BreakoutAssumption
<1> QED BY <1>1, <1>2, <1>3

\* What was left is disconnected: the leave returns, or its join begins with no Room.
LEMMA DisconnectedCall ==
    ASSUME NEW c, Typed(c), Call(c), NEW m \in c.moves, m.pc \in Dropping
    PROVE  LET d == Disconnected(c, m)
           IN  /\ Call(d)
               /\ \/ Onward(c, d, m) /\ d.phase = c.phase /\ (Calm(c) => c.active = None)
                  \/ Restarts(c, d, m)
<1> DEFINE d == Disconnected(c, m)
           O == Others(c, m)
<1>1. PICK x :
        /\ SeatKept(c, x) /\ Typed(x) /\ x.active = c.active /\ x.phase = c.phase /\ x.heard = c.heard
        /\ x.odd = c.odd /\ x.moves = c.moves /\ x.up = c.up \ {m.drop}
        /\ x.room = IF m.drop = None THEN c.room ELSE None
        /\ d = IF m.pc = "clearing" THEN Put(x, [m EXCEPT !.pc = "connecting", !.drop = None])
               ELSE IF m.pc = "leaving" /\ m.to # None THEN Begin(x, m) ELSE Returned(x, m)
  BY DisconnectedIs
<1> HIDE DEF d
<1>2. /\ m \in Move /\ (Joiner(m) \/ Leaver(m)) /\ (m.pc # "leaving" => Joiner(m))
      /\ m.pc = "leaving" /\ m.to # None => Joiner(m)
  BY UnderwayIs DEF Underway, Dropping
<1>3. Others(x, m) = O BY <1>1 DEF Others
<1>4. \A k \in c.moves : k = m \/ k \in O BY UniqueOthers
<1>5. O \subseteq c.moves /\ m \notin O BY DEF Others
<1>6. Calm(c) => x.up \subseteq {x.room} /\ (m.drop # None => x.up = {}) BY <1>1, LeftConnected
<1>7. CASE m.pc = "clearing"
  <2> DEFINE n == [m EXCEPT !.pc = "connecting", !.drop = None]
  <2>1. n \in Move /\ SameMove(m, n) /\ n.stale = m.stale /\ n.pc = "connecting"
    BY <1>2 DEF Move, SameMove, JoinPcs
  <2>2. d = Put(x, n) BY <1>1, <1>7
  <2> HIDE DEF n
  <2>3. Shape(n) /\ Others(x, n) = O BY <1>2, <1>3, <1>7, <2>1 DEF Shape, SameMove, Joiner, Others
  <2>4. SeatKept(x, d) /\ Typed(d) /\ CallSame(x, d) /\ d.odd = x.odd /\ d.moves = O \cup {n}
    BY <1>1, <2>1, <2>2, <2>3, PutIs
  <2>5. ~Calm(c) BY <1>7 DEF Calm, OneHolds
  <2>6. Idle(d)
    <3>1. n.to = m.to BY <2>1 DEF SameMove
    <3> QED BY <1>1, <1>5, <1>7, <2>1, <2>4, <3>1 DEF Call, Idle, CallSame, Begun
  <2>7. Call(d) BY <1>1, <2>4, <2>5, <2>6 DEF Call
  <2>8. Onward(c, d, m) BY <1>1, <2>1, <2>4 DEF Onward, SeatKept, SeatSame, CallSame
  <2>9. d.phase = c.phase BY <1>1, <2>4 DEF CallSame
  <2> QED BY <2>5, <2>7, <2>8, <2>9 DEF d
<1>8. CASE m.pc = "leaving" /\ m.to # None
  <2>1. d = Begin(x, m) /\ Joiner(m) BY <1>1, <1>2, <1>8
  <2>2. c.active = None /\ x.active # m.to BY <1>1, <1>8 DEF Call, Idle
  <2>3. Begins(x, d, m) BY <1>1, <2>1, <2>2, BeginsIs
  <2>4. \A k \in O : k.pc # "leaving" BY <1>5, <1>8 DEF Call, Idle
  <2>5. ASSUME "overlap" \notin d.odd PROVE x.room = None /\ x.up = {}
    <3>1. ~Overtakes(x, m) /\ "overlap" \notin c.odd BY <1>1, <2>3, <2>5 DEF Begins
    <3>2. Calm(c) BY <3>1 DEF Call
    <3>3. \A k \in O : k.pc \notin Holding BY <1>1, <3>1 DEF Overtakes, Holding, Others
    <3>4. x.room = None
      <4>1. SUFFICES ASSUME m.drop = None, c.room # None PROVE FALSE BY <1>1
      <4>2. PICK k \in c.moves : (k.pc = "leaving" /\ k.drop = c.room) \/ k.pc \in {"media", "tearing"}
        BY <2>2, <3>2, <4>1 DEF Calm, Tracked
      <4> QED BY <1>4, <1>8, <2>4, <3>3, <4>1, <4>2 DEF Holding
    <3>5. x.up = {} BY <1>1, <1>6, <3>2, <3>4, NoneConnected DEF Typed
    <3> QED BY <3>4, <3>5
  <2>6. Call(d) BY <1>1, <1>3, <2>1, <2>3, <2>4, <2>5, BeginsCall, JoinsAChannel
  <2>7. Restarts(c, d, m)
    <3>1. PICK n \in Move :
           /\ SameMove(m, n) /\ d.moves = Outdate(O) \cup {n} /\ n.pc # "leaving"
           /\ d.phase \in {"ready", "requesting"}
      BY <1>3, <2>3 DEF Begins
    <3>2. SeatKept(c, d) /\ Typed(d) /\ d.active = m.to BY <1>1, <2>3 DEF Begins, SeatKept, SeatSame
    <3>3. c.odd \subseteq d.odd /\ d.odd \subseteq c.odd \cup {"overlap"} BY <1>1, <2>3 DEF Begins
    <3> QED BY <1>8, <3>1, <3>2, <3>3 DEF Restarts
  <2> QED BY <2>6, <2>7 DEF d
<1>9. CASE m.pc # "clearing" /\ ~(m.pc = "leaving" /\ m.to # None)
  <2>1. d = Returned(x, m) BY <1>1, <1>9
  <2>2. PICK n \in Move : SameMove(m, n) /\ n.pc = "returned" /\ d.moves = O \cup {n}
    BY <1>1, <1>2, <1>3, <2>1, ReturnedIs
  <2>3. SeatKept(x, d) /\ Typed(d) /\ CallSame(x, d) /\ d.odd = x.odd BY <1>1, <1>2, <2>1, ReturnedIs
  <2>4. m.pc \in {"leaving", "tearing"} BY <1>9 DEF Dropping
  <2>5. /\ SeatKept(c, d) /\ d.active = c.active /\ d.phase = c.phase /\ d.heard = c.heard
        /\ d.odd = c.odd /\ d.room = x.room /\ d.up = x.up
    BY <1>1, <2>3 DEF SeatKept, SeatSame, CallSame
  <2> HIDE DEF O
  <2>6. \A k \in d.moves : k.pc # "returned" => k \in c.moves /\ k \in O BY <1>5, <2>2
  <2>7. Idle(d) BY <2>5, <2>6 DEF Call, Idle, Begun
  <2>8. ASSUME Calm(c) PROVE Calm(d) /\ c.active = None
    <3>1. c.active = None /\ c.phase = "idle"
      BY <2>4, <2>8 DEF Calm, OneHolds, Call, Idle, Holding
    <3>2. OneHolds(d) BY <2>5, <2>6, <2>8 DEF Calm, OneHolds, Holding
    <3>3. Tracked(d)
      <4>1. d.room # None => m.drop = None /\ d.room = c.room /\ m.pc = "leaving" /\ d.up = c.up
        <5>1. d.room # None => m.drop = None /\ d.room = c.room BY <1>1, <2>5
        <5>2. m.drop = None => m.pc = "leaving" BY <2>4, <2>8 DEF Calm, OneHolds
        <5>3. None \notin c.up BY BreakoutAssumption DEF Typed, Client
        <5> QED BY <1>1, <2>5, <5>1, <5>2, <5>3
      <4>2. d.room # None => d.up = c.up BY <1>1, <2>5, <4>1
      <4>3. d.up \subseteq {d.room} BY <1>6, <2>5, <2>8
      <4>4. (d.room # None /\ d.up = {}) => \E k \in d.moves : k.pc \in Dropping /\ k.drop = d.room
        <5>1. SUFFICES ASSUME d.room # None, d.up = {}
                       PROVE  \E k \in d.moves : k.pc \in Dropping /\ k.drop = d.room
          OBVIOUS
        <5>2. PICK k \in c.moves : k.pc \in Dropping /\ k.drop = c.room
          BY <2>8, <4>1, <4>2, <5>1 DEF Calm, Tracked
        <5> QED BY <1>4, <2>2, <4>1, <5>1, <5>2
      <4>5. \A k \in d.moves : k.pc \in Dropping /\ k.drop # None => d.room \in {None, k.drop}
        BY <2>6, <2>8, <4>1 DEF Calm, Tracked, Dropping
      <4>6. (d.active = None /\ d.room # None) =>
              \E k \in d.moves : (k.pc = "leaving" /\ k.drop = d.room) \/ k.pc \in {"media", "tearing"}
        <5>1. SUFFICES ASSUME d.room # None
                       PROVE  \E k \in d.moves : (k.pc = "leaving" /\ k.drop = d.room) \/ k.pc \in {"media", "tearing"}
          OBVIOUS
        <5>2. PICK k \in c.moves : (k.pc = "leaving" /\ k.drop = c.room) \/ k.pc \in {"media", "tearing"}
          BY <2>8, <3>1, <4>1, <5>1 DEF Calm, Tracked
        <5> QED BY <1>4, <2>2, <4>1, <5>1, <5>2
      <4> QED BY <4>3, <4>4, <4>5, <4>6 DEF Tracked
    <3>4. Paced(d)
      <4>1. \A k \in d.moves : k.pc = "connecting" => d.room = None
        BY <1>1, <2>5, <2>6, <2>8 DEF Calm, Paced
      <4>2. \A k \in d.moves : k.pc \in {"connecting", "media"} => k.stale
        <5>1. \A k \in c.moves : k.pc \in {"connecting", "media"} => k.to # None
          BY UnderwayIs, JoinsAChannel DEF Underway
        <5> QED BY <2>6, <3>1, <5>1 DEF Call, Idle, Begun
      <4>3. \A k, q \in d.moves : k.pc = "connecting" /\ q.pc = "leaving" => q.drop = None
        BY <2>6, <2>8 DEF Calm, Paced
      <4> QED BY <2>5, <3>1, <4>1, <4>2, <4>3 DEF Paced
    <3> QED BY <3>1, <3>2, <3>3, <3>4 DEF Calm
  <2>9. Call(d) BY <2>5, <2>7, <2>8 DEF Call
  <2>10. Onward(c, d, m)
    <3>1. n.pc # "leaving" BY <2>2
    <3> QED BY <2>2, <2>3, <2>5, <3>1 DEF Onward, O
  <2> QED BY <2>5, <2>8, <2>9, <2>10 DEF d
<1> QED BY <1>7, <1>8, <1>9

----------------------------------------------------------------------------
(* The seat: pointer and session against the call. *)

\* The channel the seat belongs in.
Target(c) == IF c.current = None THEN Main ELSE c.current

Moored(c) ==
    /\ c.active \in {None, Target(c)}
    /\ \A m \in c.moves : m.pc = "leaving" => m.to \in {None, Target(c)}
    /\ c.current # None => c.session
    /\ \A m \in c.moves : m.kind = "enter" => c.session

Seat(c) ==
    /\ c.pending # None => c.session
    /\ c.odd \cap {"crossed", "unmoored"} = {} => Moored(c)

\* The seat is not on the screen of a room that failed or put it out.
Home(c) ==
    c.odd \cap {"crossed", "unmoored", "overlap"} = {} =>
        /\ c.phase = "error" => c.active = Main
        /\ c.phase = "ended" => c.active = Main \/ c.reason = "dropped"

Sound(c) == Typed(c) /\ Call(c) /\ Seat(c)

\* Nobody waits to go on; at most one does; at most one, and it came back to the main room.
Quiet(c) == \A m \in c.moves : m.pc # "returned"
OneReturned(c) == \A m, k \in c.moves : m.pc = "returned" /\ k.pc = "returned" => k = m
OneBack(c) == OneReturned(c) /\ \A m \in c.moves : m.pc = "returned" => m.kind # "enter"

\* Neither the call changes nor the pointer, and what is new has a session.
Plain(c, d) ==
    /\ d \in Client /\ Shaped(d.moves) /\ CallFrame(c, d)
    /\ d.current = c.current /\ (c.session => d.session)
    /\ d.pending # None => d.session
    /\ \A m \in d.moves : m.kind = "enter" => m \in c.moves \/ d.session \/ "unmoored" \in d.odd

\* A step that leaves call and pointer alone keeps seat and screen.
LEMMA PlainSound ==
    ASSUME NEW c, Sound(c), NEW d, Plain(c, d)
    PROVE  Sound(d) /\ (Home(c) => Home(d))
<1>1. Typed(d) BY DEF Plain, Typed, CallFrame, CallSame, Sound
<1>2. Call(d) BY CallFramed DEF Plain, Sound
<1>3. Seat(d)
  <2>1. Target(d) = Target(c) BY DEF Plain, Target
  <2> QED BY <2>1 DEF Sound, Seat, Moored, Plain, CallFrame, CallSame, Underway
<1>4. Home(c) => Home(d) BY DEF Home, Plain, CallFrame, CallSame
<1> QED BY <1>1, <1>2, <1>3, <1>4 DEF Sound

\* In the main room there is no way home to be missed.
LEMMA MainIsHome ==
    ASSUME NEW c, Sound(c), c.current = None
    PROVE  Home(c)
BY DEF Sound, Seat, Moored, Target, Home, Call, Idle

\* What a move of the call store keeps of the seat.
LEMMA OnwardSeat ==
    ASSUME NEW c, Seat(c), NEW m \in c.moves, NEW d, Onward(c, d, m)
    PROVE  Seat(d)
<1>1. PICK n \in Move : SameMove(m, n) /\ n.pc # "leaving" /\ d.moves = Others(c, m) \cup {n}
  BY DEF Onward
<1>2. /\ d.active = c.active /\ d.odd = c.odd /\ d.current = c.current /\ d.session = c.session
      /\ d.pending = c.pending
  BY DEF Onward, SeatKept, SeatSame
<1>3. Others(c, m) \subseteq c.moves /\ n.kind = m.kind BY <1>1 DEF Others, SameMove
<1>4. Moored(c) => Moored(d) BY <1>1, <1>2, <1>3 DEF Moored, Target
<1> QED BY <1>2, <1>4 DEF Seat

\* A newer attempt leaves kind, place and channel of every function.
LEMMA OutdateKinds ==
    ASSUME NEW c, Typed(c), NEW m
    PROVE  /\ \A k \in Outdate(Others(c, m)) : \E q \in c.moves : k.kind = q.kind /\ k.pc = q.pc /\ k.to = q.to
           /\ \A k, j \in Outdate(Others(c, m)) : k.id = j.id => k = j
<1>1. Others(c, m) \subseteq c.moves /\ Others(c, m) \in SUBSET Move BY DEF Others, Typed, Shaped
<1>2. \A k \in Outdate(Others(c, m)) : \E q \in Others(c, m) :
         SameMove(q, k) /\ k.pc = q.pc /\ k = Outdated(q)
  BY <1>1, OutdateIs
<1>3. \A k, j \in c.moves : k.id = j.id => k = j BY DEF Typed, Shaped
<1> QED BY <1>1, <1>2, <1>3 DEF SameMove

\* The join after a leave is of the channel the pointer names.
LEMMA RestartsSeat ==
    ASSUME NEW c, Typed(c), Seat(c), NEW m \in c.moves, NEW d, Restarts(c, d, m)
    PROVE  Seat(d) /\ Home(d)
<1>1. PICK n \in Move : SameMove(m, n) /\ n.pc # "leaving" /\ d.moves = Outdate(Others(c, m)) \cup {n}
  BY DEF Restarts
<1>2. /\ d.active = m.to /\ c.odd \subseteq d.odd /\ d.current = c.current /\ d.session = c.session
      /\ d.pending = c.pending /\ m.pc = "leaving" /\ m.to # None
  BY DEF Restarts, SeatKept, SeatSame
<1>3. n.kind = m.kind BY <1>1 DEF SameMove
<1>4. \A k \in Outdate(Others(c, m)) : \E q \in c.moves : k.kind = q.kind /\ k.pc = q.pc /\ k.to = q.to
  BY OutdateKinds
<1>5. Moored(c) => Moored(d) BY <1>1, <1>2, <1>3, <1>4 DEF Moored, Target
<1>6. Home(d) BY DEF Restarts, Home
<1> QED BY <1>2, <1>5, <1>6 DEF Seat

\* A seat whose call is left is nowhere, which is no wrong place.
LEMMA LeavesSeat ==
    ASSUME NEW c, Typed(c), Seat(c), NEW m, Leaver(m), NEW d, Leaves(c, d, m)
    PROVE  Seat(d) /\ Home(d)
<1>1. PICK n \in Move : SameMove(m, n) /\ n.pc = "leaving" /\ d.moves = Outdate(Others(c, m)) \cup {n}
  BY DEF Leaves
<1>2. /\ d.active = None /\ d.odd = c.odd /\ d.current = c.current /\ d.session = c.session
      /\ d.pending = c.pending
  BY DEF Leaves, SeatKept, SeatSame
<1>3. n.kind = "leave" /\ n.to = None BY <1>1 DEF SameMove, Leaver
<1>4. \A k \in Outdate(Others(c, m)) : \E q \in c.moves : k.kind = q.kind /\ k.pc = q.pc /\ k.to = q.to
  BY OutdateKinds
<1>5. Moored(c) => Moored(d) BY <1>1, <1>2, <1>3, <1>4 DEF Moored, Target
<1>6. Home(d) BY DEF Leaves, Home
<1> QED BY <1>2, <1>5, <1>6 DEF Seat

\* The call is switched to where the pointer is by now.
LEMMA SwitchSound ==
    ASSUME NEW c, Typed(c), Call(c), NEW m, Joiner(m), Fresh(c, m),
           c.pending # None => c.session,
           c.odd \cap {"crossed", "unmoored"} = {} =>
             /\ m.to = Target(c) /\ (c.current # None => c.session)
             /\ m.kind = "enter" => c.session
             /\ \A k \in c.moves : k.kind = "enter" => c.session
    PROVE  LET d == SwitchGroupCall(c, m)
           IN  /\ Sound(d) /\ (m.to = Main \/ Home(c) => Home(d))
               /\ Quiet(c) \/ (m \in c.moves /\ OneReturned(c) /\ m.pc = "returned") => OneReturned(d)
               /\ Quiet(c) /\ m.kind # "enter" => OneBack(d)
<1> DEFINE d == SwitchGroupCall(c, m)
<1>1. \/ c.active = None /\ d.odd = c.odd \cup {"crossed"} /\ Returns(c, d, m) /\ CallSame(c, d)
      \/ c.active # None /\ c.active = m.to /\ d.odd = c.odd /\ Returns(c, d, m) /\ CallSame(c, d)
      \/ c.active \notin {None, m.to} /\ Leaves(c, d, m)
      \/ c.active = m.to /\ c.active # None /\ ~Live(c) /\ Begins(c, d, m)
  BY SwitchIs
<1>2. Call(d) BY SwitchCall
<1> HIDE DEF d
<1>3. Typed(d) /\ SeatKept(c, d) BY <1>1 DEF Returns, Leaves, Begins
<1>4. d.current = c.current /\ d.session = c.session /\ d.pending = c.pending /\ c.odd \subseteq d.odd
  BY <1>1, <1>3 DEF SeatKept, SeatSame, Leaves, Begins
<1>5. \E n \in Move, M \in {Others(c, m), Outdate(Others(c, m))} :
         SameMove(m, n) /\ d.moves = M \cup {n} /\ (n.pc = "leaving" => c.active # None)
  BY <1>1 DEF Returns, Leaves, Begins
<1>6. PICK n \in Move, M \in {Others(c, m), Outdate(Others(c, m))} :
         SameMove(m, n) /\ d.moves = M \cup {n} /\ (n.pc = "leaving" => c.active # None)
  BY <1>5
<1>7. \A k \in M : /\ k.id # m.id
                   /\ \E q \in c.moves : k.kind = q.kind /\ k.pc = q.pc /\ k.to = q.to
                   /\ k.pc = "returned" => \E q \in c.moves : q.pc = "returned" /\ q.id = k.id
  <2>1. Others(c, m) \in SUBSET Move /\ \A k \in Others(c, m) : k.id # m.id /\ k \in c.moves
    BY DEF Others, Typed, Shaped
  <2>2. \A k \in Outdate(Others(c, m)) : \E q \in Others(c, m) : SameMove(q, k) /\ k.pc = q.pc
    BY <2>1, OutdateIs
  <2> QED BY <2>1, <2>2 DEF SameMove
<1>8. Seat(d)
  <2>1. ASSUME d.odd \cap {"crossed", "unmoored"} = {} PROVE Moored(d)
    <3>1. /\ m.to = Target(c) /\ (c.current # None => c.session)
          /\ m.kind = "enter" => c.session
          /\ \A k \in c.moves : k.kind = "enter" => c.session
      BY <1>4, <2>1
    <3>2. c.active # None BY <1>1, <2>1
    <3>3. \A k \in c.moves : k.pc # "leaving" BY <3>2 DEF Call, Idle
    <3>4. n.kind = m.kind /\ n.to = m.to BY <1>6 DEF SameMove
    <3>5. d.active \in {None, m.to} BY <1>1, <3>2 DEF CallSame, Leaves, Begins
    <3>6. Target(d) = Target(c) BY <1>4 DEF Target
    <3> QED BY <1>4, <1>6, <1>7, <3>1, <3>3, <3>4, <3>5, <3>6 DEF Moored
  <2> QED BY <1>4, <2>1 DEF Seat
<1>9. m.to = Main \/ Home(c) => Home(d)
  <2>1. CASE c.active = None /\ d.odd = c.odd \cup {"crossed"} BY <2>1 DEF Home
  <2>2. CASE c.active = m.to /\ CallSame(c, d) /\ d.odd = c.odd BY <2>2 DEF Home, CallSame
  <2>3. CASE Leaves(c, d, m) BY <2>3 DEF Leaves, Home
  <2>4. CASE Begins(c, d, m)
    <3>1. d.phase \in {"ready", "requesting"} BY <2>4 DEF Begins
    <3> QED BY <3>1 DEF Home
  <2> QED BY <1>1, <2>1, <2>2, <2>3, <2>4
<1>10. \A k \in d.moves : k = n \/ (k.id # m.id /\ k \in M) BY <1>6, <1>7
<1>11. Quiet(c) => \A k \in d.moves : k.pc = "returned" => k = n BY <1>7, <1>10 DEF Quiet
<1>12. m \in c.moves /\ OneReturned(c) /\ m.pc = "returned" => \A k \in d.moves : k.pc = "returned" => k = n
  BY <1>7, <1>10 DEF OneReturned
<1>13. Quiet(c) /\ m.kind # "enter" => OneBack(d)
  BY <1>6, <1>11 DEF OneBack, OneReturned, SameMove
<1> QED BY <1>2, <1>3, <1>8, <1>9, <1>11, <1>12, <1>13 DEF Sound, d, OneReturned

----------------------------------------------------------------------------
(* The functions of the store. *)

\* Only the seat's own notes change.
Noted(c, d) ==
    /\ d \in Client /\ CallSame(c, d) /\ d.moves = c.moves /\ c.odd \subseteq d.odd
    /\ d.current = c.current /\ (c.session => d.session)
    /\ d.pending # None => d.session

\* A note in the store is plain.
LEMMA NotedIsPlain ==
    ASSUME NEW c, Sound(c), NEW d, Noted(c, d)
    PROVE  Plain(c, d) /\ Sound(d) /\ (Home(c) => Home(d))
<1>1. Plain(c, d) BY DEF Noted, Plain, CallFrame, Sound, Typed
<1> QED BY <1>1, PlainSound

\* n is put in place of what is not under way.
LEMMA PutPlain ==
    ASSUME NEW c, Sound(c), NEW n \in Move, Shape(n), n.pc \notin Underway, Fresh(c, n),
           n.kind = "enter" => c.session \/ "unmoored" \in c.odd
    PROVE  LET d == Put(c, n)
           IN  /\ Plain(c, d) /\ Sound(d) /\ (Home(c) => Home(d))
               /\ d.moves = Others(c, n) \cup {n} /\ d.session = c.session
<1> DEFINE d == Put(c, n)
<1>1. SeatKept(c, d) /\ Typed(d) /\ CallSame(c, d) /\ d.odd = c.odd /\ d.moves = Others(c, n) \cup {n}
  BY PutIs DEF Sound
<1> HIDE DEF d
<1>2. CallFrame(c, d) BY <1>1 DEF CallFrame, Others, Fresh
<1>3. Plain(c, d) BY <1>1, <1>2 DEF Plain, SeatKept, SeatSame, Typed, Others, Sound, Seat
<1> QED BY <1>1, <1>3, PlainSound DEF d, SeatKept, SeatSame

\* clearSession: pointer and session go together, or the seat is unmoored.
LEMMA ClearSessionSound ==
    ASSUME NEW c, Sound(c)
    PROVE  LET d == ClearSession(c)
           IN  Sound(d) /\ (Home(c) => Home(d)) /\ d.moves = c.moves
<1> DEFINE O == IF (c.current # None /\ c.active # None) \/ \E m \in c.moves : m.kind = "enter"
                THEN c.odd \cup {"unmoored"} ELSE c.odd
           x == [c EXCEPT !.session = FALSE, !.current = None, !.gone = {},
                          !.roster = [r \in Rooms |-> "unknown"],
                          !.answered = FALSE, !.offered = None, !.pending = None, !.joinRequest = None,
                          !.asked = {}, !.grace = FALSE, !.deadlineHandled = FALSE, !.odd = O]
<1>1. c \in Client BY DEF Sound, Typed
<1>2. ClearSession(c) = x BY <1>1 DEF ClearSession, Client
<1>3. O \in SUBSET Oddities /\ c.odd \subseteq O
  BY <1>1 DEF Client, Oddities
<1>4. "unmoored" \notin O => (c.current = None \/ c.active = None) /\ \A m \in c.moves : m.kind # "enter"
  OBVIOUS
<1> HIDE DEF O
<1>5. x \in Client BY <1>1, <1>3 DEF Client
<1>6. /\ x.session = FALSE /\ x.current = None /\ x.pending = None /\ x.odd = O /\ x.moves = c.moves
      /\ CallSame(c, x)
  BY <1>1 DEF Client, CallSame
<1> HIDE DEF x
<1>7. Typed(x) BY <1>5, <1>6 DEF Sound, Typed, CallSame
<1>8. Call(x) BY <1>3, <1>6, CallFramed DEF Sound, CallFrame
<1>9. ASSUME x.odd \cap {"crossed", "unmoored"} = {} PROVE Moored(x)
  <2>1. Moored(c) /\ "unmoored" \notin O BY <1>3, <1>6, <1>9 DEF Sound, Seat
  <2>2. Target(x) = Main BY <1>6 DEF Target
  <2>3. x.active \in {None, Main} BY <1>4, <1>6, <2>1 DEF Moored, Target, CallSame
  <2>4. \A m \in x.moves : m.pc = "leaving" => m.to \in {None, Main}
    BY <1>4, <1>6, <2>1 DEF Sound, Typed, Shaped, Shape
  <2>5. \A m \in x.moves : m.kind # "enter" BY <1>4, <1>6, <2>1
  <2> QED BY <1>6, <2>2, <2>3, <2>4, <2>5 DEF Moored
<1>10. Seat(x) BY <1>6, <1>9 DEF Seat
<1>11. Home(c) => Home(x) BY <1>3, <1>6 DEF Home, CallSame
<1> QED BY <1>2, <1>6, <1>7, <1>8, <1>10, <1>11 DEF Sound

\* enterRoom up to the token: only an async function more, and the seat is
\* unmoored when there is no session.
LEMMA EnterRoomSound ==
    ASSUME NEW c, Sound(c), NEW r \in Rooms
    PROVE  LET d == EnterRoom(c, r)
           IN  Sound(d) /\ (Home(c) => Home(d)) /\ (Quiet(c) => Quiet(d))
<1> DEFINE L == IF c.grace /\ r \in c.gone \cup {c.current} THEN {"lulled"} ELSE {}
           U == IF c.active # None /\ ~c.session THEN {"unmoored"} ELSE {}
           O == c.odd \cup L \cup U
           x == [c EXCEPT !.grace = FALSE, !.odd = O]
           n == NewMove(x, "enter", r, r)
<1>1. c \in Client BY DEF Sound, Typed
<1>2. EnterRoom(c, r) = IF c.active = None THEN x ELSE Put(x, n)
  BY <1>1 DEF EnterRoom, Client, NewMove
<1>3. /\ O \in SUBSET Oddities /\ c.odd \subseteq O
      /\ c.active # None => c.session \/ "unmoored" \in O
  BY <1>1 DEF Client, Oddities
<1> HIDE DEF O, L, U
<1>4. x \in Client BY <1>1, <1>3 DEF Client
<1>5. /\ CallSame(c, x) /\ x.moves = c.moves /\ x.odd = O /\ x.current = c.current
      /\ x.session = c.session /\ x.pending = c.pending
  BY <1>1 DEF Client, CallSame
<1> HIDE DEF x
<1>6. Noted(c, x) BY <1>3, <1>4, <1>5 DEF Noted, Sound, Seat
<1>7. Sound(x) /\ (Home(c) => Home(x)) BY <1>6, NotedIsPlain
<1>8. r \in Rooms \cup {None} /\ r \in Channels \cup {None} BY DEF Channels
<1>9. /\ n \in Move /\ n.kind = "enter" /\ n.room = r /\ n.to = r /\ n.pc = "asking"
      /\ n.token /\ \A k \in x.moves : k.id # n.id
  <2>1. Typed(x) /\ "enter" \in {"enter", "return", "leave", "request"} BY <1>7 DEF Sound
  <2>2. n \in Move BY <1>8, <2>1, NewMoveIs
  <2>3. n.kind = "enter" /\ n.room = r /\ n.to = r /\ n.pc = "asking" /\ n.token BY DEF NewMove
  <2>4. \A k \in x.moves : k.id # n.id BY <2>1, NewMoveIsFresh
  <2> QED BY <2>2, <2>3, <2>4
<1> HIDE DEF n
<1>10. Shape(n) /\ n.pc \notin Underway /\ Fresh(x, n) BY <1>9 DEF Shape, Underway, Fresh
<1>11. c.active # None =>
         LET d == Put(x, n) IN Sound(d) /\ (Home(x) => Home(d)) /\ d.moves = Others(x, n) \cup {n}
  BY <1>3, <1>5, <1>7, <1>9, <1>10, PutPlain
<1>12. c.active # None /\ Quiet(c) => Quiet(Put(x, n)) BY <1>5, <1>9, <1>11 DEF Quiet, Others
<1>13. Quiet(c) => Quiet(x) BY <1>5 DEF Quiet
<1> QED BY <1>2, <1>7, <1>11, <1>12, <1>13

\* A way back that has come to its end.
Backward(m) == m \in Move /\ m.kind = "return" /\ m.to = Main /\ ~m.token

\* What awaited returnToMain forgets the session or gives the seat up.
LEMMA AfterReturnSound ==
    ASSUME NEW c, Sound(c), NEW m, Backward(m), Fresh(c, m)
    PROVE  LET d == AfterReturn(c, m)
           IN  Sound(d) /\ (Home(c) => Home(d)) /\ (Quiet(c) => Quiet(d))
<1>1. CASE m.clear BY <1>1, ClearSessionSound DEF AfterReturn, Quiet
<1>2. CASE ~m.clear /\ m.room # None
  <2> DEFINE n == [m EXCEPT !.pc = "giving up"]
  <2>1. n \in Move /\ SameMove(m, n) /\ n.pc = "giving up" BY DEF Backward, Move, SameMove
  <2>2. AfterReturn(c, m) = Put(c, n) BY <1>2 DEF AfterReturn
  <2> HIDE DEF n
  <2>3. Shape(n) /\ n.pc \notin Underway /\ Fresh(c, n) /\ n.kind # "enter"
    BY <1>2, <2>1 DEF Shape, SameMove, Backward, Underway, Fresh
  <2>4. LET d == Put(c, n) IN Sound(d) /\ (Home(c) => Home(d)) /\ d.moves = Others(c, n) \cup {n}
    BY <2>1, <2>3, PutPlain
  <2>5. Quiet(c) => Quiet(Put(c, n)) BY <2>1, <2>4 DEF Quiet, Others
  <2> QED BY <2>2, <2>4, <2>5
<1>3. CASE ~m.clear /\ m.room = None BY <1>3 DEF AfterReturn
<1> QED BY <1>1, <1>2, <1>3

\* returnToMain: the pointer first, then the call, so that no dead room's screen is left.
LEMMA ReturnToMainSound ==
    ASSUME NEW c, Sound(c), NEW giveUp \in Rooms \cup {None}, NEW clear \in BOOLEAN
    PROVE  LET d == ReturnToMain(c, giveUp, clear)
           IN  Sound(d) /\ Home(d) /\ (Quiet(c) => OneBack(d))
<1> DEFINE m0 == NewMove(c, "return", giveUp, Main)
           m == [m0 EXCEPT !.clear = clear]
           x == [c EXCEPT !.grace = FALSE]
           y == [x EXCEPT !.current = None, !.switching = TRUE]
<1>1. c \in Client /\ Typed(c) BY DEF Sound, Typed
<1>2. ReturnToMain(c, giveUp, clear) =
        IF ~c.session THEN x ELSE IF c.current = None THEN AfterReturn(x, m) ELSE SwitchGroupCall(y, m)
  BY DEF ReturnToMain
<1>3. m0 \in Move BY <1>1, NewMoveIs DEF Channels
<1>4. m0.kind = "return" /\ m0.to = Main /\ ~m0.token /\ m0.pc = "asking" BY DEF NewMove
<1>5. \A k \in c.moves : k.id # m0.id BY <1>1, NewMoveIsFresh
<1> HIDE DEF m0
<1>6. m \in Move /\ m.kind = "return" /\ m.to = Main /\ ~m.token /\ m.pc = "asking" /\ m.id = m0.id
  BY <1>3, <1>4 DEF Move
<1> HIDE DEF m
<1>7. Backward(m) /\ Joiner(m) BY <1>6 DEF Backward, Joiner
<1>8. x \in Client BY <1>1 DEF Client
<1>9. /\ CallSame(c, x) /\ x.moves = c.moves /\ x.odd = c.odd /\ x.current = c.current
      /\ x.session = c.session /\ x.pending = c.pending
  BY <1>1 DEF Client, CallSame
<1>10. y \in Client BY <1>8 DEF Client
<1>11. /\ CallSame(x, y) /\ y.moves = x.moves /\ y.odd = x.odd /\ y.current = None
       /\ y.session = x.session /\ y.pending = x.pending
  BY <1>8 DEF Client, CallSame
<1> HIDE DEF x, y
<1>12. Noted(c, x) BY <1>8, <1>9 DEF Noted, Sound, Seat
<1>13. Sound(x) BY <1>12, NotedIsPlain
<1>14. Fresh(x, m) /\ Fresh(y, m) BY <1>5, <1>6, <1>9, <1>11 DEF Fresh
<1>15. Quiet(c) => Quiet(x) /\ Quiet(y) BY <1>9, <1>11 DEF Quiet
<1>16. CASE ~c.session
  <2>1. Home(x)
    <3>1. CASE x.current = None BY <3>1, <1>13, MainIsHome
    <3>2. CASE x.current # None BY <3>2, <1>9, <1>13, <1>16 DEF Sound, Seat, Moored, Home
    <3> QED BY <3>1, <3>2
  <2>2. Quiet(x) => OneBack(x) BY DEF Quiet, OneBack, OneReturned
  <2> QED BY <1>2, <1>13, <1>15, <1>16, <2>1, <2>2
<1>17. CASE c.session /\ c.current = None
  <2> DEFINE d == AfterReturn(x, m)
  <2>1. Home(x) BY <1>9, <1>13, <1>17, MainIsHome
  <2>2. Sound(d) /\ (Home(x) => Home(d)) /\ (Quiet(x) => Quiet(d)) BY <1>7, <1>13, <1>14, AfterReturnSound
  <2> HIDE DEF d
  <2>3. Quiet(d) => OneBack(d) BY DEF Quiet, OneBack, OneReturned
  <2> QED BY <1>2, <1>15, <1>17, <2>1, <2>2, <2>3 DEF d
<1>18. CASE c.session /\ c.current # None
  <2> DEFINE d == SwitchGroupCall(y, m)
  <2>1. Typed(y) BY <1>10, <1>11, <1>13 DEF Sound, Typed, CallSame
  <2>2. Call(y) BY <1>11, <1>13, CallFramed DEF Sound, CallFrame
  <2>3. Target(y) = Main BY <1>11 DEF Target
  <2>4. y.session BY <1>9, <1>11, <1>18
  <2>5. LET e == SwitchGroupCall(y, m)
        IN  /\ Sound(e) /\ (m.to = Main \/ Home(y) => Home(e))
            /\ Quiet(y) /\ m.kind # "enter" => OneBack(e)
    BY <1>7, <1>14, <1>6, <2>1, <2>2, <2>3, <2>4, SwitchSound
  <2>6. Sound(d) /\ Home(d) /\ (Quiet(y) => OneBack(d)) BY <1>6, <2>5
  <2> HIDE DEF d
  <2> QED BY <1>2, <1>15, <1>18, <2>6 DEF d
<1> QED BY <1>16, <1>17, <1>18

\* An enter that goes on finds the error of its room.
Wayward(c) == c.phase = "error" /\ \E m \in c.moves : m.pc = "returned" /\ m.kind = "enter"

\* The caller of switchGroupCall goes on: an enter that finds an error goes home.
LEMMA SwitchEndsSound ==
    ASSUME NEW c, Sound(c), OneReturned(c), NEW m \in c.moves, m.pc = "returned"
    PROVE  LET d == SwitchEnds(c, m)
           IN  /\ Sound(d) /\ (Home(c) \/ Wayward(c) => Home(d))
               /\ OneBack(d) /\ (m.kind # "enter" => Quiet(d))
<1> DEFINE x == [c EXCEPT !.switching = FALSE, !.moves = c.moves \ {m}]
           y == [x EXCEPT !.gone = IF x.error = "gone" THEN x.gone \cup {m.room} ELSE x.gone]
           z == [x EXCEPT !.checking = x.checking \/ (x.session /\ x.current = None)]
           w == [x EXCEPT !.switching = c.switching]
<1>1. c \in Client /\ Typed(c) BY DEF Sound, Typed
<1>2. /\ m \in Move /\ m.kind \in {"enter", "return", "leave"}
      /\ m.kind = "enter" => m.room \in Rooms
      /\ m.kind = "return" => Backward(m)
  BY <1>1 DEF Typed, Shaped, Shape, Backward
<1>3. SwitchEnds(c, m) = IF m.kind = "enter"
                         THEN IF x.phase # "error" THEN x ELSE ReturnToMain(y, None, FALSE)
                         ELSE IF m.kind = "return" THEN AfterReturn(z, m) ELSE w
  BY <1>1, <1>2 DEF SwitchEnds, Client
<1>4. Shaped(c.moves \ {m}) BY <1>1, FewerMoves DEF Typed
<1>5. x \in Client
  <2>1. c.moves \ {m} \in SUBSET Move BY <1>4 DEF Shaped
  <2> QED BY <1>1, <2>1 DEF Client
<1>6. /\ CallSame(c, x) /\ x.moves = c.moves \ {m} /\ x.odd = c.odd /\ x.current = c.current
      /\ x.session = c.session /\ x.pending = c.pending /\ x.phase = c.phase
  BY <1>1 DEF Client, CallSame
<1>7. /\ m.room \in Rooms => y \in Client
      /\ CallSame(x, y) /\ y.moves = x.moves /\ y.odd = x.odd /\ y.current = x.current
      /\ y.session = x.session /\ y.pending = x.pending
  <2> DEFINE g == IF x.error = "gone" THEN x.gone \cup {m.room} ELSE x.gone
  <2>1. m.room \in Rooms => g \in SUBSET Rooms BY <1>5 DEF Client
  <2> HIDE DEF x, g
  <2>2. m.room \in Rooms => [x EXCEPT !.gone = g] \in Client BY <1>5, <2>1 DEF Client
  <2>3. y = [x EXCEPT !.gone = g] BY DEF g
  <2> HIDE DEF y
  <2>4. /\ CallSame(x, y) /\ y.moves = x.moves /\ y.odd = x.odd /\ y.current = x.current
        /\ y.session = x.session /\ y.pending = x.pending
    BY <1>5, <2>3 DEF Client, CallSame
  <2> QED BY <2>2, <2>3, <2>4
<1>8. /\ z \in Client /\ CallSame(x, z) /\ z.moves = x.moves /\ z.odd = x.odd /\ z.current = x.current
      /\ z.session = x.session /\ z.pending = x.pending
  <2> DEFINE g == x.checking \/ (x.session /\ x.current = None)
  <2>1. g \in BOOLEAN BY <1>5 DEF Client
  <2> HIDE DEF x, g
  <2>2. [x EXCEPT !.checking = g] \in Client BY <1>5, <2>1 DEF Client
  <2>3. z = [x EXCEPT !.checking = g] BY DEF g
  <2> HIDE DEF z
  <2>4. /\ CallSame(x, z) /\ z.moves = x.moves /\ z.odd = x.odd /\ z.current = x.current
        /\ z.session = x.session /\ z.pending = x.pending
    BY <1>5, <2>3 DEF Client, CallSame
  <2> QED BY <2>2, <2>3, <2>4
<1>9. /\ w \in Client /\ CallSame(x, w) /\ w.moves = x.moves /\ w.odd = x.odd /\ w.current = x.current
      /\ w.session = x.session /\ w.pending = x.pending
  BY <1>1, <1>5 DEF Client, CallSame
<1> HIDE DEF x, y, z, w
<1>10. CallFrame(c, x) BY <1>6 DEF CallFrame, Underway
<1>11. Plain(c, x) BY <1>1, <1>4, <1>5, <1>6, <1>10 DEF Plain, Sound, Seat
<1>12. Sound(x) /\ (Home(c) => Home(x)) BY <1>11, PlainSound
<1>13. Quiet(x) BY <1>6 DEF OneReturned, Quiet
<1>14. \A d : Quiet(d) => OneBack(d) BY DEF Quiet, OneBack, OneReturned
<1>15. CASE m.kind = "enter" /\ x.phase # "error"
  BY <1>3, <1>6, <1>12, <1>13, <1>14, <1>15 DEF Wayward
<1>16. CASE m.kind = "enter" /\ x.phase = "error"
  <2>1. Noted(x, y) BY <1>2, <1>7, <1>12, <1>16 DEF Noted, Sound, Seat
  <2>2. Sound(y) /\ Quiet(y) BY <1>7, <1>12, <1>13, <2>1, NotedIsPlain DEF Quiet
  <2>3. LET d == ReturnToMain(y, None, FALSE) IN Sound(d) /\ Home(d) /\ (Quiet(y) => OneBack(d))
    BY <2>2, ReturnToMainSound
  <2> QED BY <1>3, <1>16, <2>2, <2>3
<1>17. ~Wayward(c) \/ m.kind = "enter" BY DEF Wayward, OneReturned
<1>18. CASE m.kind = "return"
  <2>1. Noted(x, z) BY <1>8, <1>12 DEF Noted, Sound, Seat
  <2>2. Sound(z) /\ (Home(x) => Home(z)) /\ Quiet(z) BY <1>8, <1>12, <1>13, <2>1, NotedIsPlain DEF Quiet
  <2>3. z.moves = Others(c, m) BY <1>1, <1>6, <1>8, TakenAway
  <2>4. Fresh(z, m) BY <2>3 DEF Fresh, Others
  <2>5. LET d == AfterReturn(z, m) IN Sound(d) /\ (Home(z) => Home(d)) /\ (Quiet(z) => Quiet(d))
    BY <1>2, <1>18, <2>2, <2>4, AfterReturnSound
  <2> QED BY <1>3, <1>12, <1>14, <1>17, <1>18, <2>2, <2>5
<1>19. CASE m.kind = "leave"
  <2>1. Noted(x, w) BY <1>9, <1>12 DEF Noted, Sound, Seat
  <2>2. Sound(w) /\ (Home(x) => Home(w)) /\ Quiet(w) BY <1>9, <1>12, <1>13, <2>1, NotedIsPlain DEF Quiet
  <2> QED BY <1>3, <1>12, <1>14, <1>17, <1>19, <2>2
<1> QED BY <1>2, <1>15, <1>16, <1>18, <1>19

\* Two callers going on are enough: the way home that begins may return at once.
LEMMA ContinueSound ==
    ASSUME NEW c, Sound(c), OneReturned(c)
    PROVE  LET d == Continue(c)
           IN  /\ Sound(d) /\ Quiet(d) /\ (Home(c) \/ Wayward(c) => Home(d))
               /\ Quiet(c) => d = c
<1>1. CASE Quiet(c)
  <2>1. ContinueOne(c) = c BY <1>1 DEF ContinueOne, Quiet
  <2>2. ~Wayward(c) BY <1>1 DEF Quiet, Wayward
  <2> QED BY <1>1, <2>1, <2>2 DEF Continue
<1>2. CASE ~Quiet(c)
  <2> DEFINE m == CHOOSE m \in c.moves : m.pc = "returned"
             e == SwitchEnds(c, m)
  <2>1. m \in c.moves /\ m.pc = "returned" BY <1>2 DEF Quiet
  <2>2. ContinueOne(c) = e BY <1>2 DEF ContinueOne, Quiet
  <2> HIDE DEF m
  <2>3. Sound(e) /\ (Home(c) \/ Wayward(c) => Home(e)) /\ OneBack(e) BY <2>1, SwitchEndsSound
  <2> HIDE DEF e
  <2>4. CASE Quiet(e)
    <3>1. ContinueOne(e) = e BY <2>4 DEF ContinueOne, Quiet
    <3> QED BY <1>2, <2>2, <2>3, <2>4, <3>1 DEF Continue
  <2>5. CASE ~Quiet(e)
    <3> DEFINE n == CHOOSE k \in e.moves : k.pc = "returned"
               d == SwitchEnds(e, n)
    <3>1. n \in e.moves /\ n.pc = "returned" BY <2>5 DEF Quiet
    <3>2. ContinueOne(e) = d BY <2>5 DEF ContinueOne, Quiet
    <3> HIDE DEF n
    <3>3. n.kind # "enter" /\ OneReturned(e) BY <2>3, <3>1 DEF OneBack
    <3>4. Sound(d) /\ (Home(e) => Home(d)) /\ Quiet(d) BY <2>3, <3>1, <3>3, SwitchEndsSound
    <3> HIDE DEF d
    <3> QED BY <1>2, <2>2, <2>3, <3>2, <3>4 DEF Continue
  <2> QED BY <2>4, <2>5
<1> QED BY <1>1, <1>2

----------------------------------------------------------------------------
(* The effects. *)

\* roomOfPubkey finds one of the rooms it was given.
LEMMA RoomOfMeIs ==
    ASSUME NEW c, NEW S \in SUBSET Rooms
    PROVE  RoomOfMe(c, S) \in S \cup {None}
<1> DEFINE mine == {r \in S : c.roster[r] = "in"}
<1>1. CASE mine = {} BY <1>1 DEF RoomOfMe
<1>2. CASE mine # {}
  <2>1. mine \subseteq Nat BY BreakoutAssumption
  <2> HIDE DEF mine
  <2>2. PICK r \in mine : \A q \in mine : ~(<<q, r>> \in OpToRel(<, Nat))
    BY <1>2, <2>1, NatLessThanWellFounded, WFMin
  <2>3. \A q \in mine : ~(q < r) BY <2>1, <2>2, Zenon DEF OpToRel
  <2>5. \A q \in mine : r <= q BY <2>1, <2>3
  <2>4. Lowest(mine) \in mine BY <2>5 DEF Lowest
  <2> QED BY <1>2, <2>4 DEF RoomOfMe, mine
<1> QED BY <1>1, <1>2

\* Where nobody waits, at most one does.
LEMMA QuietIsBack ==
    ASSUME NEW c, Quiet(c)
    PROVE  OneBack(c) /\ OneReturned(c)
BY DEF Quiet, OneBack, OneReturned

\* The effect on an idle call forgets the session, or does nothing.
LEMMA OnIdleSound ==
    ASSUME NEW c, Sound(c), Quiet(c), NEW b
    PROVE  LET d == OnIdle(b, c)
           IN  Sound(d) /\ Quiet(d) /\ (Home(c) => Home(d)) /\ (c.phase # "idle" => d = c)
BY ClearSessionSound DEF OnIdle, Quiet

\* Noting a room as gone is plain.
LEMMA GoneNoted ==
    ASSUME NEW c, Sound(c), NEW S \in SUBSET Rooms
    PROVE  LET d == [c EXCEPT !.gone = c.gone \cup S]
           IN  /\ Noted(c, d) /\ d.gone = c.gone \cup S /\ d.session = c.session
               /\ d.roster = c.roster /\ d.moves = c.moves /\ d.phase = c.phase /\ d.active = c.active
<1> DEFINE d == [c EXCEPT !.gone = c.gone \cup S]
<1>1. c \in Client BY DEF Sound, Typed
<1>2. d \in Client BY <1>1 DEF Client
<1>3. /\ CallSame(c, d) /\ d.moves = c.moves /\ d.odd = c.odd /\ d.current = c.current
      /\ d.session = c.session /\ d.pending = c.pending /\ d.gone = c.gone \cup S /\ d.roster = c.roster
      /\ d.phase = c.phase /\ d.active = c.active
  BY <1>1 DEF Client, CallSame
<1> HIDE DEF d
<1>4. Noted(c, d) BY <1>2, <1>3 DEF Noted, Sound, Seat
<1> QED BY <1>3, <1>4 DEF d

\* The effect on an ended seat takes it home.
LEMMA OnSeatEndedSound ==
    ASSUME NEW c, Sound(c), Quiet(c)
    PROVE  LET d == OnSeatEnded(c)
           IN  Sound(d) /\ OneBack(d) /\ (Home(c) => Home(d))
<1>1. CASE c.current = None \/ c.phase # "ended" \/ c.reason \notin {"deleted", "removed"}
  <2>1. OnSeatEnded(c) = c BY <1>1 DEF OnSeatEnded
  <2> QED BY <2>1, QuietIsBack
<1>2. CASE c.current # None /\ c.phase = "ended" /\ c.reason = "deleted"
  <2>1. c.current \in Rooms BY <1>2 DEF Sound, Typed, Client
  <2>2. OnSeatEnded(c) = [c EXCEPT !.gone = c.gone \cup {c.current}] BY <1>2 DEF OnSeatEnded
  <2>3. LET d == [c EXCEPT !.gone = c.gone \cup {c.current}] IN Noted(c, d) /\ d.moves = c.moves
    BY <2>1, GoneNoted
  <2>4. Sound(OnSeatEnded(c)) /\ (Home(c) => Home(OnSeatEnded(c))) BY <2>2, <2>3, NotedIsPlain
  <2>5. Quiet(OnSeatEnded(c)) BY <2>2, <2>3 DEF Quiet
  <2> QED BY <2>4, <2>5, QuietIsBack
<1>3. CASE c.current # None /\ c.phase = "ended" /\ c.reason = "removed"
  <2>1. OnSeatEnded(c) = ReturnToMain(c, None, FALSE) BY <1>3 DEF OnSeatEnded
  <2> QED BY <2>1, ReturnToMainSound
<1> QED BY <1>1, <1>2, <1>3

\* Starting or stopping the timer is plain.
LEMMA GraceNoted ==
    ASSUME NEW c, Sound(c), NEW g \in BOOLEAN
    PROVE  LET d == [c EXCEPT !.grace = g] IN Noted(c, d) /\ d.moves = c.moves /\ d.session = c.session
<1> DEFINE d == [c EXCEPT !.grace = g]
<1>1. c \in Client BY DEF Sound, Typed
<1>2. d \in Client BY <1>1 DEF Client
<1>3. /\ CallSame(c, d) /\ d.moves = c.moves /\ d.odd = c.odd /\ d.current = c.current
      /\ d.session = c.session /\ d.pending = c.pending
  BY <1>1 DEF Client, CallSame
<1> HIDE DEF d
<1> QED BY <1>2, <1>3 DEF Noted, Sound, Seat, d

\* The effect on the rosters takes the seat on, home, or starts the timer.
LEMMA OnRostersSound ==
    ASSUME NEW c, Sound(c), Quiet(c), NEW b, NEW told
    PROVE  LET d == OnRosters(b, c, told)
           IN  Sound(d) /\ OneBack(d) /\ (Home(c) => Home(d))
<1> DEFINE e == RoomOfMe(c, Standing(c) \ {c.current})
           d == OnRosters(b, c, told)
<1>1. \/ d = c
      \/ d = ReturnToMain(c, None, FALSE)
      \/ d = [c EXCEPT !.grace = FALSE]
      \/ c.session /\ e # None /\ d = EnterRoom(c, e)
      \/ d = [c EXCEPT !.grace = TRUE]
  BY DEF OnRosters
<1> SUFFICES Sound(d) /\ OneBack(d) /\ (Home(c) => Home(d)) OBVIOUS
<1> HIDE DEF d
<1>2. e \in Rooms \cup {None} BY RoomOfMeIs DEF Standing
<1> HIDE DEF e
<1>3. CASE d = c BY <1>3, QuietIsBack
<1>4. CASE d = ReturnToMain(c, None, FALSE) BY <1>4, ReturnToMainSound
<1>5. CASE \E g \in BOOLEAN : d = [c EXCEPT !.grace = g]
  <2>1. Noted(c, d) /\ d.moves = c.moves BY <1>5, GraceNoted
  <2>2. Sound(d) /\ (Home(c) => Home(d)) /\ Quiet(d) BY <2>1, NotedIsPlain DEF Quiet
  <2> QED BY <2>2, QuietIsBack
<1>6. CASE c.session /\ e # None /\ d = EnterRoom(c, e)
  <2>1. Sound(d) /\ (Home(c) => Home(d)) /\ Quiet(d) BY <1>2, <1>6, EnterRoomSound
  <2> QED BY <2>1, QuietIsBack
<1> QED BY <1>1, <1>3, <1>4, <1>5, <1>6

\* The effect on an assignment enters the room asked for, or offers one.
LEMMA OnAssignedSound ==
    ASSUME NEW c, Sound(c), Quiet(c)
    PROVE  LET d == OnAssigned(c)
           IN  Sound(d) /\ Quiet(d) /\ (Home(c) => Home(d))
<1> DEFINE e == RoomOfMe(c, Standing(c))
           d == OnAssigned(c)
           x == [c EXCEPT !.joinRequest = None, !.offered = e]
           y == [c EXCEPT !.offered = e, !.pending = e]
           z == [c EXCEPT !.offered = None]
<1>1. \/ d = c
      \/ d = z
      \/ c.session /\ e # None /\ d = EnterRoom(x, e)
      \/ c.session /\ e # None /\ d = y
  BY DEF OnAssigned
<1> SUFFICES Sound(d) /\ Quiet(d) /\ (Home(c) => Home(d)) OBVIOUS
<1>2. e \in Rooms \cup {None} BY RoomOfMeIs DEF Standing
<1>3. c \in Client BY DEF Sound, Typed
<1> HIDE DEF d, e
<1>4. x \in Client /\ y \in Client /\ z \in Client
  <2>1. z \in Client BY <1>3 DEF Client
  <2>2. \A f \in Rooms \cup {None} : [c EXCEPT !.offered = f] \in Client BY <1>3 DEF Client
  <2> DEFINE o == [c EXCEPT !.offered = e]
  <2>3. o \in Client BY <1>2, <2>2
  <2>4. x = [o EXCEPT !.joinRequest = None] /\ y = [o EXCEPT !.pending = e] BY <1>3 DEF Client
  <2> HIDE DEF o
  <2>5. \A f \in Rooms \cup {None} : [o EXCEPT !.pending = f] \in Client BY <2>3 DEF Client
  <2>6. [o EXCEPT !.joinRequest = None] \in Client BY <2>3 DEF Client
  <2> QED BY <1>2, <2>1, <2>4, <2>5, <2>6
<1>5. /\ CallSame(c, x) /\ x.moves = c.moves /\ x.odd = c.odd /\ x.current = c.current
      /\ x.session = c.session /\ x.pending = c.pending
  BY <1>3 DEF Client, CallSame
<1>6. /\ CallSame(c, y) /\ y.moves = c.moves /\ y.odd = c.odd /\ y.current = c.current
      /\ y.session = c.session
  BY <1>3 DEF Client, CallSame
<1>7. /\ CallSame(c, z) /\ z.moves = c.moves /\ z.odd = c.odd /\ z.current = c.current
      /\ z.session = c.session /\ z.pending = c.pending
  BY <1>3 DEF Client, CallSame
<1> HIDE DEF x, y, z
<1>8. CASE d = c BY <1>8
<1>9. CASE d = z
  <2>1. Noted(c, z) BY <1>4, <1>7 DEF Noted, Sound, Seat
  <2> QED BY <1>7, <1>9, <2>1, NotedIsPlain DEF Quiet
<1>10. CASE c.session /\ e # None /\ d = EnterRoom(x, e)
  <2>1. Noted(c, x) BY <1>4, <1>5 DEF Noted, Sound, Seat
  <2>2. Sound(x) /\ (Home(c) => Home(x)) /\ Quiet(x) BY <1>5, <2>1, NotedIsPlain DEF Quiet
  <2> QED BY <1>2, <1>5, <1>10, <2>2, EnterRoomSound
<1>11. CASE c.session /\ e # None /\ d = y
  <2>1. Noted(c, y) BY <1>4, <1>6, <1>11 DEF Noted, Sound, Seat
  <2> QED BY <1>6, <1>11, <2>1, NotedIsPlain DEF Quiet
<1> QED BY <1>1, <1>8, <1>9, <1>10, <1>11

\* The effect on the last deletion forgets the session in the main room.
LEMMA OnAllGoneSound ==
    ASSUME NEW c, Sound(c), Quiet(c)
    PROVE  LET d == OnAllGone(c)
           IN  Sound(d) /\ Quiet(d) /\ (Home(c) => Home(d))
BY ClearSessionSound DEF OnAllGone, Quiet

\* The last of the effects.
LEMMA SettlesSound ==
    ASSUME NEW c, Sound(c), OneBack(c)
    PROVE  LET d == OnAllGone(OnAssigned(Continue(c)))
           IN  Sound(d) /\ Quiet(d) /\ (Home(c) => Home(d))
<1>1. Sound(Continue(c)) /\ Quiet(Continue(c)) /\ (Home(c) => Home(Continue(c)))
  BY ContinueSound DEF OneBack
<1>2. LET d == OnAssigned(Continue(c)) IN Sound(d) /\ Quiet(d) /\ (Home(Continue(c)) => Home(d))
  BY <1>1, OnAssignedSound
<1> QED BY <1>1, <1>2, OnAllGoneSound

\* All effects, in the order of the file: they lead from a sound record to a sound one, and nobody waits.
LEMMA EffectsSound ==
    ASSUME NEW c, Sound(c), Quiet(c), NEW b, NEW told
    PROVE  LET d == Effects(b, c, told)
           IN  Sound(d) /\ Quiet(d) /\ (Home(c) => Home(d))
<1> DEFINE i == OnIdle(b, c)
           s == OnSeatEnded(i)
           r == OnRosters(b, Continue(s), told)
           d == Effects(b, c, told)
<1>1. Sound(i) /\ Quiet(i) /\ (Home(c) => Home(i)) BY OnIdleSound
<1> HIDE DEF i
<1>2. Sound(s) /\ OneBack(s) /\ (Home(i) => Home(s)) BY <1>1, OnSeatEndedSound
<1> HIDE DEF s
<1>3. Sound(Continue(s)) /\ Quiet(Continue(s)) /\ (Home(s) => Home(Continue(s)))
  BY <1>2, ContinueSound DEF OneBack
<1>4. Sound(r) /\ OneBack(r) /\ (Home(Continue(s)) => Home(r)) BY <1>3, OnRostersSound
<1>5. d = OnAllGone(OnAssigned(Continue(r))) BY DEF Effects, s, i
<1> HIDE DEF r
<1>6. Sound(d) /\ Quiet(d) /\ (Home(r) => Home(d)) BY <1>4, <1>5, SettlesSound
<1> HIDE DEF d
<1> QED BY <1>1, <1>2, <1>3, <1>4, <1>6 DEF d

\* The seat in a room was ended by the server: the effects take it home.
LEMMA EffectsHome ==
    ASSUME NEW c, Sound(c), Quiet(c), NEW b, NEW told,
           c.phase = "ended", c.reason \in {"deleted", "removed"}, c.room # b.room
    PROVE  Home(Effects(b, c, told))
<1> DEFINE s == OnSeatEnded(c)
           t == Continue(s)
           r == OnRosters(b, t, told)
           d == Effects(b, c, told)
<1>1. SUFFICES ASSUME ~Home(c) PROVE Home(d) BY EffectsSound
<1>2. OnIdle(b, c) = c BY OnIdleSound
<1>3. c.current # None /\ c.session /\ c.current \in Rooms
  <2>1. Moored(c) /\ c.active # Main BY <1>1 DEF Sound, Seat, Home
  <2>2. c.active # None BY DEF Sound, Call, Idle
  <2> QED BY <2>1, <2>2 DEF Moored, Target, Sound, Typed, Client
<1>4. Sound(s) /\ OneBack(s) BY OnSeatEndedSound
<1>5. Sound(t) /\ Quiet(t) /\ (Home(s) => Home(t)) BY <1>4, ContinueSound DEF OneBack
<1>6. Sound(r) /\ OneBack(r) /\ (Home(t) => Home(r)) BY <1>5, OnRostersSound
<1>7. d = OnAllGone(OnAssigned(Continue(r))) BY <1>2 DEF Effects
<1>8. Home(r) => Home(d) BY <1>6, <1>7, SettlesSound
<1>9. CASE c.reason = "removed"
  <2>1. s = ReturnToMain(c, None, FALSE) BY <1>3, <1>9 DEF OnSeatEnded
  <2>2. Home(s) BY <2>1, ReturnToMainSound
  <2> QED BY <1>5, <1>6, <1>8, <2>2
<1>10. CASE c.reason = "deleted"
  <2>1. s = [c EXCEPT !.gone = c.gone \cup {c.current}] BY <1>3, <1>10 DEF OnSeatEnded
  <2> HIDE DEF s
  <2>2. Noted(c, s) /\ s.gone = c.gone \cup {c.current} /\ s.session = c.session /\ s.moves = c.moves
    <3> DEFINE S == {c.current}
    <3>1. S \in SUBSET Rooms BY <1>3
    <3>2. s = [c EXCEPT !.gone = c.gone \cup S] BY <2>1
    <3> HIDE DEF S
    <3>3. Noted(c, s) /\ s.gone = c.gone \cup S /\ s.session = c.session /\ s.moves = c.moves
      BY <3>1, <3>2, GoneNoted
    <3> QED BY <3>3 DEF S
  <2>3. Quiet(s) BY <2>2 DEF Quiet
  <2>4. t = s BY <1>4, <2>3, ContinueSound DEF OneBack
  <2>5. s.room = c.room /\ s.current = c.current BY <2>2 DEF Noted, CallSame
  <2>6. t.room # b.room /\ t.current # None /\ t.session /\ t.current \in t.gone BY <1>3, <2>2, <2>4, <2>5
  <2> HIDE DEF t
  <2>7. r = ReturnToMain(t, None, FALSE) BY <2>6 DEF OnRosters
  <2>8. Home(r) BY <1>5, <2>7, ReturnToMainSound
  <2> QED BY <1>8, <2>8
<1> QED BY <1>9, <1>10

----------------------------------------------------------------------------
(* What a step makes of the record before the effects. *)

Good(c) == Sound(c) /\ Quiet(c) /\ Home(c)

\* One caller may have to go on, and find the error it is to come back from.
Handed(c) == Sound(c) /\ OneReturned(c) /\ (Home(c) \/ Wayward(c))

\* What a good record is.
LEMMA GoodIsHanded ==
    ASSUME NEW c, Good(c)
    PROVE  Handed(c) /\ Typed(c) /\ Call(c) /\ Seat(c) /\ Sound(c) /\ c \in Client
BY QuietIsBack DEF Good, Handed, Sound, Typed

\* A step and its effects end in a good record.
LEMMA HandedSettles ==
    ASSUME NEW c, Handed(c), NEW b, NEW told
    PROVE  Good(Effects(b, Continue(c), told))
<1>1. Sound(Continue(c)) /\ Quiet(Continue(c)) /\ Home(Continue(c)) BY ContinueSound DEF Handed
<1> QED BY <1>1, EffectsSound DEF Good

\* A note keeps a record good.
LEMMA NotedGood ==
    ASSUME NEW c, Good(c), NEW d, Noted(c, d)
    PROVE  Good(d)
BY NotedIsPlain DEF Good, Quiet, Noted

\* An async function that is not in the call store may end.
LEMMA DropGood ==
    ASSUME NEW c, Good(c), NEW m \in c.moves, m.pc \notin Underway
    PROVE  LET d == [c EXCEPT !.moves = c.moves \ {m}]
           IN  /\ Good(d) /\ d.session = c.session /\ d.gone = c.gone /\ d.moves = Others(c, m)
<1> DEFINE M == Others(c, m)
           d == [c EXCEPT !.moves = M]
<1>1. Typed(c) /\ c \in Client BY GoodIsHanded
<1>2. c.moves \ {m} = M BY <1>1, TakenAway
<1>3. M \subseteq c.moves /\ Shaped(M) BY <1>1, FewerMoves DEF Typed, Others
<1>4. M \in SUBSET Move BY <1>3 DEF Shaped
<1>5. \A k \in c.moves : k \in M \/ k = m BY <1>2
<1> HIDE DEF M
<1>6. d \in Client BY <1>1, <1>4 DEF Client
<1>7. /\ CallSame(c, d) /\ d.moves = M /\ d.odd = c.odd /\ d.current = c.current
      /\ d.session = c.session /\ d.pending = c.pending /\ d.gone = c.gone
  BY <1>1 DEF Client, CallSame
<1> HIDE DEF d
<1>8. CallFrame(c, d) BY <1>3, <1>5, <1>7 DEF CallFrame
<1>9. Plain(c, d) BY <1>3, <1>6, <1>7, <1>8 DEF Plain, Good, Sound, Seat
<1>10. Good(d) BY <1>3, <1>7, <1>9, PlainSound DEF Good, Quiet
<1> QED BY <1>2, <1>7, <1>10 DEF d, M

\* An async function of the call store that goes on hands its caller what it needs.
LEMMA OnwardHanded ==
    ASSUME NEW c, Good(c), NEW m \in c.moves, NEW d, Onward(c, d, m), Call(d), Home(d) \/ Wayward(d)
    PROVE  Handed(d)
<1>1. Sound(d) BY OnwardSeat DEF Sound, Onward, Good
<1>2. OneReturned(d) BY DEF Onward, OneReturned, Others, Good, Quiet
<1> QED BY <1>1, <1>2 DEF Handed

\* enterRoom has its token.
LEMMA SwitchHanded ==
    ASSUME NEW c, Good(c), NEW m \in c.moves, m.pc = "asking"
    PROVE  Handed(SwitchGroupCall([c EXCEPT !.switching = TRUE, !.current = m.room], m))
<1> DEFINE y == [c EXCEPT !.switching = TRUE, !.current = m.room]
           d == SwitchGroupCall(y, m)
<1>1. Typed(c) /\ Call(c) /\ Seat(c) /\ c \in Client BY GoodIsHanded
<1>2. m \in Move /\ m.kind = "enter" /\ m.room \in Rooms /\ m.to = m.room /\ m.token
  BY <1>1 DEF Typed, Shaped, Shape
<1>3. y \in Client BY <1>1, <1>2 DEF Client
<1>4. /\ CallSame(c, y) /\ y.moves = c.moves /\ y.odd = c.odd /\ y.current = m.room
      /\ y.session = c.session /\ y.pending = c.pending
  BY <1>1 DEF Client, CallSame
<1> HIDE DEF y
<1>5. Typed(y) BY <1>1, <1>3, <1>4 DEF Typed, CallSame
<1>6. Call(y) BY <1>1, <1>4, CallFramed DEF CallFrame
<1>7. Joiner(m) BY <1>2 DEF Joiner
<1>8. Fresh(y, m) BY <1>1, <1>4 DEF Fresh, Typed, Shaped, Underway
<1>9. Target(y) = m.to BY <1>2, <1>4, BreakoutAssumption DEF Target, Channels
<1>10. y.pending # None => y.session BY <1>1, <1>4 DEF Seat
<1>11. y.odd \cap {"crossed", "unmoored"} = {} => y.session BY <1>1, <1>2, <1>4 DEF Seat, Moored
<1>12. Home(y) /\ Quiet(y) BY <1>4 DEF Good, Home, Quiet, CallSame
<1>13. Sound(d) /\ Home(d) /\ OneReturned(d)
  <2>1. LET e == SwitchGroupCall(y, m)
        IN  /\ Sound(e) /\ (m.to = Main \/ Home(y) => Home(e))
            /\ Quiet(y) \/ (m \in y.moves /\ OneReturned(y) /\ m.pc = "returned") => OneReturned(e)
    BY <1>5, <1>6, <1>7, <1>8, <1>9, <1>10, <1>11, SwitchSound
  <2> QED BY <1>12, <2>1
<1> QED BY <1>13 DEF Handed, y

\* A refused token of the way home is an error of the main room.
LEMMA TokenHanded ==
    ASSUME NEW c, Good(c), NEW m \in c.moves, m.pc = "token", NEW e \in {None, "failed"}
    PROVE  Handed(TokenArrives(c, m, e))
<1> DEFINE d == TokenArrives(c, m, e)
<1>1. Typed(c) /\ Call(c) BY GoodIsHanded
<1>2. /\ Onward(c, d, m) /\ Call(d)
      /\ \/ d.phase = c.phase /\ d.reason = c.reason
         \/ d.phase = "ready"
         \/ d.phase = "error" /\ d.active = Main
  BY <1>1, TokenCall
<1> HIDE DEF d
<1>3. Home(d) BY <1>2 DEF Home, Onward, Good
<1> QED BY <1>2, <1>3, OnwardHanded DEF d

\* A connect changes no screen.
LEMMA ConnectedHanded ==
    ASSUME NEW c, Good(c), NEW m \in c.moves, m.pc = "connecting"
    PROVE  Handed(Connected(c, m))
<1> DEFINE d == Connected(c, m)
<1>1. Typed(c) /\ Call(c) BY GoodIsHanded
<1>2. Onward(c, d, m) /\ Call(d) /\ d.phase = c.phase /\ d.reason = c.reason BY <1>1, ConnectedCall
<1> HIDE DEF d
<1>3. Home(d) BY <1>2 DEF Home, Onward, Good
<1> QED BY <1>2, <1>3, OnwardHanded DEF d

\* A failed connect to a room is found by the enter that returns.
LEMMA ConnectFailsHanded ==
    ASSUME NEW c, Good(c), NEW m \in c.moves, m.pc = "connecting"
    PROVE  Handed(ConnectFails(c, m))
<1> DEFINE d == ConnectFails(c, m)
<1>1. Typed(c) /\ Call(c) BY GoodIsHanded
<1>2. /\ Onward(c, d, m) /\ Call(d)
      /\ \E n \in d.moves : n.pc = "returned" /\ SameMove(m, n)
      /\ \/ d.phase = c.phase /\ d.reason = c.reason
         \/ d.phase = "error" /\ d.active = m.to
  BY <1>1, ConnectFailsCall
<1> HIDE DEF d
<1>3. m.kind = "enter" \/ m.to = Main BY <1>1 DEF Typed, Shaped, Shape
<1>4. Home(d) \/ Wayward(d)
  <2>1. CASE d.phase = c.phase /\ d.reason = c.reason BY <1>2, <2>1 DEF Home, Onward, Good
  <2>2. CASE d.phase = "error" /\ d.active = m.to
    BY <1>2, <1>3, <2>2 DEF Home, Wayward, SameMove
  <2> QED BY <1>2, <2>1, <2>2
<1> QED BY <1>2, <1>4, OnwardHanded DEF d

\* Devices change no screen.
LEMMA MediaHanded ==
    ASSUME NEW c, Good(c), NEW m \in c.moves, m.pc = "media"
    PROVE  Handed(MediaReady(c, m))
<1> DEFINE d == MediaReady(c, m)
<1>1. Typed(c) /\ Call(c) BY GoodIsHanded
<1>2. Onward(c, d, m) /\ Call(d) /\ d.phase = c.phase /\ d.reason = c.reason BY <1>1, MediaCall
<1> HIDE DEF d
<1>3. Home(d) BY <1>2 DEF Home, Onward, Good
<1> QED BY <1>2, <1>3, OnwardHanded DEF d

\* Whatever is put beside the outdated moves is the only one that can have returned.
LEMMA OutdateQuiet ==
    ASSUME NEW c, Typed(c), Quiet(c), NEW m, NEW d, NEW n, d.moves = Outdate(Others(c, m)) \cup {n}
    PROVE  OneReturned(d)
BY OutdateKinds DEF OneReturned, Quiet

\* A disconnect that is complete lets the caller go on, or the join begin.
LEMMA DisconnectedHanded ==
    ASSUME NEW c, Good(c), NEW m \in c.moves, m.pc \in Dropping
    PROVE  Handed(Disconnected(c, m))
<1> DEFINE d == Disconnected(c, m)
<1>1. Typed(c) /\ Call(c) /\ Seat(c) BY GoodIsHanded
<1>2. /\ Call(d)
      /\ \/ Onward(c, d, m) /\ d.phase = c.phase /\ (Calm(c) => c.active = None)
         \/ Restarts(c, d, m)
  BY <1>1, DisconnectedCall
<1> HIDE DEF d
<1>3. CASE Onward(c, d, m) /\ d.phase = c.phase /\ (Calm(c) => c.active = None)
  <2>1. Home(d) BY <1>1, <1>3 DEF Home, Onward, Call, Idle
  <2> QED BY <1>2, <1>3, <2>1, OnwardHanded DEF d
<1>4. CASE Restarts(c, d, m)
  <2>1. Seat(d) /\ Home(d) /\ Typed(d) BY <1>1, <1>4, RestartsSeat DEF Restarts
  <2>2. OneReturned(d) BY <1>1, <1>4, OutdateQuiet DEF Restarts, Good
  <2> QED BY <1>2, <2>1, <2>2 DEF Handed, Sound, d
<1> QED BY <1>2, <1>3, <1>4

\* A hang-up.
LEMMA LeaveHanded ==
    ASSUME NEW c, Good(c), c.active # None
    PROVE  Handed(Leave(c, NewMove(c, "leave", None, None)))
<1> DEFINE m == NewMove(c, "leave", None, None)
           d == Leave(c, m)
<1>1. Typed(c) /\ Call(c) /\ Seat(c) BY GoodIsHanded
<1>2. m \in Move BY <1>1, NewMoveIs
<1>3. m.kind = "leave" /\ m.to = None BY DEF NewMove
<1>4. \A k \in c.moves : k.id # m.id BY <1>1, NewMoveIsFresh
<1> HIDE DEF m
<1>5. Leaver(m) /\ Fresh(c, m) BY <1>2, <1>3, <1>4 DEF Leaver, Fresh
<1>6. Leaves(c, d, m) /\ Call(d) BY <1>1, <1>5, LeaveCall
<1> HIDE DEF d
<1>7. Seat(d) /\ Home(d) /\ Typed(d) BY <1>1, <1>5, <1>6, LeavesSeat DEF Leaves
<1>8. OneReturned(d) BY <1>1, <1>6, OutdateQuiet DEF Leaves, Good
<1> QED BY <1>6, <1>7, <1>8 DEF Handed, Sound, d, m

\* A Room ends; a seat that was put out is taken home by the effects.
LEMMA RoomEndsSettles ==
    ASSUME NEW c, Good(c), NEW R \in c.up, NEW why \in {"deleted", "removed", "dropped"}, NEW told
    PROVE  Good(Effects(c, Continue(RoomEnds(c, R, why)), told))
<1> DEFINE x == RoomEnds(c, R, why)
<1>1. Typed(c) /\ Call(c) /\ Seat(c) /\ c \in Client BY GoodIsHanded
<1>2. why \in Reasons BY DEF Reasons
<1>3. /\ SeatKept(c, x) /\ Typed(x) /\ Call(x)
      /\ x.active = c.active /\ x.moves = c.moves /\ x.odd = c.odd /\ x.reason = why
      /\ Calm(c) => \/ x.phase = "idle"
                    \/ x.phase = "ended" /\ x.active = R.at /\ x.room = None /\ c.room = R
  BY <1>1, <1>2, RoomEndsCall
<1> HIDE DEF x
<1>4. Seat(x) BY <1>1, <1>3 DEF Seat, Moored, Target, SeatKept, SeatSame
<1>5. Sound(x) /\ Quiet(x) BY <1>3, <1>4 DEF Sound, Good, Quiet
<1>6. Continue(x) = x BY <1>5, ContinueSound, QuietIsBack
<1>7. CASE Home(x) BY <1>5, <1>6, <1>7, EffectsSound DEF Good, x
<1>8. CASE ~Home(x)
  <2>1. Calm(c) /\ why # "dropped" BY <1>1, <1>3, <1>8 DEF Home, Call
  <2>2. x.phase = "ended" /\ x.room = None /\ c.room = R BY <1>3, <1>8, <2>1 DEF Home
  <2>3. R # None BY <1>1, BreakoutAssumption DEF Client
  <2>4. Home(Effects(c, x, told)) BY <1>3, <1>5, <2>1, <2>2, <2>3, EffectsHome
  <2> QED BY <1>5, <1>6, <2>4, EffectsSound DEF Good, x
<1> QED BY <1>7, <1>8

\* The notes of a seat: what it hears, what it is asked and what it has answered.
LEMMA NotesGood ==
    ASSUME NEW c, Good(c)
    PROVE  /\ Good([c EXCEPT !.answered = TRUE])
           /\ \A r \in Rooms, v \in {"unknown", "in", "out"} : Good([c EXCEPT !.roster[r] = v])
           /\ \A g \in BOOLEAN : Good([c EXCEPT !.grace = g])
           /\ \A G \in SUBSET Rooms : Good([c EXCEPT !.gone = G]) /\ [c EXCEPT !.gone = G].session = c.session
           /\ \A j \in Rooms \cup {None} :
                Good([c EXCEPT !.joinRequest = j]) /\ [c EXCEPT !.joinRequest = j].session = c.session
           /\ \A O \in SUBSET Oddities : c.odd \subseteq O => Good([c EXCEPT !.odd = O])
           /\ \A A \in SUBSET Nat :
                LET d == [c EXCEPT !.asked = A] IN Good(d) /\ d.moves = c.moves /\ d.session = c.session
<1>1. c \in Client /\ (c.pending # None => c.session) BY GoodIsHanded DEF Seat
<1>2. ASSUME NEW d \in Client, CallSame(c, d), d.moves = c.moves, c.odd \subseteq d.odd,
             d.current = c.current, d.session = c.session, d.pending = c.pending
      PROVE  Good(d)
  BY <1>1, <1>2, NotedGood DEF Noted
<1>3. Good([c EXCEPT !.answered = TRUE])
  <2> DEFINE d == [c EXCEPT !.answered = TRUE]
  <2>1. d \in Client BY <1>1 DEF Client
  <2>2. /\ CallSame(c, d) /\ d.moves = c.moves /\ d.odd = c.odd
        /\ d.current = c.current /\ d.session = c.session /\ d.pending = c.pending
    BY <1>1 DEF Client, CallSame
  <2> HIDE DEF d
  <2>3. Good(d) BY <1>2, <2>1, <2>2
  <2> QED BY <2>3 DEF d
<1>4. ASSUME NEW r \in Rooms, NEW v \in {"unknown", "in", "out"} PROVE Good([c EXCEPT !.roster[r] = v])
  <2> DEFINE d == [c EXCEPT !.roster[r] = v]
  <2>1. d \in Client BY <1>1 DEF Client
  <2>2. /\ CallSame(c, d) /\ d.moves = c.moves /\ d.odd = c.odd
        /\ d.current = c.current /\ d.session = c.session /\ d.pending = c.pending
    BY <1>1 DEF Client, CallSame
  <2> HIDE DEF d
  <2>3. Good(d) BY <1>2, <2>1, <2>2
  <2> QED BY <2>3 DEF d
<1>5. ASSUME NEW g \in BOOLEAN PROVE Good([c EXCEPT !.grace = g])
  BY GraceNoted, NotedGood DEF Good
<1>6. ASSUME NEW G \in SUBSET Rooms
      PROVE  Good([c EXCEPT !.gone = G]) /\ [c EXCEPT !.gone = G].session = c.session
  <2> DEFINE d == [c EXCEPT !.gone = G]
  <2>1. d \in Client BY <1>1 DEF Client
  <2>2. /\ CallSame(c, d) /\ d.moves = c.moves /\ d.odd = c.odd
        /\ d.current = c.current /\ d.session = c.session /\ d.pending = c.pending
    BY <1>1 DEF Client, CallSame
  <2> HIDE DEF d
  <2>3. Good(d) BY <1>2, <2>1, <2>2
  <2> QED BY <2>2, <2>3 DEF d
<1>7. ASSUME NEW j \in Rooms \cup {None}
      PROVE  Good([c EXCEPT !.joinRequest = j]) /\ [c EXCEPT !.joinRequest = j].session = c.session
  <2> DEFINE d == [c EXCEPT !.joinRequest = j]
  <2>1. d \in Client BY <1>1 DEF Client
  <2>2. /\ CallSame(c, d) /\ d.moves = c.moves /\ d.odd = c.odd
        /\ d.current = c.current /\ d.session = c.session /\ d.pending = c.pending
    BY <1>1 DEF Client, CallSame
  <2> HIDE DEF d
  <2>3. Good(d) BY <1>2, <2>1, <2>2
  <2> QED BY <2>2, <2>3 DEF d
<1>8. ASSUME NEW O \in SUBSET Oddities, c.odd \subseteq O PROVE Good([c EXCEPT !.odd = O])
  <2> DEFINE d == [c EXCEPT !.odd = O]
  <2>1. d \in Client BY <1>1 DEF Client
  <2>2. /\ CallSame(c, d) /\ d.moves = c.moves /\ d.odd = O
        /\ d.current = c.current /\ d.session = c.session /\ d.pending = c.pending
    BY <1>1 DEF Client, CallSame
  <2> HIDE DEF d
  <2>3. Good(d) BY <1>2, <1>8, <2>1, <2>2
  <2> QED BY <2>3 DEF d
<1>9. ASSUME NEW A \in SUBSET Nat
      PROVE  LET d == [c EXCEPT !.asked = A] IN Good(d) /\ d.moves = c.moves /\ d.session = c.session
  <2> DEFINE d == [c EXCEPT !.asked = A]
  <2>1. d \in Client BY <1>1 DEF Client
  <2>2. /\ CallSame(c, d) /\ d.moves = c.moves /\ d.odd = c.odd
        /\ d.current = c.current /\ d.session = c.session /\ d.pending = c.pending
    BY <1>1 DEF Client, CallSame
  <2> HIDE DEF d
  <2>3. Good(d) BY <1>2, <2>1, <2>2
  <2> QED BY <2>2, <2>3 DEF d
<1> QED BY <1>3, <1>4, <1>5, <1>6, <1>7, <1>8, <1>9

\* The notes with a condition, and those that are read again.
LEMMA SessionGood ==
    ASSUME NEW c, Good(c)
    PROVE  LET d == [c EXCEPT !.session = TRUE] IN Good(d) /\ d.session /\ d.joinRequest = c.joinRequest
<1> DEFINE d == [c EXCEPT !.session = TRUE]
<1>1. c \in Client BY GoodIsHanded
<1>2. d \in Client BY <1>1 DEF Client
<1>3. /\ CallSame(c, d) /\ d.moves = c.moves /\ d.odd = c.odd /\ d.current = c.current /\ d.session
      /\ d.joinRequest = c.joinRequest
  BY <1>1 DEF Client, CallSame
<1> HIDE DEF d
<1>4. Good(d) BY <1>2, <1>3, NotedGood DEF Noted
<1> QED BY <1>3, <1>4 DEF d

\* A session of its own, of which no request has asked.
LEMMA ToldGood ==
    ASSUME NEW c, Good(c)
    PROVE  Good(Told(c)) /\ Told(c).session
<1> DEFINE d == [c EXCEPT !.session = TRUE]
<1>1. Good(d) /\ d.session BY SessionGood
<1>2. Told(c) = [d EXCEPT !.asked = {}] BY DEF Told
<1> HIDE DEF d
<1>3. LET e == [d EXCEPT !.asked = {}] IN Good(e) /\ e.session = d.session BY <1>1, NotesGood
<1> QED BY <1>1, <1>2, <1>3

\* An offer, for a client with a session.
LEMMA PendingGood ==
    ASSUME NEW c, Good(c), NEW p \in Rooms \cup {None}, p # None => c.session
    PROVE  LET d == [c EXCEPT !.pending = p] IN Good(d) /\ d.session = c.session
<1> DEFINE d == [c EXCEPT !.pending = p]
<1>1. c \in Client BY GoodIsHanded
<1>2. d \in Client BY <1>1 DEF Client
<1>3. /\ CallSame(c, d) /\ d.moves = c.moves /\ d.odd = c.odd /\ d.current = c.current
      /\ d.session = c.session /\ d.pending = p
  BY <1>1 DEF Client, CallSame
<1> HIDE DEF d
<1>4. Good(d) BY <1>2, <1>3, NotedGood DEF Noted
<1> QED BY <1>3, <1>4 DEF d

\* The deadline is noted.
LEMMA DeadlineGood ==
    ASSUME NEW c, Good(c)
    PROVE  Good([c EXCEPT !.deadlineHandled = TRUE])
<1> DEFINE d == [c EXCEPT !.deadlineHandled = TRUE]
<1>1. c \in Client /\ (c.pending # None => c.session) BY GoodIsHanded DEF Seat
<1>2. d \in Client BY <1>1 DEF Client
<1>3. /\ CallSame(c, d) /\ d.moves = c.moves /\ d.odd = c.odd /\ d.current = c.current
      /\ d.session = c.session /\ d.pending = c.pending
  BY <1>1 DEF Client, CallSame
<1> HIDE DEF d
<1>4. Good(d) BY <1>1, <1>2, <1>3, NotedGood DEF Noted
<1> QED BY <1>4 DEF d

\* The answer of revalidateRooms is noted.
LEMMA CheckedGood ==
    ASSUME NEW c, Good(c), NEW G \in SUBSET Rooms
    PROVE  Good([c EXCEPT !.checking = FALSE]) /\ Good([c EXCEPT !.checking = FALSE, !.gone = G])
<1> DEFINE d == [c EXCEPT !.checking = FALSE]
<1>1. c \in Client /\ (c.pending # None => c.session) BY GoodIsHanded DEF Seat
<1>2. d \in Client BY <1>1 DEF Client
<1>3. /\ CallSame(c, d) /\ d.moves = c.moves /\ d.odd = c.odd /\ d.current = c.current
      /\ d.session = c.session /\ d.pending = c.pending
  BY <1>1 DEF Client, CallSame
<1>4. [c EXCEPT !.checking = FALSE, !.gone = G] = [d EXCEPT !.gone = G] BY <1>1 DEF Client
<1> HIDE DEF d
<1>5. Good(d) BY <1>1, <1>2, <1>3, NotedGood DEF Noted
<1>6. Good([d EXCEPT !.gone = G]) BY <1>5, NotesGood
<1> QED BY <1>4, <1>5, <1>6 DEF d

\* The functions of the store, on a record at rest.
LEMMA EnterRoomHanded ==
    ASSUME NEW c, Good(c), NEW r \in Rooms
    PROVE  Handed(EnterRoom(c, r))
BY EnterRoomSound, GoodIsHanded DEF Good

\* returnToMain from a good record.
LEMMA ReturnToMainHanded ==
    ASSUME NEW c, Good(c), NEW giveUp \in Rooms \cup {None}, NEW clear \in BOOLEAN
    PROVE  Handed(ReturnToMain(c, giveUp, clear))
BY ReturnToMainSound DEF Good, Handed, OneBack

\* clearSession from a good record.
LEMMA ClearSessionHanded ==
    ASSUME NEW c, Good(c)
    PROVE  Handed(ClearSession(c))
BY ClearSessionSound, GoodIsHanded DEF Good, Quiet

\* A request of a room from a good record.
LEMMA PutHanded ==
    ASSUME NEW c, Good(c), NEW n \in Move, Shape(n), n.pc \in {"checking", "seating", "knocking"}, Fresh(c, n)
    PROVE  Handed(Put(c, n))
<1>1. n.pc \notin Underway /\ n.pc # "returned" /\ n.kind # "enter" BY DEF Underway, Shape
<1>2. /\ Sound(Put(c, n)) /\ (Home(c) => Home(Put(c, n)))
      /\ Put(c, n).moves = Others(c, n) \cup {n}
  BY <1>1, PutPlain DEF Good
<1>3. Good(Put(c, n)) BY <1>1, <1>2 DEF Good, Quiet, Others
<1> QED BY <1>3, GoodIsHanded

----------------------------------------------------------------------------
(* The steps. *)

Relays == [seats : SUBSET Rooms, deleted : SUBSET Rooms, late : BOOLEAN]
Watches == {"closed", "open", "down", "blind"}
Bounds == [host : 0..MaxHost, user : 0..MaxUser, faults : 0..MaxFaults]

\* The inductive invariant: the seat is good whenever a step has run its
\* effects, and everything else has its type.
IInv ==
    /\ Good(me)
    /\ relay \in Relays /\ watch \in Watches /\ feed \in Seq(Event) /\ spent \in Bounds

\* Inputs stay within their bounds.
LEMMA SpentTyped ==
    ASSUME spent \in Bounds, UNCHANGED spent \/ HostActs \/ UserActs \/ Fails
    PROVE  spent' \in Bounds
<1>1. {MaxHost, MaxUser, MaxFaults} \subseteq Nat BY BreakoutAssumption
<1>2. CASE UNCHANGED spent BY <1>2
<1>3. CASE HostActs BY <1>1, <1>3 DEF HostActs, Spends, Bounds
<1>4. CASE UserActs BY <1>1, <1>4 DEF UserActs, Spends, Bounds
<1>5. CASE Fails BY <1>1, <1>5 DEF Fails, Spends, Bounds
<1> QED BY <1>2, <1>3, <1>4, <1>5

\* What the relay sends.
LEMMA EventsAre ==
    /\ \A r \in Rooms : \A b \in BOOLEAN : [kind |-> "roster", room |-> r, names |-> b] \in Event
    /\ \A r \in Rooms : [kind |-> "gone", room |-> r] \in Event
    /\ [kind |-> "EOSE"] \in Event
BY DEF Event

\* A replay is a sequence of events.
LEMMA SnapshotTyped ==
    ASSUME relay \in Relays, NEW s \in Orders
    PROVE  Snapshot(s) \in Seq(Event)
<1> DEFINE e == [i \in DOMAIN s |-> IF s[i] \in relay.deleted THEN [kind |-> "gone", room |-> s[i]]
                                    ELSE [kind |-> "roster", room |-> s[i], names |-> s[i] \in relay.seats]]
<1>1. Cardinality(Rooms) \in Nat BY BreakoutAssumption, FS_CardinalityType
<1>2. s \in [1..Cardinality(Rooms) -> Rooms] BY DEF Orders
<1>3. \A i \in DOMAIN s : e[i] \in Event
  <2>1. \A i \in DOMAIN s : s[i] \in Rooms BY <1>2
  <2>2. \A i \in DOMAIN s : (s[i] \in relay.seats) \in BOOLEAN OBVIOUS
  <2> QED BY <2>1, <2>2, EventsAre
<1>4. e \in [1..Cardinality(Rooms) -> Event] BY <1>2, <1>3
<1> HIDE DEF e
<1>5. e \in Seq(Event) BY <1>1, <1>4
<1>6. <<[kind |-> "EOSE"]>> \in Seq(Event) BY EventsAre
<1>7. Snapshot(s) = e \o <<[kind |-> "EOSE"]>> BY DEF Snapshot, e
<1> QED BY <1>5, <1>6, <1>7

\* A change that is sent is an event.
LEMMA TellTyped ==
    ASSUME feed \in Seq(Event), NEW r \in Rooms, NEW b \in BOOLEAN
    PROVE  Tell(r, b) \in Seq(Event)
BY EventsAre DEF Tell

\* A step that leaves the relay as it is, and one that changes what it keeps.
LEMMA BecomeInv ==
    ASSUME IInv, NEW x, NEW told, NEW rest \in Seq(Event), Become(x, told, rest),
           Good(Effects(me, Continue(x), told)), relay' \in Relays,
           UNCHANGED spent \/ HostActs \/ UserActs \/ Fails
    PROVE  IInv'
<1>1. Good(me)' BY DEF Become
<1>2. spent' \in Bounds BY SpentTyped DEF IInv
<1>3. watch' \in Watches /\ feed' \in Seq(Event)
  <2>1. CASE me'.session = (watch # "closed") BY <2>1 DEF Become, IInv
  <2>2. CASE me'.session # (watch # "closed") /\ me'.session
    <3>1. watch' = "open" /\ \E s \in Orders : feed' = Snapshot(s) BY <2>2 DEF Become
    <3> QED BY <3>1, SnapshotTyped DEF IInv, Watches
  <2>3. CASE me'.session # (watch # "closed") /\ ~me'.session
    <3>1. watch' = "closed" /\ feed' = <<>> BY <2>3 DEF Become
    <3> QED BY <3>1 DEF Watches
  <2> QED BY <2>1, <2>2, <2>3
<1> QED BY <1>1, <1>2, <1>3 DEF IInv

\* A step of the client alone keeps the invariant.
LEMMA StepInv ==
    ASSUME IInv, NEW x, Handed(x), Step(x), UNCHANGED relay,
           UNCHANGED spent \/ HostActs \/ UserActs \/ Fails
    PROVE  IInv'
<1>1. Good(Effects(me, Continue(x), FALSE)) BY HandedSettles
<1>2. Become(x, FALSE, feed) /\ feed \in Seq(Event) /\ relay' \in Relays BY DEF Step, IInv
<1> QED BY <1>1, <1>2, BecomeInv

\* enterRoom has its token, or none.
LEMMA RoomTokenInv ==
    ASSUME IInv, NEW m \in me.moves, RoomToken(m)
    PROVE  IInv'
<1>1. Good(me) /\ Typed(me) /\ me \in Client BY GoodIsHanded DEF IInv
<1>2. m.pc = "asking" /\ UNCHANGED relay BY DEF RoomToken
<1>3. m.room \in Rooms BY <1>1, <1>2 DEF Typed, Shaped, Shape
<1> DEFINE d == Drop(m)
<1>4. Good(d) BY <1>1, <1>2, DropGood DEF Drop, Underway
<1>5. d \in Client BY <1>4, GoodIsHanded
<1>6. CASE Step(Switch(m)) /\ IF m.room \in relay.deleted THEN Fails ELSE UNCHANGED spent
  <2>1. Handed(Switch(m)) BY <1>1, <1>2, SwitchHanded DEF Switch
  <2> QED BY <1>2, <1>6, <2>1, StepInv
<1>7. CASE Step([d EXCEPT !.gone = @ \cup {m.room}]) /\ UNCHANGED spent
  <2> HIDE DEF d
  <2> DEFINE G == d.gone \cup {m.room}
  <2>1. G \in SUBSET Rooms BY <1>3, <1>5 DEF Client
  <2>2. Step([d EXCEPT !.gone = G]) BY <1>7
  <2> HIDE DEF G
  <2>3. Handed([d EXCEPT !.gone = G]) BY <1>4, <2>1, NotesGood, GoodIsHanded
  <2> QED BY <1>2, <1>7, <2>2, <2>3, StepInv
<1>8. CASE Step([d EXCEPT !.odd = IF me.current = None THEN @ ELSE @ \cup {"refused"}]) /\ Fails
  <2> HIDE DEF d
  <2> DEFINE O == IF me.current = None THEN d.odd ELSE d.odd \cup {"refused"}
  <2>1. O \in SUBSET Oddities /\ d.odd \subseteq O BY <1>5 DEF Client, Oddities
  <2>2. Step([d EXCEPT !.odd = O]) BY <1>8
  <2> HIDE DEF O
  <2>3. Handed([d EXCEPT !.odd = O]) BY <1>4, <2>1, NotesGood, GoodIsHanded
  <2> QED BY <1>2, <1>8, <2>2, <2>3, StepInv
<1> QED BY <1>6, <1>7, <1>8 DEF RoomToken

\* A request that goes on to its next answer.
LEMMA NextAnswerHanded ==
    ASSUME NEW c, Good(c), NEW m \in c.moves, m.pc \in {"checking", "seating"},
           NEW pc \in {"seating", "knocking"}
    PROVE  Handed(Put(c, [m EXCEPT !.pc = pc]))
<1> DEFINE n == [m EXCEPT !.pc = pc]
<1>1. Typed(c) BY GoodIsHanded
<1>2. m \in Move /\ m.room \in Rooms /\ m.kind = "request" BY <1>1 DEF Typed, Shaped, Shape
<1>3. n \in Move /\ n.pc = pc /\ SameMove(m, n) BY <1>2 DEF Move, SameMove
<1> HIDE DEF n
<1>4. Shape(n) BY <1>2, <1>3 DEF Shape, SameMove
<1>5. Fresh(c, n) BY <1>1, <1>3 DEF Fresh, Typed, Shaped, SameMove, Underway
<1>6. Handed(Put(c, n)) BY <1>3, <1>4, <1>5, PutHanded
<1> QED BY <1>6 DEF n

\* What a request does with the answer of revalidateRooms.
LEMMA CheckedHanded ==
    ASSUME NEW c, Good(c), NEW m \in c.moves, m.pc = "checking"
    PROVE  Handed(Checked(c, m))
<1> DEFINE A == c.asked \ {m.id}
           d == [c EXCEPT !.asked = A]
           rest == [d EXCEPT !.moves = d.moves \ {m}]
           n == [m EXCEPT !.pc = "seating"]
<1>1. Typed(c) /\ c \in Client BY GoodIsHanded
<1>2. m.room \in Rooms BY <1>1 DEF Typed, Shaped, Shape
<1>3. \/ Checked(c, m) = rest
      \/ Checked(c, m) = EnterRoom(rest, m.room)
      \/ Checked(c, m) = Put(d, n)
  BY DEF Checked
<1>4. A \in SUBSET Nat BY <1>1 DEF Client
<1> HIDE DEF A
<1>5. Good(d) /\ d.moves = c.moves BY <1>4, NotesGood
<1> HIDE DEF d
<1>6. Good(rest) BY <1>5, DropGood DEF Underway
<1> HIDE DEF rest
<1>7. Handed(rest) BY <1>6, GoodIsHanded
<1>8. Handed(EnterRoom(rest, m.room)) BY <1>2, <1>6, EnterRoomHanded
<1>9. Handed(Put(d, n)) BY <1>5, NextAnswerHanded
<1> QED BY <1>3, <1>7, <1>8, <1>9

\* requestBreakoutRoom after revalidateRooms.
LEMMA RequestCheckedInv ==
    ASSUME IInv, NEW m \in me.moves, RequestChecked(m)
    PROVE  IInv'
<1> DEFINE G == me.gone \cup relay.deleted
           c == [me EXCEPT !.gone = G]
           d == Drop(m)
           H == d.gone \cup relay.deleted
           A == d.asked \ {m.id}
           x == [d EXCEPT !.gone = H, !.asked = A]
<1>1. Good(me) /\ me \in Client BY GoodIsHanded DEF IInv
<1>2. m.pc = "checking" /\ UNCHANGED relay BY DEF RequestChecked
<1>3. \/ Step(Checked(c, m)) /\ UNCHANGED spent
      \/ Step(Checked(me, m)) /\ Fails
      \/ Step(x) /\ UNCHANGED spent
  BY DEF RequestChecked
<1>4. G \in SUBSET Rooms BY <1>1 DEF IInv, Relays, Client
<1> HIDE DEF G
<1>5. Good(c) /\ c.moves = me.moves BY <1>1, <1>4, NotesGood DEF Client
<1> HIDE DEF c
<1>6. Handed(Checked(c, m)) /\ Handed(Checked(me, m)) BY <1>1, <1>2, <1>5, CheckedHanded
<1>7. Good(d) BY <1>1, <1>2, DropGood DEF Drop, Underway
<1>8. d \in Client BY <1>7, GoodIsHanded
<1> HIDE DEF d
<1>9. H \in SUBSET Rooms /\ A \in SUBSET Nat BY <1>8 DEF IInv, Relays, Client
<1> HIDE DEF H, A
<1> DEFINE e == [d EXCEPT !.gone = H]
<1>10. x = [e EXCEPT !.asked = A] BY <1>8 DEF Client
<1>11. Good(e) BY <1>7, <1>9, NotesGood
<1> HIDE DEF e
<1>12. Good([e EXCEPT !.asked = A]) BY <1>9, <1>11, NotesGood
<1> HIDE DEF x
<1>13. Handed(x) BY <1>10, <1>12, GoodIsHanded
<1> QED BY <1>2, <1>3, <1>6, <1>13, StepInv

\* requestBreakoutRoom after its own seatInRoom.
LEMMA SeatAnsweredInv ==
    ASSUME IInv, NEW m \in me.moves, SeatAnswered(m)
    PROVE  IInv'
<1> DEFINE d == Drop(m)
           G == d.gone \cup {m.room}
           j == [me EXCEPT !.joinRequest = m.room]
           n == [m EXCEPT !.pc = "knocking"]
           f == IF m.room \in relay.seats THEN feed ELSE Tell(m.room, TRUE)
<1>1. Good(me) /\ Typed(me) /\ me \in Client BY GoodIsHanded DEF IInv
<1>2. m.pc = "seating" /\ UNCHANGED spent BY DEF SeatAnswered
<1>3. m.room \in Rooms BY <1>1, <1>2 DEF Typed, Shaped, Shape
<1>4. Good(d) BY <1>1, <1>2, DropGood DEF Drop, Underway
<1>5. \/ Step([d EXCEPT !.gone = G]) /\ UNCHANGED relay
      \/ Become(EnterRoom(d, m.room), FALSE, f) /\ relay' = [relay EXCEPT !.seats = @ \cup {m.room}]
      \/ Step(Put(j, n)) /\ UNCHANGED relay
  BY DEF SeatAnswered
<1> HIDE DEF d
<1>6. d \in Client BY <1>4, GoodIsHanded
<1>7. CASE Step([d EXCEPT !.gone = G]) /\ UNCHANGED relay
  <2>1. G \in SUBSET Rooms BY <1>3, <1>6 DEF Client
  <2> HIDE DEF G
  <2>2. Handed([d EXCEPT !.gone = G]) BY <1>4, <2>1, NotesGood, GoodIsHanded
  <2> QED BY <1>2, <1>7, <2>2, StepInv
<1>8. CASE Become(EnterRoom(d, m.room), FALSE, f) /\ relay' = [relay EXCEPT !.seats = @ \cup {m.room}]
  <2>1. f \in Seq(Event) BY <1>3, TellTyped DEF IInv
  <2> HIDE DEF f
  <2>2. relay' \in Relays BY <1>3, <1>8 DEF IInv, Relays
  <2>3. Handed(EnterRoom(d, m.room)) BY <1>3, <1>4, EnterRoomHanded
  <2>4. Good(Effects(me, Continue(EnterRoom(d, m.room)), FALSE)) BY <2>3, HandedSettles
  <2> QED BY <1>2, <1>8, <2>1, <2>2, <2>4, BecomeInv
<1>9. CASE Step(Put(j, n)) /\ UNCHANGED relay
  <2>1. Good(j) /\ j.moves = me.moves BY <1>1, <1>3, NotesGood DEF Client
  <2> HIDE DEF j
  <2>2. Handed(Put(j, n)) BY <1>2, <2>1, NextAnswerHanded
  <2> QED BY <1>2, <1>9, <2>2, StepInv
<1> QED BY <1>5, <1>7, <1>8, <1>9

\* requestBreakoutRoom after the knock.
LEMMA KnockAnsweredInv ==
    ASSUME IInv, NEW m \in me.moves, KnockAnswered(m)
    PROVE  IInv'
<1> DEFINE d == Drop(m)
           G == d.gone \cup {m.room}
           x == [d EXCEPT !.joinRequest = None, !.gone = G]
           f == IF m.room \in relay.seats THEN feed ELSE Tell(m.room, TRUE)
<1>1. Good(me) /\ Typed(me) BY GoodIsHanded DEF IInv
<1>2. m.pc = "knocking" /\ UNCHANGED spent BY DEF KnockAnswered
<1>3. m.room \in Rooms BY <1>1, <1>2 DEF Typed, Shaped, Shape
<1>4. Good(d) BY <1>1, <1>2, DropGood DEF Drop, Underway
<1>5. \/ Step(x) /\ UNCHANGED relay
      \/ Become(d, FALSE, f) /\ relay' = [relay EXCEPT !.seats = @ \cup {m.room}]
  BY DEF KnockAnswered
<1> HIDE DEF d
<1>6. d \in Client BY <1>4, GoodIsHanded
<1>7. CASE Step(x) /\ UNCHANGED relay
  <2> DEFINE j == [d EXCEPT !.joinRequest = None]
  <2>1. x = [j EXCEPT !.gone = G] BY <1>6 DEF Client
  <2>2. G \in SUBSET Rooms BY <1>3, <1>6 DEF Client
  <2> HIDE DEF G
  <2>3. Good(j) BY <1>4, NotesGood
  <2> HIDE DEF j
  <2>4. Handed([j EXCEPT !.gone = G]) BY <2>2, <2>3, NotesGood, GoodIsHanded
  <2> HIDE DEF x
  <2> QED BY <1>2, <1>7, <2>1, <2>4, StepInv
<1>8. CASE Become(d, FALSE, f) /\ relay' = [relay EXCEPT !.seats = @ \cup {m.room}]
  <2>1. f \in Seq(Event) BY <1>3, TellTyped DEF IInv
  <2> HIDE DEF f
  <2>2. relay' \in Relays BY <1>3, <1>8 DEF IInv, Relays
  <2>3. Good(Effects(me, Continue(d), FALSE)) BY <1>4, GoodIsHanded, HandedSettles
  <2> QED BY <1>2, <1>8, <2>1, <2>2, <2>3, BecomeInv
<1> QED BY <1>5, <1>7, <1>8

\* leaveBreakoutRoom after the way back.
LEMMA SeatGivenUpInv ==
    ASSUME IInv, NEW m \in me.moves, SeatGivenUp(m)
    PROVE  IInv'
<1> DEFINE d == Drop(m)
           f == IF m.room \in relay.seats THEN Tell(m.room, FALSE) ELSE feed
<1>1. Good(me) /\ Typed(me) BY GoodIsHanded DEF IInv
<1>2. m.pc = "giving up" BY DEF SeatGivenUp
<1>3. m.room \in Rooms
  <2>1. m \in Move /\ m.room # None BY <1>1, <1>2 DEF Typed, Shaped, Shape
  <2> QED BY <2>1 DEF Move
<1>4. Good(d) BY <1>1, <1>2, DropGood DEF Drop, Underway
<1>5. \/ relay' = [relay EXCEPT !.seats = @ \ {m.room}] /\ Become(d, FALSE, f) /\ UNCHANGED spent
      \/ Step(d) /\ UNCHANGED relay /\ Fails
  BY DEF SeatGivenUp
<1> HIDE DEF d
<1>6. CASE relay' = [relay EXCEPT !.seats = @ \ {m.room}] /\ Become(d, FALSE, f) /\ UNCHANGED spent
  <2>1. f \in Seq(Event) BY <1>3, TellTyped DEF IInv
  <2> HIDE DEF f
  <2>2. relay' \in Relays BY <1>6 DEF IInv, Relays
  <2>3. Good(Effects(me, Continue(d), FALSE)) BY <1>4, GoodIsHanded, HandedSettles
  <2> QED BY <1>6, <2>1, <2>2, <2>3, BecomeInv
<1>7. CASE Step(d) /\ UNCHANGED relay /\ Fails
  <2>1. Handed(d) BY <1>4, GoodIsHanded
  <2> QED BY <1>7, <2>1, StepInv
<1> QED BY <1>5, <1>6, <1>7

\* Every step of an async function keeps the invariant.
LEMMA MoveStepInv ==
    ASSUME IInv, NEW m \in me.moves, MoveStep(m)
    PROVE  IInv'
<1>1. Good(me) BY DEF IInv
<1>2. CASE RoomToken(m) BY <1>2, RoomTokenInv
<1>3. CASE MainToken(m)
  <2>1. m.pc = "token" /\ UNCHANGED relay BY <1>3 DEF MainToken
  <2>2. PICK e \in {None, "failed"} : Step(TokenArrives(me, m, e)) /\ (UNCHANGED spent \/ Fails)
    BY <1>3 DEF MainToken
  <2>3. Handed(TokenArrives(me, m, e)) BY <1>1, <2>1, TokenHanded
  <2> QED BY <2>1, <2>2, <2>3, StepInv
<1>4. CASE Connects(m)
  <2>1. m.pc = "connecting" /\ UNCHANGED relay BY <1>4 DEF Connects
  <2>2. Handed(Connected(me, m)) /\ Handed(ConnectFails(me, m))
    BY <1>1, <2>1, ConnectedHanded, ConnectFailsHanded
  <2>3. \/ Step(Connected(me, m)) /\ UNCHANGED spent
        \/ Step(ConnectFails(me, m)) /\ (UNCHANGED spent \/ Fails)
    BY <1>4 DEF Connects
  <2> QED BY <2>1, <2>2, <2>3, StepInv
<1>5. CASE LeavesRoom(m)
  <2>1. m.pc \in Dropping /\ Step(Disconnected(me, m)) /\ UNCHANGED <<relay, spent>> BY <1>5 DEF LeavesRoom
  <2>2. Handed(Disconnected(me, m)) BY <1>1, <2>1, DisconnectedHanded
  <2> QED BY <2>1, <2>2, StepInv
<1>6. CASE DevicesReady(m)
  <2>1. m.pc = "media" /\ Step(MediaReady(me, m)) /\ UNCHANGED <<relay, spent>> BY <1>6 DEF DevicesReady
  <2>2. Handed(MediaReady(me, m)) BY <1>1, <2>1, MediaHanded
  <2> QED BY <2>1, <2>2, StepInv
<1>7. CASE RequestChecked(m) BY <1>7, RequestCheckedInv
<1>8. CASE SeatAnswered(m) BY <1>8, SeatAnsweredInv
<1>9. CASE KnockAnswered(m) BY <1>9, KnockAnsweredInv
<1>10. CASE SeatGivenUp(m) BY <1>10, SeatGivenUpInv
<1> QED BY <1>2, <1>3, <1>4, <1>5, <1>6, <1>7, <1>8, <1>9, <1>10 DEF MoveStep

\* What the subscription delivers.
LEMMA DeliverInv ==
    ASSUME IInv, Deliver
    PROVE  IInv'
<1> DEFINE ev == Head(feed)
           x == CASE ev.kind = "roster" -> [me EXCEPT !.roster[ev.room] = IF ev.names THEN "in" ELSE "out"]
                  [] ev.kind = "gone" -> [me EXCEPT !.gone = @ \cup {ev.room}]
                  [] ev.kind = "EOSE" -> [me EXCEPT !.answered = TRUE]
<1>1. Good(me) /\ me \in Client BY GoodIsHanded DEF IInv
<1>2. ev \in Event /\ Tail(feed) \in Seq(Event) BY DEF Deliver, IInv
<1>3. Become(x, ev.kind = "roster", Tail(feed)) /\ UNCHANGED <<relay, spent>> BY DEF Deliver
<1>4. \/ ev.kind = "roster" /\ ev.room \in Rooms
      \/ ev.kind = "gone" /\ ev.room \in Rooms
      \/ ev.kind = "EOSE"
  BY <1>2 DEF Event
<1>5. Good(x)
  <2>1. CASE ev.kind = "roster" /\ ev.room \in Rooms
    <3> DEFINE v == IF ev.names THEN "in" ELSE "out"
    <3>1. v \in {"unknown", "in", "out"} OBVIOUS
    <3>2. x = [me EXCEPT !.roster[ev.room] = v] BY <2>1
    <3> HIDE DEF v, x
    <3> QED BY <1>1, <2>1, <3>1, <3>2, NotesGood
  <2>2. CASE ev.kind = "gone" /\ ev.room \in Rooms
    <3> DEFINE G == me.gone \cup {ev.room}
    <3>1. G \in SUBSET Rooms BY <1>1, <2>2 DEF Client
    <3>2. x = [me EXCEPT !.gone = G] BY <2>2
    <3> HIDE DEF G, x
    <3> QED BY <1>1, <3>1, <3>2, NotesGood
  <2>3. CASE ev.kind = "EOSE"
    <3>1. x = [me EXCEPT !.answered = TRUE] BY <2>3
    <3> HIDE DEF x
    <3> QED BY <1>1, <3>1, NotesGood
  <2> QED BY <1>4, <2>1, <2>2, <2>3
<1> HIDE DEF x
<1>6. Good(Effects(me, Continue(x), ev.kind = "roster")) BY <1>5, GoodIsHanded, HandedSettles
<1>7. relay' \in Relays BY <1>3 DEF IInv
<1> HIDE DEF ev
<1> QED BY <1>2, <1>3, <1>6, <1>7, BecomeInv

\* What the client hears otherwise, and its timers.
LEMMA HeardInv ==
    ASSUME IInv, LearnRooms \/ HostTells \/ Ended \/ GraceOver \/ JoinRequestLapses \/ Deadline
                 \/ \E r \in Rooms : Assigned(r)
    PROVE  IInv'
<1>1. Good(me) /\ me \in Client BY GoodIsHanded DEF IInv
<1>2. CASE LearnRooms
  <2>1. Step([me EXCEPT !.session = TRUE]) /\ UNCHANGED <<relay, spent>> BY <1>2 DEF LearnRooms
  <2>2. Handed([me EXCEPT !.session = TRUE]) BY <1>1, SessionGood, GoodIsHanded
  <2> QED BY <2>1, <2>2, StepInv
<1>3. CASE Ended
  <2>1. Step(ClearSession(me)) /\ UNCHANGED relay /\ HostActs BY <1>3 DEF Ended
  <2>2. Handed(ClearSession(me)) BY <1>1, ClearSessionHanded
  <2> QED BY <2>1, <2>2, StepInv
<1>4. CASE GraceOver
  <2> DEFINE g == [me EXCEPT !.grace = FALSE]
  <2>1. Step(ReturnToMain(g, None, FALSE)) /\ UNCHANGED <<relay, spent>> BY <1>4 DEF GraceOver
  <2>2. Good(g) BY <1>1, NotesGood
  <2> HIDE DEF g
  <2>3. Handed(ReturnToMain(g, None, FALSE)) BY <2>2, ReturnToMainHanded
  <2> QED BY <2>1, <2>3, StepInv
<1>5. CASE JoinRequestLapses
  <2>1. Step([me EXCEPT !.joinRequest = None]) /\ UNCHANGED <<relay, spent>> BY <1>5 DEF JoinRequestLapses
  <2>2. Handed([me EXCEPT !.joinRequest = None]) BY <1>1, NotesGood, GoodIsHanded
  <2> QED BY <2>1, <2>2, StepInv
<1>6. CASE Deadline
  <2> DEFINE c == [me EXCEPT !.deadlineHandled = TRUE]
  <2>1. /\ Step(IF c.current = None THEN ClearSession(c) ELSE ReturnToMain(c, None, TRUE))
        /\ UNCHANGED <<relay, spent>>
    BY <1>6 DEF Deadline
  <2>2. Good(c) BY <1>1, DeadlineGood
  <2> HIDE DEF c
  <2>3. Handed(ClearSession(c)) /\ Handed(ReturnToMain(c, None, TRUE))
    BY <2>2, ClearSessionHanded, ReturnToMainHanded
  <2> QED BY <2>1, <2>3, StepInv
<1>7. CASE \E r \in Rooms : Assigned(r)
  <2>1. PICK r \in Rooms : Assigned(r) BY <1>7
  <2> DEFINE c == Told(me)
             j == [c EXCEPT !.joinRequest = None]
             p == [c EXCEPT !.pending = r]
  <2>2. Step(IF c.joinRequest = r THEN EnterRoom(j, r) ELSE p) /\ UNCHANGED relay /\ HostActs
    BY <2>1 DEF Assigned
  <2>3. Good(c) /\ c.session BY <1>1, ToldGood
  <2> HIDE DEF c
  <2>4. Good(j) BY <2>3, NotesGood
  <2> HIDE DEF j
  <2>5. Handed(EnterRoom(j, r)) BY <2>4, EnterRoomHanded
  <2>6. Handed(p) BY <2>3, PendingGood, GoodIsHanded
  <2> HIDE DEF p
  <2> QED BY <2>2, <2>5, <2>6, StepInv
<1>8. CASE HostTells
  <2> DEFINE t == Told(me)
             G == t.gone \cup relay.deleted
  <2>1. Step([t EXCEPT !.gone = G]) /\ UNCHANGED relay /\ HostActs BY <1>8 DEF HostTells
  <2>2. Good(t) BY <1>1, ToldGood
  <2> HIDE DEF t
  <2>3. G \in SUBSET Rooms BY <2>2, GoodIsHanded DEF Client, IInv, Relays
  <2> HIDE DEF G
  <2>4. Handed([t EXCEPT !.gone = G]) BY <2>2, <2>3, NotesGood, GoodIsHanded
  <2> QED BY <2>1, <2>4, StepInv
<1> QED BY <1>2, <1>3, <1>4, <1>5, <1>6, <1>7, <1>8

\* revalidateRooms after the way home.
LEMMA RevalidatedInv ==
    ASSUME IInv, RoomsRevalidated
    PROVE  IInv'
<1> DEFINE G == me.gone \cup relay.deleted
           x == [me EXCEPT !.checking = FALSE, !.gone = G]
           y == [me EXCEPT !.checking = FALSE]
<1>1. Good(me) /\ me \in Client BY GoodIsHanded DEF IInv
<1>2. G \in SUBSET Rooms BY <1>1 DEF Client, IInv, Relays
<1>3. \/ Step(x) /\ UNCHANGED spent
      \/ Step(y) /\ Fails
  BY DEF RoomsRevalidated
<1>4. UNCHANGED relay BY DEF RoomsRevalidated
<1> HIDE DEF G
<1>5. Handed(x) /\ Handed(y) BY <1>1, <1>2, CheckedGood, GoodIsHanded
<1> HIDE DEF x, y
<1> QED BY <1>3, <1>4, <1>5, StepInv

\* A Room that ends is followed by the effects, which take the seat home.
LEMMA SeatEndsInv ==
    ASSUME IInv, NEW R \in me.up, SeatEnds(R)
    PROVE  IInv'
<1>1. PICK why \in {"deleted", "removed", "dropped"} :
         Step(RoomEnds(me, R, why)) /\ (UNCHANGED spent \/ HostActs \/ Fails)
  BY DEF SeatEnds
<1>2. UNCHANGED relay /\ feed \in Seq(Event) /\ relay' \in Relays BY DEF SeatEnds, IInv
<1>3. Good(Effects(me, Continue(RoomEnds(me, R, why)), FALSE)) BY RoomEndsSettles DEF IInv
<1>4. Become(RoomEnds(me, R, why), FALSE, feed) BY <1>1 DEF Step
<1> QED BY <1>1, <1>2, <1>3, <1>4, BecomeInv

\* What the user presses.
LEMMA UserInv ==
    ASSUME IInv, Accept \/ Decline \/ Back \/ Rejoin \/ HangUp \/ \E r \in Rooms : Request(r)
    PROVE  IInv'
<1>1. Good(me) /\ me \in Client /\ Typed(me) /\ (me.pending # None => me.session)
  BY GoodIsHanded DEF IInv, Seat
<1>2. /\ me.pending \in Rooms \cup {None} /\ me.current \in Rooms \cup {None}
  BY <1>1 DEF Client
<1>3. CASE Accept
  <2> DEFINE p == [me EXCEPT !.pending = None]
  <2>1. Step(EnterRoom(p, me.pending)) /\ UNCHANGED <<relay, spent>> /\ me.pending # None BY <1>3 DEF Accept
  <2>2. Good(p) /\ p.session BY <1>1, <2>1, PendingGood
  <2> HIDE DEF p
  <2>3. Handed(EnterRoom(p, me.pending)) BY <1>2, <2>1, <2>2, EnterRoomHanded
  <2> QED BY <2>1, <2>3, StepInv
<1>4. CASE Decline
  <2> DEFINE p == [me EXCEPT !.pending = None]
  <2>1. Step(p) /\ UNCHANGED relay /\ UserActs BY <1>4 DEF Decline
  <2>2. Handed(p) BY <1>1, PendingGood, GoodIsHanded
  <2> HIDE DEF p
  <2> QED BY <2>1, <2>2, StepInv
<1>5. CASE Back
  <2>1. Step(ReturnToMain(me, me.current, FALSE)) /\ UNCHANGED relay /\ UserActs BY <1>5 DEF Back
  <2>2. Handed(ReturnToMain(me, me.current, FALSE)) BY <1>1, <1>2, ReturnToMainHanded
  <2> QED BY <2>1, <2>2, StepInv
<1>6. CASE Rejoin
  <2>1. Step(EnterRoom(me, me.current)) /\ UNCHANGED relay /\ UserActs /\ me.session /\ me.current # None
    BY <1>6 DEF Rejoin
  <2>2. Handed(EnterRoom(me, me.current)) BY <1>1, <1>2, <2>1, EnterRoomHanded
  <2> QED BY <2>1, <2>2, StepInv
<1>7. CASE HangUp
  <2>1. /\ Step(Leave(me, NewMove(me, "leave", None, None))) /\ UNCHANGED relay /\ UserActs
        /\ me.active # None
    BY <1>7 DEF HangUp
  <2>2. Handed(Leave(me, NewMove(me, "leave", None, None))) BY <1>1, <2>1, LeaveHanded
  <2> QED BY <2>1, <2>2, StepInv
<1>8. CASE \E r \in Rooms : Request(r)
  <2>1. PICK r \in Rooms : Request(r) BY <1>8
  <2> DEFINE m == NewMove(me, "request", r, None)
             n == [m EXCEPT !.pc = "checking"]
  <2> DEFINE A == me.asked \cup {n.id}
             a == [me EXCEPT !.asked = A]
  <2>2. Step(Put(a, n)) /\ UNCHANGED relay /\ UserActs BY <2>1 DEF Request
  <2>3. m \in Move BY <1>1, NewMoveIs
  <2>4. m.kind = "request" /\ m.room = r /\ \A k \in me.moves : k.id # m.id
    BY <1>1, NewMoveIsFresh DEF NewMove
  <2> HIDE DEF m
  <2>5. n \in Move /\ n.pc = "checking" /\ n.kind = "request" /\ n.room = r /\ n.id = m.id
    BY <2>3, <2>4 DEF Move
  <2> HIDE DEF n
  <2>6. A \in SUBSET Nat BY <1>1, <2>5 DEF Client, Move
  <2> HIDE DEF A
  <2>7. Good(a) /\ a.moves = me.moves BY <1>1, <2>6, NotesGood
  <2> HIDE DEF a
  <2>8. Shape(n) /\ Fresh(a, n) BY <2>4, <2>5, <2>7 DEF Shape, Fresh
  <2>9. Handed(Put(a, n)) BY <2>5, <2>7, <2>8, PutHanded
  <2> QED BY <2>2, <2>9, StepInv
<1> QED BY <1>3, <1>4, <1>5, <1>6, <1>7, <1>8

\* What host and relay do leaves the client alone.
LEMMA HostInv ==
    ASSUME IInv, TimeIsUp \/ WatchReopens
                 \/ \E r \in Rooms : Seats(r) \/ Unseats(r) \/ Touches(r) \/ Deletes(r)
    PROVE  IInv'
<1>1. /\ Good(me) /\ me' = me
      /\ relay \in Relays /\ watch \in Watches /\ feed \in Seq(Event) /\ spent \in Bounds
  BY DEF IInv, TimeIsUp, WatchReopens, Seats, Unseats, Touches, Deletes
<1>2. Good(me') BY <1>1
<1>3. spent' \in Bounds
  BY <1>1, SpentTyped DEF TimeIsUp, WatchReopens, Seats, Unseats, Touches, Deletes
<1>4. CASE TimeIsUp
  <2>1. relay' \in Relays BY <1>1, <1>4 DEF TimeIsUp, Relays
  <2> QED BY <1>1, <1>2, <1>3, <1>4, <2>1 DEF TimeIsUp, IInv
<1>5. CASE WatchReopens
  <2>1. feed' \in Seq(Event)
    <3>1. \/ \E s \in Orders : feed' = Snapshot(s)
          \/ feed' = <<[kind |-> "EOSE"]>>
      BY <1>5 DEF WatchReopens
    <3>2. <<[kind |-> "EOSE"]>> \in Seq(Event) BY EventsAre
    <3> QED BY <1>1, <3>1, <3>2, SnapshotTyped
  <2> QED BY <1>1, <1>2, <1>3, <1>5, <2>1 DEF WatchReopens, IInv, Watches
<1>6. CASE \E r \in Rooms : Seats(r) \/ Unseats(r) \/ Touches(r) \/ Deletes(r)
  <2>1. PICK r \in Rooms : Seats(r) \/ Unseats(r) \/ Touches(r) \/ Deletes(r) BY <1>6
  <2>2. relay' \in Relays
    <3>1. relay' \in {relay, [relay EXCEPT !.seats = @ \cup {r}], [relay EXCEPT !.seats = @ \ {r}],
                      [relay EXCEPT !.deleted = @ \cup {r}]}
      BY <2>1 DEF Seats, Unseats, Touches, Deletes
    <3>2. [relay EXCEPT !.seats = @ \cup {r}] \in Relays BY <1>1 DEF Relays
    <3>3. [relay EXCEPT !.seats = @ \ {r}] \in Relays BY <1>1 DEF Relays
    <3>4. [relay EXCEPT !.deleted = @ \cup {r}] \in Relays BY <1>1 DEF Relays
    <3> QED BY <1>1, <3>1, <3>2, <3>3, <3>4
  <2>3. /\ Tell(r, TRUE) \in Seq(Event) /\ Tell(r, FALSE) \in Seq(Event)
        /\ Tell(r, r \in relay.seats) \in Seq(Event)
    <3>1. (r \in relay.seats) \in BOOLEAN OBVIOUS
    <3>2. \A b \in BOOLEAN : Tell(r, b) \in Seq(Event) BY <1>1, TellTyped
    <3> QED BY <3>1, <3>2
  <2>4. Append(feed, [kind |-> "gone", room |-> r]) \in Seq(Event) BY <1>1, EventsAre
  <2>5. feed' \in Seq(Event) /\ watch' = watch
    BY <1>1, <2>1, <2>3, <2>4 DEF Seats, Unseats, Touches, Deletes
  <2> QED BY <1>1, <1>2, <1>3, <2>2, <2>5 DEF IInv
<1> QED BY <1>4, <1>5, <1>6

\* The subscription dies, which may count as an answer.
LEMMA WatchDiesInv ==
    ASSUME IInv, WatchDies
    PROVE  IInv'
<1>1. Good(me) BY DEF IInv
<1>2. PICK c \in {me, [me EXCEPT !.answered = TRUE]} : me' = Effects(me, c, FALSE) BY DEF WatchDies
<1>3. Good(c) BY <1>1, NotesGood
<1>4. Good(me') BY <1>2, <1>3, EffectsSound DEF Good
<1>5. spent' \in Bounds BY SpentTyped DEF IInv, WatchDies
<1>6. relay' \in Relays /\ watch' \in Watches BY DEF WatchDies, IInv, Watches
<1>7. feed' \in Seq(Event) BY DEF WatchDies
<1> QED BY <1>4, <1>5, <1>6, <1>7 DEF IInv

\* In the main room, with nothing known.
LEMMA InitInv == Init => IInv
<1> SUFFICES ASSUME Init PROVE IInv OBVIOUS
<1>1. MainRoom \in Room /\ MainRoom.at = Main BY DEF MainRoom, Room, RoomIds, Channels
<1> DEFINE ros == [r \in Rooms |-> "unknown"]
<1>2. ros \in [Rooms -> {"unknown", "in", "out"}] OBVIOUS
<1>3. me = [active |-> Main, phase |-> "ready", error |-> None, reason |-> None, heard |-> TRUE,
            room |-> MainRoom, up |-> {MainRoom}, moves |-> {}, switching |-> FALSE,
            checking |-> FALSE, session |-> FALSE, current |-> None, gone |-> {},
            roster |-> ros, answered |-> FALSE, offered |-> None,
            pending |-> None, joinRequest |-> None, asked |-> {}, grace |-> FALSE, deadlineHandled |-> FALSE,
            odd |-> {}]
  BY DEF Init
<1> HIDE DEF ros
<1>4. me \in Client BY <1>1, <1>2, <1>3 DEF Client, Channels, Phases, Reasons
<1>5. /\ me.active = Main /\ me.phase = "ready" /\ me.reason = None /\ me.heard /\ me.room = MainRoom
      /\ me.up = {MainRoom} /\ me.moves = {} /\ me.current = None /\ me.pending = None
  BY <1>3
<1>6. None # Main /\ MainRoom # None BY <1>1, BreakoutAssumption DEF Channels
<1>7. Typed(me)
  <2>1. Shaped({}) BY FS_EmptySet DEF Shaped
  <2>2. IsFiniteSet({MainRoom}) BY FS_Singleton
  <2> QED BY <1>4, <1>5, <2>1, <2>2 DEF Typed
<1>8. Call(me)
  <2>1. Idle(me) BY <1>5, <1>6 DEF Idle
  <2>2. OneHolds(me) BY <1>5 DEF OneHolds
  <2>3. Tracked(me) BY <1>5, <1>6 DEF Tracked
  <2>4. Paced(me) BY <1>1, <1>5, <1>6 DEF Paced
  <2> QED BY <2>1, <2>2, <2>3, <2>4 DEF Call, Calm
<1>9. Seat(me) BY <1>5 DEF Seat, Moored, Target
<1>10. Good(me) BY <1>5, <1>7, <1>8, <1>9 DEF Good, Sound, Quiet, Home
<1>11. relay \in Relays BY BreakoutAssumption DEF Init, Relays
<1>12. spent \in Bounds BY BreakoutAssumption DEF Init, Bounds
<1> QED BY <1>10, <1>11, <1>12 DEF Init, IInv, Watches

\* The inductive step, action by action.
LEMMA NextInv == IInv /\ [Next]_vars => IInv'
<1> SUFFICES ASSUME IInv, [Next]_vars PROVE IInv' OBVIOUS
<1>1. ASSUME NEW m \in me.moves, MoveStep(m) PROVE IInv' BY <1>1, MoveStepInv
<1>2. CASE Deliver BY <1>2, DeliverInv
<1>3. CASE LearnRooms \/ HostTells \/ Ended \/ GraceOver \/ JoinRequestLapses \/ Deadline \/ \E r \in Rooms : Assigned(r)
  BY <1>3, HeardInv
<1>4. CASE RoomsRevalidated BY <1>4, RevalidatedInv
<1>5. ASSUME NEW R \in me.up, SeatEnds(R) PROVE IInv' BY <1>5, SeatEndsInv
<1>6. CASE Accept \/ Decline \/ Back \/ Rejoin \/ HangUp \/ \E r \in Rooms : Request(r)
  BY <1>6, UserInv
<1>7. CASE TimeIsUp \/ WatchReopens \/ \E r \in Rooms : Seats(r) \/ Unseats(r) \/ Touches(r) \/ Deletes(r)
  BY <1>7, HostInv
<1>8. CASE WatchDies BY <1>8, WatchDiesInv
<1>9. CASE UNCHANGED vars BY <1>9 DEF vars, IInv
<1> QED BY <1>1, <1>2, <1>3, <1>4, <1>5, <1>6, <1>7, <1>8, <1>9 DEF Next

----------------------------------------------------------------------------
(* The theorems. *)

\* The inductive invariant holds in every state, for any rooms and bounds.
LEMMA Invariant == Spec => []IInv
<1>1. Init => IInv BY InitInv
<1>2. IInv /\ [Next]_vars => IInv' BY NextInv
<1> QED BY <1>1, <1>2, PTL DEF Spec

\* The store's record, the relay, the subscription and its messages keep their types.
THEOREM TypeCorrect == Spec => []TypeOK
<1>1. IInv => TypeOK BY GoodIsHanded DEF IInv, TypeOK, Relays, Watches, Bounds
<1> QED BY <1>1, Invariant, PTL

\* No Room is left connected behind the call: at rest, and unless two joins had
\* a Room at once, what is connected is the tracked Room, an idle call has
\* none, and a call that is live has the Room of its own channel
\* (leaveGroupCall, connectToRoom and the tear-down of a stale join).
THEOREM NoGhostTheorem == Spec => []NoGhost
<1>1. ASSUME IInv, AtRest, "overlap" \notin me.odd
      PROVE  /\ me.up = IF me.room = None THEN {} ELSE {me.room}
             /\ me.phase = "idle" => me.room = None
             /\ me.phase = "ready" => me.room # None /\ me.room.at = me.active
  <2>1. Calm(me) /\ Idle(me) /\ me \in Client BY <1>1, GoodIsHanded DEF IInv, Call
  <2>2. me.moves = {} BY <1>1 DEF AtRest
  <2>3. me.up \subseteq {me.room} /\ (me.room # None => me.up # {}) BY <2>1, <2>2 DEF Calm, Tracked
  <2>4. me.room = None => me.up = {} BY <2>1, <2>3, NoneConnected
  <2>5. me.up = IF me.room = None THEN {} ELSE {me.room} BY <2>3, <2>4
  <2>6. me.phase = "idle" => me.room = None BY <2>1, <2>2 DEF Calm, Tracked, Idle
  <2>7. me.phase = "ready" => me.room # None /\ me.room.at = me.active BY <2>1, <2>2 DEF Calm, Paced
  <2> QED BY <2>5, <2>6, <2>7
<1>2. IInv => NoGhost BY <1>1 DEF NoGhost
<1> QED BY <1>2, Invariant, PTL

\* The pointer of the breakout store is the room the call is in, the main room
\* without one: enterRoom and returnToMain move it before the call, and every
\* way a switch can end brings the two together again.
THEOREM CurrentIsTheCallTheorem == Spec => []CurrentIsTheCall
<1>1. IInv => CurrentIsTheCall
  BY GoodIsHanded DEF IInv, CurrentIsTheCall, Seat, Moored, Target
<1> QED BY <1>1, Invariant, PTL

\* A seat is not left on the error screen of a room, nor on the end screen of
\* one it was put out of: enterRoom comes back after an error, the effect on an
\* ended seat takes it to the main room.
THEOREM NotStrandedTheorem == Spec => []NotStranded
<1>1. IInv => NotStranded BY DEF IInv, Good, Home, NotStranded
<1> QED BY <1>1, Invariant, PTL

\* At every moment, also in the middle of a move: unless two joins had a Room at
\* once, the client is connected to no Room but the tracked one.
OneSeat == "overlap" \notin me.odd => me.up \subseteq {me.room}

\* Nobody is seen in two rooms at once: a move disconnects the Room it leaves
\* before it connects the next (leaveGroupCall, connectToRoom).
THEOREM OneSeatTheorem == Spec => []OneSeat
<1>1. IInv => OneSeat BY GoodIsHanded DEF IInv, OneSeat, Call, Calm, Tracked
<1> QED BY <1>1, Invariant, PTL

\* At every moment: the call is where the pointer is or nowhere, and a pointer to a
\* room or a move into one belongs to a session.
PointerLeads ==
    me.odd \cap {"crossed", "unmoored"} = {} =>
        /\ me.active \in {None, Target(me)}
        /\ me.current # None => me.session
        /\ \A m \in me.moves : m.kind = "enter" => me.session

\* The pointer is ahead of the call in every move, never behind it: enterRoom and
\* returnToMain set it before they switch, and no step in between puts the call
\* elsewhere or forgets the session under a move.
THEOREM PointerLeadsTheorem == Spec => []PointerLeads
<1>1. IInv => PointerLeads BY GoodIsHanded DEF IInv, PointerLeads, Seat, Moored
<1> QED BY <1>1, Invariant, PTL
=============================================================================
