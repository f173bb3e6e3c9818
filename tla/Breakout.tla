------------------------------ MODULE Breakout ------------------------------
(***************************************************************************)
(* A member's seat in a call with breakout rooms: the client store         *)
(* groups/breakout.svelte.js over the call store (GroupCall), with the     *)
(* relay that keeps the rooms' rosters and the host who changes them.      *)
(*                                                                         *)
(* The client follows the rosters over a subscription that may die and is  *)
(* reopened, possibly before the connection is authenticated.  Effects run *)
(* after every change of what they read; what they start (enterRoom,       *)
(* returnToMain) awaits tokens and connects, and several of these may be   *)
(* under way at once.                                                      *)
(***************************************************************************)
EXTENDS GroupCall, Sequences

CONSTANTS
    Seated,         \* my seats in the rosters when the client comes, each a set of rooms
    MaxUp,          \* bound: Rooms connected at once
    MaxMoves,       \* bound: async functions under way at once
    MaxHost,        \* bound: changes of the rosters and rooms on the relay
    MaxUser,        \* bound: what the user presses
    MaxFaults,      \* bound: tokens, connects, Rooms and subscriptions lost
    MaxInputs       \* bound: all of these together

ASSUME BreakoutAssumption ==
    /\ Rooms \subseteq Nat /\ IsFiniteSet(Rooms) /\ Rooms # {}
    /\ Seated \subseteq SUBSET Rooms
    /\ Main \notin Rooms /\ None \notin Channels \cup Room
    /\ {MaxMoves, MaxUp, MaxHost, MaxUser, MaxFaults, MaxInputs} \subseteq Nat

VARIABLES
    me,         \* the client, see Client
    relay,      \* rooms whose roster names me, rooms deleted, time is up
    watch,      \* the subscription on the rooms: closed, open, down, blind
    feed,       \* what it still has to deliver
    spent       \* bounds used up

vars == <<me, relay, watch, feed, spent>>

\* enterRoom, returnToMain, leaving the call, requestBreakoutRoom; `room` is
\* the room entered, given up after, or asked for.
Move ==
    [id : Nat \ {0}, kind : {"enter", "return", "leave", "request"},
     pc : JoinPcs \cup {"asking", "checking", "seating", "knocking", "giving up"},
     room : Rooms \cup {None}, to : Channels \cup {None}, token : BOOLEAN, stale : BOOLEAN,
     drop : Room \cup {None}, clear : BOOLEAN]

\* History, read by the properties only: a join overtook one that has a Room to
\* connect or tear down; a switch fell into the moment in which another switch
\* is idle, which refuses it; the session was forgotten in a room, or before one
\* was entered; a token for the next room was refused; the way back was
\* called off by entering the room once more, or one that is gone.
Oddities == {"overlap", "crossed", "unmoored", "refused", "lulled"}

\* `asked`: the requests whose session object is still the one they began with.
Client ==
    [active : Channels \cup {None}, phase : Phases, error : {None, "gone", "failed"},
     reason : Reasons, heard : BOOLEAN, room : Room \cup {None}, up : SUBSET Room,
     moves : SUBSET Move, switching : BOOLEAN, checking : BOOLEAN,
     session : BOOLEAN, current : Rooms \cup {None}, gone : SUBSET Rooms,
     roster : [Rooms -> {"unknown", "in", "out"}], answered : BOOLEAN,
     offered : Rooms \cup {None}, pending : Rooms \cup {None}, joinRequest : Rooms \cup {None},
     asked : SUBSET Nat,
     grace : BOOLEAN, deadlineHandled : BOOLEAN, odd : SUBSET Oddities]

Event == [kind : {"roster"}, room : Rooms, names : BOOLEAN] \cup [kind : {"gone"}, room : Rooms]
         \cup [kind : {"EOSE"}]

MainRoom == [id |-> 1, at |-> Main]

\* In the main room's call; the rooms exist, some may have my seat, the client
\* has not heard of them.
Init ==
    /\ me = [active |-> Main, phase |-> "ready", error |-> None, reason |-> None, heard |-> TRUE,
             room |-> MainRoom, up |-> {MainRoom}, moves |-> {}, switching |-> FALSE,
             checking |-> FALSE, session |-> FALSE, current |-> None, gone |-> {},
             roster |-> [r \in Rooms |-> "unknown"], answered |-> FALSE, offered |-> None,
             pending |-> None, joinRequest |-> None, asked |-> {}, grace |-> FALSE,
             deadlineHandled |-> FALSE, odd |-> {}]
    /\ relay \in [seats : Seated, deleted : {{}}, late : {FALSE}]
    /\ watch = "closed" /\ feed = <<>>
    /\ spent = [host |-> 0, user |-> 0, faults |-> 0]

----------------------------------------------------------------------------
(* The functions of the store, each up to its first await. *)

NewMove(c, kind, r, to) ==
    [id |-> FreshId(c.moves), kind |-> kind, pc |-> "asking",
     room |-> r, to |-> to, token |-> kind = "enter", stale |-> FALSE, drop |-> None, clear |-> FALSE]

ClearSession(c) ==
    [c EXCEPT !.session = FALSE, !.current = None, !.gone = {}, !.roster = [r \in Rooms |-> "unknown"],
              !.answered = FALSE, !.offered = None, !.pending = None, !.joinRequest = None,
              !.asked = {}, !.grace = FALSE, !.deadlineHandled = FALSE,
              !.odd = IF (c.current # None /\ c.active # None) \/ \E m \in c.moves : m.kind = "enter"
                       THEN @ \cup {"unmoored"} ELSE @]

\* learnRooms makes a session object of its own.
Told(c) == [c EXCEPT !.session = TRUE, !.asked = {}]

EnterRoom(c, r) ==
    LET lulled == IF c.grace /\ r \in c.gone \cup {c.current} THEN {"lulled"} ELSE {}
        unmoored == IF c.active # None /\ ~c.session THEN {"unmoored"} ELSE {}
        d == [c EXCEPT !.grace = FALSE, !.odd = @ \cup lulled \cup unmoored]
    IN IF c.active = None THEN d ELSE Put(d, NewMove(c, "enter", r, r))

\* Mutant: onDeadline does not come back to forget the session.
AfterReturn_keeps(c, m) ==
    IF m.room # None /\ ~m.clear THEN Put(c, [m EXCEPT !.pc = "giving up"]) ELSE c

\* What awaited returnToMain goes on: the seat is given up, the session forgotten.
AfterReturn(c, m) ==
    IF m.clear THEN ClearSession(c)
    ELSE IF m.room # None THEN Put(c, [m EXCEPT !.pc = "giving up"])
    ELSE c

\* Mutant: the pointer to the room is not cleared.
ReturnToMain_keeps(c, giveUp, clear) ==
    LET m == [NewMove(c, "return", giveUp, Main) EXCEPT !.clear = clear]
        d == [c EXCEPT !.grace = FALSE]
    IN IF ~c.session THEN d
       ELSE IF c.current = None THEN AfterReturn(d, m)
       ELSE SwitchGroupCall([d EXCEPT !.switching = TRUE], m)

\* returnToMain, for leaveBreakoutRoom (a seat to give up) and onDeadline (clear).
ReturnToMain(c, giveUp, clear) ==
    LET m == [NewMove(c, "return", giveUp, Main) EXCEPT !.clear = clear]
        d == [c EXCEPT !.grace = FALSE]
    IN IF ~c.session THEN d
       ELSE IF c.current = None THEN AfterReturn(d, m)
       ELSE SwitchGroupCall([d EXCEPT !.current = None, !.switching = TRUE], m)

\* Mutant: a room that is gone is not noted, and the way back is not taken.
SwitchEnds_stays(c, m) ==
    LET d == [c EXCEPT !.switching = FALSE, !.moves = @ \ {m}] IN
    IF m.kind = "return"
    THEN AfterReturn([d EXCEPT !.checking = @ \/ (d.session /\ d.current = None)], m) ELSE d

\* Mutant: an error marks the room gone, on the way back too.
SwitchEnds_marks(c, m) ==
    LET d == [c EXCEPT !.switching = FALSE, !.moves = @ \ {m},
                       !.gone = IF c.phase = "error" THEN @ \cup {m.room} ELSE @] IN
    IF m.kind = "enter" THEN IF d.phase = "error" THEN ReturnToMain(d, None, FALSE) ELSE d
    ELSE AfterReturn([d EXCEPT !.checking = @ \/ (d.session /\ d.current = None)], m)

\* switchGroupCall came back: enterRoom goes home after an error, returnToMain
\* asks the relay which rooms are left.
SwitchEnds(c, m) ==
    LET d == [c EXCEPT !.switching = FALSE, !.moves = @ \ {m}] IN
    CASE m.kind = "enter" ->
            IF d.phase # "error" THEN d
            ELSE ReturnToMain([d EXCEPT !.gone = IF d.error = "gone" THEN @ \cup {m.room} ELSE @], None, FALSE)
      [] m.kind = "return" ->
            AfterReturn([d EXCEPT !.checking = @ \/ (d.session /\ d.current = None)], m)
      [] m.kind = "leave" -> [d EXCEPT !.switching = c.switching]

\* The caller of what has returned goes on; its way back may return at once.
ContinueOne(c) ==
    IF \E m \in c.moves : m.pc = "returned"
    THEN SwitchEnds(c, CHOOSE m \in c.moves : m.pc = "returned") ELSE c
Continue(c) == ContinueOne(ContinueOne(c))

----------------------------------------------------------------------------
(* The effects. *)

Standing(c) == Rooms \ c.gone
Lowest(S) == CHOOSE r \in S : \A q \in S : r <= q

\* roomOfPubkey: the first of the rooms whose roster names me.
RoomOfMe(c, S) ==
    LET mine == {r \in S : c.roster[r] = "in"} IN IF mine = {} THEN None ELSE Lowest(mine)

\* Leaving the call altogether forgets the session.  The effect also follows
\* session, pointer and offer while the call is idle, to no purpose: session and
\* offer need a call, and the pointer is set under `switching`, where the effect
\* returns and follows the phase only.
OnIdle(b, c) ==
    IF b.phase # "idle" /\ c.phase = "idle" /\ ~c.switching
       /\ (c.session \/ c.current # None \/ c.pending # None)
    THEN ClearSession(c) ELSE c

\* The server ended the seat in a room.
OnSeatEnded(c) ==
    IF c.current = None \/ c.phase # "ended" THEN c
    ELSE CASE c.reason = "deleted" -> [c EXCEPT !.gone = @ \cup {c.current}]
           [] c.reason = "removed" -> ReturnToMain(c, None, FALSE)
           [] OTHER -> c

\* Mutant: only a delivered roster is looked at, not the end of the replay.
OnRosters_told(b, c, told) ==
    LET elsewhere == RoomOfMe(c, Standing(c) \ {c.current})
        looks == told \/ c.current # b.current \/ c.gone # b.gone
    IN IF ~looks \/ c.current = None \/ ~c.session THEN c
       ELSE IF c.current \in c.gone THEN ReturnToMain(c, None, FALSE)
       ELSE IF ~c.answered \/ c.active = None \/ c.roster[c.current] = "unknown" THEN c
       ELSE IF c.roster[c.current] = "in" THEN [c EXCEPT !.grace = FALSE]
       ELSE IF elsewhere # None THEN EnterRoom(c, elsewhere)
       ELSE [c EXCEPT !.grace = TRUE]

\* In a room: it is gone, its roster names me elsewhere, or no longer.
OnRosters(b, c, told) ==
    LET elsewhere == RoomOfMe(c, Standing(c) \ {c.current})
        looks == told \/ c.current # b.current \/ c.session # b.session \/ c.gone # b.gone
                 \/ c.room # b.room \/ c.answered # b.answered
    IN IF ~looks \/ c.current = None \/ ~c.session THEN c
       ELSE IF c.current \in c.gone THEN ReturnToMain(c, None, FALSE)
       ELSE IF ~c.answered \/ c.active = None \/ c.roster[c.current] = "unknown" THEN c
       ELSE IF c.roster[c.current] = "in" THEN [c EXCEPT !.grace = FALSE]
       ELSE IF elsewhere # None THEN EnterRoom(c, elsewhere)
       ELSE [c EXCEPT !.grace = TRUE]

\* Mutant: one room left that names me counts as the creator's seat.
OnAssigned_any(c) ==
    LET mine == RoomOfMe(c, Standing(c)) IN
    IF ~c.session \/ c.current # None \/ c.switching \/ c.active = None \/ ~c.answered THEN c
    ELSE IF Standing(c) # {} /\ \A r \in Standing(c) : c.roster[r] = "in" THEN c
    ELSE IF mine = None THEN [c EXCEPT !.offered = None]
    ELSE IF c.joinRequest = mine
    THEN EnterRoom([c EXCEPT !.joinRequest = None, !.offered = mine], mine)
    ELSE IF c.offered = mine THEN c
    ELSE [c EXCEPT !.offered = mine, !.pending = mine]

\* In the main room: a roster that names me is my assignment.
OnAssigned(c) ==
    LET mine == RoomOfMe(c, Standing(c)) IN
    IF ~c.session \/ c.current # None \/ c.switching \/ c.active = None \/ ~c.answered THEN c
    ELSE IF Cardinality(Standing(c)) > 1 /\ \A r \in Standing(c) : c.roster[r] = "in" THEN c
    ELSE IF mine = None THEN [c EXCEPT !.offered = None]
    ELSE IF c.joinRequest = mine
    THEN EnterRoom([c EXCEPT !.joinRequest = None, !.offered = mine], mine)
    ELSE IF c.offered = mine THEN c
    ELSE [c EXCEPT !.offered = mine, !.pending = mine]

\* In the main room, every room gone: nothing left to join.
OnAllGone(c) ==
    IF c.session /\ c.current = None /\ Standing(c) = {} THEN ClearSession(c) ELSE c

\* The effects after a change from b to c; `told`: a roster was delivered.
Effects(b, c, told) ==
    LET d == OnSeatEnded(OnIdle(b, c))
    IN OnAllGone(OnAssigned(Continue(OnRosters(b, Continue(d), told))))

\* What the relay replays to a subscription: the rosters and tombstones in any
\* order, then EOSE.
Snapshot(order) ==
    LET state(r) == IF r \in relay.deleted THEN [kind |-> "gone", room |-> r]
                    ELSE [kind |-> "roster", room |-> r, names |-> r \in relay.seats]
    IN [i \in DOMAIN order |-> state(order[i])] \o <<[kind |-> "EOSE"]>>

Orders == {s \in [1..Cardinality(Rooms) -> Rooms] : \A r \in Rooms : \E i \in DOMAIN s : s[i] = r}

\* A step of the client: its own change, the callers that go on, the effects.
\* The subscription follows the session.
Become(c, told, rest) ==
    /\ me' = Effects(me, Continue(c), told)
    /\ Cardinality(me'.moves) <= MaxMoves
    /\ IF me'.session = (watch # "closed") THEN watch' = watch /\ feed' = rest
       ELSE IF me'.session THEN watch' = "open" /\ \E s \in Orders : feed' = Snapshot(s)
       ELSE watch' = "closed" /\ feed' = <<>>

\* A step of the client alone.
Step(c) == Become(c, FALSE, feed)

Spends(who, max) ==
    /\ spent[who] < max /\ spent.host + spent.user + spent.faults < MaxInputs
    /\ spent' = [spent EXCEPT ![who] = @ + 1]
HostActs == Spends("host", MaxHost)
UserActs == Spends("user", MaxUser)
Fails == Spends("faults", MaxFaults)

----------------------------------------------------------------------------
(* Moves go on. *)

Drop(m) == [me EXCEPT !.moves = @ \ {m}]

\* enterRoom has its token: the pointer moves first, then the call.
Switch(m) ==
    SwitchGroupCall([me EXCEPT !.switching = TRUE, !.current = m.room], m)

\* The room's token, asked for while still where the seat was.
RoomToken(m) ==
    /\ m.pc = "asking"
    /\ \/ /\ Step(Switch(m))
          /\ IF m.room \in relay.deleted THEN Fails ELSE UNCHANGED spent
       \/ /\ m.room \in relay.deleted
          /\ Step([Drop(m) EXCEPT !.gone = @ \cup {m.room}])
          /\ UNCHANGED spent
       \/ /\ Step([Drop(m) EXCEPT !.odd = IF me.current = None THEN @ ELSE @ \cup {"refused"}])
          /\ Fails
    /\ UNCHANGED relay

\* The token of joinGroupCall, on the way to the main room.
MainToken(m) ==
    /\ m.pc = "token"
    /\ \/ Step(TokenArrives(me, m, None)) /\ UNCHANGED spent
       \/ Step(TokenArrives(me, m, "failed")) /\ Fails
    /\ UNCHANGED relay

Connects(m) ==
    /\ m.pc = "connecting"
    /\ \/ /\ m.to \notin relay.deleted /\ Cardinality(me.up) < MaxUp
          /\ Step(Connected(me, m)) /\ UNCHANGED spent
       \/ /\ Step(ConnectFails(me, m))
          /\ IF m.to \in relay.deleted THEN UNCHANGED spent ELSE Fails
    /\ UNCHANGED relay

LeavesRoom(m) == m.pc \in Dropping /\ Step(Disconnected(me, m)) /\ UNCHANGED <<relay, spent>>

DevicesReady(m) == m.pc = "media" /\ Step(MediaReady(me, m)) /\ UNCHANGED <<relay, spent>>

\* requestBreakoutRoom after revalidateRooms: nothing for a room that is gone or a
\* session that is another one by now; a room that names me is entered, for
\* another one I try to seat myself.
Checked(c, m) ==
    LET d == [c EXCEPT !.asked = @ \ {m.id}]
        rest == [d EXCEPT !.moves = @ \ {m}]
    IN IF m.room \in c.gone \/ ~(c.session /\ m.id \in c.asked) THEN rest
       ELSE IF c.roster[m.room] = "in" THEN EnterRoom(rest, m.room)
       ELSE Put(d, [m EXCEPT !.pc = "seating"])

\* The relay answers with the tombstones or with nothing; the host may have kept
\* the assignment to themselves (selfJoin).
RequestChecked(m) ==
    /\ m.pc = "checking"
    /\ \/ Step(Checked([me EXCEPT !.gone = @ \cup relay.deleted], m)) /\ UNCHANGED spent
       \/ Step(Checked(me, m)) /\ Fails
       \/ /\ me.roster[m.room] # "in"
          /\ Step([Drop(m) EXCEPT !.gone = @ \cup relay.deleted, !.asked = @ \ {m.id}])
          /\ UNCHANGED spent
    /\ UNCHANGED relay

Tell(r, names) ==
    IF watch = "open" THEN Append(feed, [kind |-> "roster", room |-> r, names |-> names]) ELSE feed

\* seatInRoom: the relay seats whoever is an admin of the channel; whoever is
\* refused asks the host and knocks.
SeatAnswered(m) ==
    /\ m.pc = "seating"
    /\ \/ /\ m.room \in relay.deleted
          /\ Step([Drop(m) EXCEPT !.gone = @ \cup {m.room}]) /\ UNCHANGED relay
       \/ /\ m.room \notin relay.deleted
          /\ Become(EnterRoom(Drop(m), m.room), FALSE,
                    IF m.room \in relay.seats THEN feed ELSE Tell(m.room, TRUE))
          /\ relay' = [relay EXCEPT !.seats = @ \cup {m.room}]
       \/ /\ Step(Put([me EXCEPT !.joinRequest = m.room], [m EXCEPT !.pc = "knocking"]))
          /\ UNCHANGED relay
    /\ UNCHANGED spent

\* knockOnRoom: the relay seats a member of the channel, unless the room is gone.
KnockAnswered(m) ==
    /\ m.pc = "knocking"
    /\ IF m.room \in relay.deleted
       THEN Step([Drop(m) EXCEPT !.joinRequest = None, !.gone = @ \cup {m.room}]) /\ UNCHANGED relay
       ELSE /\ Become(Drop(m), FALSE, IF m.room \in relay.seats THEN feed ELSE Tell(m.room, TRUE))
            /\ relay' = [relay EXCEPT !.seats = @ \cup {m.room}]
    /\ UNCHANGED spent

\* leaveRoom (kind 9022), after the way back.
SeatGivenUp(m) ==
    /\ m.pc = "giving up"
    /\ \/ /\ relay' = [relay EXCEPT !.seats = @ \ {m.room}]
          /\ Become(Drop(m), FALSE, IF m.room \in relay.seats THEN Tell(m.room, FALSE) ELSE feed)
          /\ UNCHANGED spent
       \/ Step(Drop(m)) /\ UNCHANGED relay /\ Fails

MoveStep(m) ==
    \/ RoomToken(m) \/ MainToken(m) \/ Connects(m) \/ LeavesRoom(m) \/ DevicesReady(m)
    \/ RequestChecked(m) \/ SeatAnswered(m) \/ KnockAnswered(m) \/ SeatGivenUp(m)

----------------------------------------------------------------------------
(* What the client hears, and its timers. *)

Deliver ==
    /\ feed # <<>>
    /\ LET ev == Head(feed) IN
       Become(CASE ev.kind = "roster" -> [me EXCEPT !.roster[ev.room] = IF ev.names THEN "in" ELSE "out"]
                [] ev.kind = "gone" -> [me EXCEPT !.gone = @ \cup {ev.room}]
                [] ev.kind = "EOSE" -> [me EXCEPT !.answered = TRUE],
              ev.kind = "roster", Tail(feed))
    /\ UNCHANGED <<relay, spent>>

InMain == me.active = Main /\ me.room # None /\ me.room.at = Main

\* The rooms become known: discoverSession, or the watch on the channel's
\* ephemeral rooms (which like HostTells makes a session anew when one is known).
LearnRooms ==
    /\ InMain /\ me.phase = "ready" /\ me.current = None /\ ~me.session
    /\ relay.deleted # Rooms /\ ~relay.late
    /\ Step([me EXCEPT !.session = TRUE])
    /\ UNCHANGED <<relay, spent>>

\* handleMessage: the host's full picture, a room it does not name is gone.
HostTells ==
    /\ InMain /\ me.current = None /\ relay.deleted # Rooms /\ HostActs
    /\ LET c == [Told(me) EXCEPT !.gone = @ \cup relay.deleted] IN c # me /\ Step(c)
    /\ UNCHANGED relay

\* handleMessage: the host's assignment, sent to the main room after seating me.
Assigned(r) ==
    /\ InMain /\ me.current = None /\ r \in relay.seats /\ HostActs
    /\ LET c == Told(me) IN
       Step(IF c.joinRequest = r THEN EnterRoom([c EXCEPT !.joinRequest = None], r)
            ELSE [c EXCEPT !.pending = r])
    /\ UNCHANGED relay

\* handleMessage: the host has ended the session.
Ended ==
    /\ InMain /\ relay.deleted # {} /\ HostActs
    /\ Step(ClearSession(me))
    /\ UNCHANGED relay

GraceOver ==
    /\ me.grace
    /\ Step(ReturnToMain([me EXCEPT !.grace = FALSE], None, FALSE))
    /\ UNCHANGED <<relay, spent>>

JoinRequestLapses ==
    /\ me.joinRequest # None
    /\ Step([me EXCEPT !.joinRequest = None])
    /\ UNCHANGED <<relay, spent>>

\* onDeadline, for a seat that does not host.
Deadline ==
    /\ relay.late /\ me.session /\ ~me.deadlineHandled
    /\ LET c == [me EXCEPT !.deadlineHandled = TRUE] IN
       Step(IF c.current = None THEN ClearSession(c) ELSE ReturnToMain(c, None, TRUE))
    /\ UNCHANGED <<relay, spent>>

\* revalidateRooms answers with the tombstones, or with nothing.
RoomsRevalidated ==
    /\ me.checking
    /\ \/ Step([me EXCEPT !.checking = FALSE, !.gone = @ \cup relay.deleted])
          /\ UNCHANGED spent
       \/ Step([me EXCEPT !.checking = FALSE]) /\ Fails
    /\ UNCHANGED relay

\* A Room is closed with the group, left for a removal, or lost.
SeatEnds(R) ==
    /\ \/ R.at \in relay.deleted /\ Step(RoomEnds(me, R, "deleted")) /\ UNCHANGED spent
       \/ R.at \in Rooms /\ Step(RoomEnds(me, R, "removed")) /\ HostActs
       \/ Step(RoomEnds(me, R, "dropped")) /\ Fails
    /\ UNCHANGED relay

----------------------------------------------------------------------------
(* What the user presses. *)

\* "Wechseln", pressed or after BREAKOUT_AUTO_SWITCH_MS.
Accept ==
    /\ me.pending # None
    /\ Step(EnterRoom([me EXCEPT !.pending = None], me.pending))
    /\ UNCHANGED <<relay, spent>>

Decline ==
    /\ me.pending # None /\ UserActs
    /\ Step([me EXCEPT !.pending = None])
    /\ UNCHANGED relay

\* leaveBreakoutRoom.
Back ==
    /\ me.session /\ me.current # None /\ me.active # None /\ UserActs
    /\ Step(ReturnToMain(me, me.current, FALSE))
    /\ UNCHANGED relay

\* requestBreakoutRoom.
Request(r) ==
    /\ me.session /\ me.current = None /\ me.joinRequest = None /\ me.active # None
    /\ r \notin me.gone /\ UserActs
    /\ LET m == [NewMove(me, "request", r, None) EXCEPT !.pc = "checking"]
       IN Step(Put([me EXCEPT !.asked = @ \cup {m.id}], m))
    /\ UNCHANGED relay

\* rejoinRoom, from the "call ended" screen.
Rejoin ==
    /\ me.phase = "ended" /\ me.current # None /\ me.session /\ ~me.switching /\ UserActs
    /\ Step(EnterRoom(me, me.current))
    /\ UNCHANGED relay

HangUp ==
    /\ me.active # None /\ UserActs
    /\ Step(Leave(me, NewMove(me, "leave", None, None)))
    /\ UNCHANGED relay

----------------------------------------------------------------------------
(* The host, at the relay, and the connection to it. *)

Seats(r) ==
    /\ r \notin relay.deleted \cup relay.seats /\ HostActs
    /\ relay' = [relay EXCEPT !.seats = @ \cup {r}] /\ feed' = Tell(r, TRUE)
    /\ UNCHANGED <<me, watch>>

Unseats(r) ==
    /\ r \in relay.seats \ relay.deleted /\ HostActs
    /\ relay' = [relay EXCEPT !.seats = @ \ {r}] /\ feed' = Tell(r, FALSE)
    /\ UNCHANGED <<me, watch>>

\* The roster changes for someone else.
Touches(r) ==
    /\ r \notin relay.deleted /\ HostActs /\ watch = "open"
    /\ feed' = Tell(r, r \in relay.seats)
    /\ UNCHANGED <<me, relay, watch>>

Deletes(r) ==
    /\ r \notin relay.deleted /\ HostActs
    /\ relay' = [relay EXCEPT !.deleted = @ \cup {r}]
    /\ feed' = IF watch = "open" THEN Append(feed, [kind |-> "gone", room |-> r]) ELSE feed
    /\ UNCHANGED <<me, watch>>

TimeIsUp ==
    /\ ~relay.late /\ HostActs
    /\ relay' = [relay EXCEPT !.late = TRUE]
    /\ UNCHANGED <<me, watch, feed>>

\* An error counts as an answer, a CLOSED does not.
WatchDies ==
    /\ watch = "open" /\ Fails
    /\ \E c \in {me, [me EXCEPT !.answered = TRUE]} : me' = Effects(me, c, FALSE)
    /\ Cardinality(me'.moves) <= MaxMoves
    /\ watch' = "down" /\ feed' = <<>>
    /\ UNCHANGED relay

\* Reopened; without AUTH the relay answers with nothing.
WatchReopens ==
    /\ \/ watch \in {"down", "blind"} /\ watch' = "open" /\ \E s \in Orders : feed' = Snapshot(s)
       \/ watch = "down" /\ watch' = "blind" /\ feed' = <<[kind |-> "EOSE"]>>
    /\ UNCHANGED <<me, relay, spent>>

Next ==
    \/ \E m \in me.moves : MoveStep(m)
    \/ Deliver \/ LearnRooms \/ HostTells \/ Ended \/ GraceOver \/ JoinRequestLapses \/ Deadline \/ RoomsRevalidated
    \/ \E R \in me.up : SeatEnds(R)
    \/ Accept \/ Decline \/ Back \/ Rejoin \/ HangUp
    \/ \E r \in Rooms : Assigned(r) \/ Request(r) \/ Seats(r) \/ Unseats(r) \/ Touches(r) \/ Deletes(r)
    \/ TimeIsUp \/ WatchDies \/ WatchReopens

Spec == Init /\ [][Next]_vars

\* The client does not stop while it has anything to do: an answer or a connect
\* to wait for, something to hear, a subscription to reopen (authenticated in the
\* end), a timer.
Busy ==
    \/ me.moves # {} \/ feed # <<>> \/ watch \in {"down", "blind"}
    \/ me.grace \/ me.pending # None \/ (relay.late /\ me.session /\ ~me.deadlineHandled)

\* A step that is no input: inputs are bounded, so such steps alone can go on
\* for ever, and what Busy names is one of them.
GoesOn == spent' = spent

\* Weak fairness of GoesOn, with what enables it written out.
Fairness == []<>~Busy \/ []<><<GoesOn>>_vars
FairSpec == Spec /\ Fairness

----------------------------------------------------------------------------
(* Properties. *)

TypeOK ==
    /\ me \in Client
    /\ relay \in [seats : SUBSET Rooms, deleted : SUBSET Rooms, late : BOOLEAN]
    /\ watch \in {"closed", "open", "down", "blind"} /\ feed \in Seq(Event)
    /\ spent \in [host : 0..MaxHost, user : 0..MaxUser, faults : 0..MaxFaults]

AtRest == me.moves = {}

\* "Reset to idle and make sure no Room is left connected": no seat is held on
\* the server but the tracked one, and a call that is idle holds none.
NoGhost ==
    (AtRest /\ "overlap" \notin me.odd) =>
        /\ me.up = IF me.room = None THEN {} ELSE {me.room}
        /\ me.phase = "idle" => me.room = None
        /\ me.phase = "ready" => me.room # None /\ me.room.at = me.active

\* "The room this client's call is in."
CurrentIsTheCall ==
    (AtRest /\ me.odd \cap {"crossed", "unmoored"} = {} /\ me.active # None) =>
        me.active = IF me.current = None THEN Main ELSE me.current

\* "Back to the main room, never the call ended screen": no seat stays on the
\* error screen of a room, or on the end screen of one it was put out of.
NotStranded ==
    (AtRest /\ me.odd \cap {"crossed", "unmoored", "overlap"} = {}) =>
        /\ me.phase = "error" => me.active = Main
        /\ me.phase = "ended" => me.active = Main \/ me.reason = "dropped"

\* A seat does not stay in a room that is deleted or whose roster no longer
\* names it, unless the way back was called off ("lulled": enterRoom stops its
\* timer first) or the token of the next room refused ("refused": no retry), or
\* pointer and call had come apart before ("crossed", "unmoored", "overlap").
SeatFollowsRoster ==
    \A r \in Rooms :
        LET astray == me.active # None /\ me.current = r /\ r \notin relay.seats \ relay.deleted
        IN astray ~> (~astray \/ me.odd # {})

\* In the main room, the one room whose roster names me is offered, with the same
\* exceptions.
AssignmentIsOffered ==
    \A r \in Rooms :
        LET due == /\ me.session /\ me.active = Main /\ me.current = None
                   /\ relay.seats = {r} /\ r \notin relay.deleted
        IN due ~> (~due \/ me.offered = r \/ me.odd # {})

\* Every room deleted, or the time up: the session is over for the seat too, with
\* the same exceptions.
SessionEnds ==
    LET over == me.session /\ (relay.late \/ relay.deleted = Rooms)
    IN over ~> (~over \/ me.odd # {})

\* "Left (or moved on) while the handshake ran: leaveGroupCall's disconnect raced
\* the connect, so tear the fresh Room down again" (group-call.svelte.js): what is
\* torn down is the fresh Room, so a call that is live has its Room.
LiveHasItsRoom ==
    (AtRest /\ me.phase = "ready") => me.room # None /\ me.room.at = me.active
=============================================================================
