----------------------------- MODULE GroupCall -----------------------------
(***************************************************************************)
(* The call store of one client, groups/group-call.svelte.js, over the     *)
(* connection service, services/livekit-connection.svelte.js: what each    *)
(* step of joining, switching and leaving does to the client's record.     *)
(*                                                                         *)
(* A join awaits its token, the disconnect of a Room it replaces, the      *)
(* connect, the camera and microphone.  Another join or a leave may come   *)
(* at each of them; it makes the older one stale (`attempt`), which the    *)
(* older one finds out at its next step.                                   *)
(***************************************************************************)
EXTENDS Naturals, FiniteSets

CONSTANTS
    Main,       \* the channel whose call it is
    Rooms,      \* its breakout rooms, by number
    None        \* null

Channels == Rooms \cup {Main}

\* A LiveKit Room object that is connected, with the channel it is a seat in.
RoomIds == Nat \ {0}
Room == [id : RoomIds, at : Channels]

\* A number that none of S has.
FreshId(S) == CHOOSE i \in 1..(Cardinality(S) + 1) : \A x \in S : x.id # i

Phases == {"idle", "requesting", "ready", "ended", "error"}
Reasons == {None, "deleted", "removed", "dropped"}
\* Where a join is: waiting in endCall, for its token, in connectToRoom for the
\* Room it replaces, for the connect, for the devices, in the disconnect of a
\* join that has become stale; "returned" hands over to its caller.
JoinPcs == {"leaving", "token", "clearing", "connecting", "media", "tearing", "returned"}
\* It belongs to an attempt, or has `room.disconnect()` to wait for.
Begun == {"token", "clearing", "connecting", "media"}
Dropping == {"leaving", "clearing", "tearing"}

Live(c) == c.phase \in {"requesting", "ready"}

Put(c, m) == [c EXCEPT !.moves = {k \in @ : k.id # m.id} \cup {m}]
Returned(c, m) == Put(c, [m EXCEPT !.pc = "returned", !.drop = None])

\* attempt++: every join under way is stale from now on, and so is the
\* listener of the Room it connected.
NextAttempt(c) ==
    [c EXCEPT !.heard = FALSE,
              !.moves = {[m EXCEPT !.stale = @ \/ m.pc \in Begun] : m \in @}]

\* endCall, up to its await.
EndCall(c) == [NextAttempt(c) EXCEPT !.active = None, !.phase = "idle", !.error = None]

\* connectToRoom, up to its first await.
ConnectToRoom(c, m) ==
    IF c.room = None THEN Put([c EXCEPT !.reason = None], [m EXCEPT !.pc = "connecting", !.drop = None])
    ELSE Put(c, [m EXCEPT !.pc = "clearing", !.drop = c.room])

\* The token is there: the seat counts as live, and connects.
Granted(c, m) == ConnectToRoom([c EXCEPT !.phase = "ready", !.heard = TRUE], m)

\* A join begins while an older one has a Room to connect or to tear down.
Overtakes(c, m) ==
    \E k \in c.moves : k.id # m.id /\ k.pc \in {"clearing", "connecting", "media", "tearing"}

\* joinGroupCall from its own attempt on; there is nothing to do for a
\* channel that is live already.
Begin(c, m) ==
    IF c.active = m.to /\ Live(c) THEN Returned(c, m)
    ELSE LET b == [NextAttempt(c) EXCEPT
                     !.active = m.to, !.phase = "requesting", !.error = None,
                     !.odd = IF Overtakes(c, m) THEN @ \cup {"overlap"} ELSE @]
             own == [m EXCEPT !.stale = FALSE]
         IN IF m.token THEN Granted(b, own) ELSE Put(b, [own EXCEPT !.pc = "token", !.drop = None])

\* joinGroupCall: the call of another channel is left first.
Join(c, m) ==
    IF c.active \notin {None, m.to} THEN Put(EndCall(c), [m EXCEPT !.pc = "leaving", !.drop = c.room])
    ELSE Begin(c, m)

\* switchGroupCall: nothing without a call, which is also the moment in which
\* another switch has left one call and not yet joined the next.
SwitchGroupCall(c, m) ==
    IF c.active = None THEN Returned([c EXCEPT !.odd = @ \cup {"crossed"}], m) ELSE Join(c, m)

\* requestGroupCallToken resolves or rejects.
TokenArrives(c, m, error) ==
    IF m.stale THEN Returned(c, m)
    ELSE IF error = None THEN Granted(c, m)
    ELSE Returned([c EXCEPT !.phase = "error", !.error = error], m)

\* room.disconnect() resolves, in disconnectFromRoom: whatever `room` is by now
\* is forgotten.  Then endCall, connectToRoom or the stale join goes on.
Disconnected(c, m) ==
    LET d == [c EXCEPT !.up = @ \ {m.drop}, !.room = IF m.drop = None THEN @ ELSE None, !.reason = None]
    IN CASE m.pc = "leaving" -> IF m.to = None THEN Returned(d, m) ELSE Begin(d, m)
         [] m.pc = "clearing" -> Put(d, [m EXCEPT !.pc = "connecting", !.drop = None])
         [] m.pc = "tearing" -> Returned(d, m)

FreshRoom(c, at) == [id |-> FreshId(c.up), at |-> at]

\* newRoom.connect resolves: the Room is tracked, whoever owns the call by now.
Connected(c, m) ==
    LET R == FreshRoom(c, m.to)
    IN Put([c EXCEPT !.up = @ \cup {R}, !.room = R], [m EXCEPT !.pc = "media"])

ConnectFails(c, m) ==
    Returned(IF m.stale THEN c ELSE [c EXCEPT !.phase = "error", !.error = "failed"], m)

\* Mutant: the Room of a stale join is left connected.
MediaReady_keeps(c, m) == Returned(c, m)

\* connectToRoom resolves: a stale join tears the Room down again.
MediaReady(c, m) ==
    IF m.stale /\ c.room # None THEN Put(c, [m EXCEPT !.pc = "tearing", !.drop = c.room])
    ELSE Returned(c, m)

\* A Room is ended by the server or the network.  Only the tracked one counts,
\* and only while no disconnect of our own is running.
RoomEnds(c, R, why) ==
    LET unexpected == c.room = R /\ ~\E m \in c.moves : m.pc \in Dropping /\ m.drop # None
        d == [c EXCEPT !.up = @ \ {R}, !.reason = why]
    IN IF ~unexpected THEN d
       ELSE [d EXCEPT !.room = None, !.phase = IF c.heard THEN "ended" ELSE @]

\* leaveGroupCall: `m` is the leave itself, it joins nothing after.
Leave(c, m) == Put(EndCall(c), [m EXCEPT !.pc = "leaving", !.to = None, !.drop = c.room])
=============================================================================
