----------------------------- MODULE CordnGroups -----------------------------
(***************************************************************************)
(* One end-to-end encrypted group of lib/cordn: the devices that run       *)
(* CordnGroupsClient, and the coordinator, which only orders what is       *)
(* posted.  A commit moves the group to a new epoch; a payload opens only  *)
(* under the epoch it was sealed with.                                     *)
(*                                                                         *)
(* An epoch is named by the cursor of the commit that began it, 0 at the   *)
(* creation of the group.  Every read-await-write section of a client runs *)
(* under its stateLock; polls are answered outside it and ingested inside. *)
(* Groups linked by multi-device sync (viaSync) are not modelled here.     *)
(***************************************************************************)
EXTENDS Naturals, Sequences

CONSTANTS
    Devices,     \* accounts running this client, one device each
    Creator,     \* the device that created the group
    Guests,      \* people who may be added but run no client here
    MaxAsks,     \* bound: what users ask for, over all devices
    MaxPolls,    \* bound: poll answers waiting for the lock of one device
    MaxMishaps   \* bound: coordinator calls that fail or lose their answer, and reloads

ASSUME CordnAssumption ==
    /\ Creator \in Devices
    /\ MaxAsks \in Nat /\ MaxPolls \in Nat /\ MaxMishaps \in Nat

Person == Devices \cup Guests
Leaf == Devices \X Nat       \* the member a key package became: owner and number
Welcome == [to : Person, after : Nat, ref : Nat]
Message == [kind : {"text", "commit"}, by : Leaf, epoch : Nat, gen : Nat,
            tip : Nat]       \* tip: the group's epoch after it (history)
View == [in : BOOLEAN, leaf : Nat, cursor : Nat, epoch : Nat,
         sent : Nat, used : SUBSET (Leaf \X Nat), shown : Seq(Nat)]

Task == [op : {"send"}] \cup [op : {"add"}, who : Person]
        \cup [op : {"accept"}, welcome : Welcome]
        \cup [op : {"ingest"}, from : Nat, upto : Nat]
Phases == {"post", "sent", "welcome", "clean", "dirty", "save", "ack"}
\* A section that holds the lock; at is the cursor it got or reads next.
Section == [task : Task, phase : Phases, epoch : Nat, gen : Nat, at : Nat, ref : Nat]

VARIABLES
    log,       \* the coordinator's messages of the group, by cursor
    welcomes,  \* welcomes it stores
    package,   \* person -> state of their key package
    ref,       \* person -> number of that key package
    view,      \* device -> its group record and MLS state, in memory
    disk,      \* device -> the same in IndexedDB
    posted,    \* device -> postedCiphertexts
    listed,    \* device -> the welcomes its client last fetched
    tasks,     \* device -> sections waiting for stateLock
    running,   \* device -> sections holding it
    asks, mishaps,
    strayed,   \* device -> it lost the group's epoch in one of the known ways (history)
    passed,    \* device -> cursors its own posts moved it past unread (history)
    joined     \* device -> cursor of the welcome it accepted (history)

vars == <<log, welcomes, package, ref, view, disk, posted, listed, tasks, running,
          asks, mishaps, strayed, passed, joined>>
coordinator == <<log, welcomes, package, ref>>
budget == <<asks, mishaps>>
history == <<strayed, passed, joined>>

Outside == [in |-> FALSE, leaf |-> 0, cursor |-> 0, epoch |-> 0,
            sent |-> 0, used |-> {}, shown |-> <<>>]
Created == [Outside EXCEPT !.in = TRUE]

\* The epoch the posted commits define after cursor c.
Canon(c) == IF c = 0 THEN 0 ELSE log[c].tip

Init ==
    /\ log = <<>> /\ welcomes = {}
    /\ package = [p \in Person |-> IF p = Creator THEN "taken" ELSE "offered"]
    /\ ref = [p \in Person |-> 0]
    /\ view = [d \in Devices |-> IF d = Creator THEN Created ELSE Outside]
    /\ disk = view
    /\ posted = [d \in Devices |-> {}] /\ listed = posted
    /\ tasks = [d \in Devices |-> <<>>] /\ running = [d \in Devices |-> {}]
    /\ asks = 0 /\ mishaps = 0
    /\ strayed = [d \in Devices |-> FALSE]
    /\ passed = [d \in Devices |-> {}]
    /\ joined = [d \in Devices |-> 0]

-----------------------------------------------------------------------------
\* The lock and its queue.

\* Mutant: sections do not exclude each other.
Free_any(d) == TRUE
\* No section holds stateLock.
Free(d) == running[d] = {}

\* The next section of the queue, one of op, starts.
Take(d, op) ==
    /\ Free(d) /\ tasks[d] # <<>> /\ Head(tasks[d]).op = op
    /\ tasks' = [tasks EXCEPT ![d] = Tail(tasks[d])]

Enter(d, s) == running' = [running EXCEPT ![d] = running[d] \cup {s}]
Advance(d, s, next) == running' = [running EXCEPT ![d] = (running[d] \ {s}) \cup {next}]
\* The section ends, with or without an error: the next one may start.
Leave(d, s) == running' = [running EXCEPT ![d] = running[d] \ {s}]

Fresh(d, t, phase) ==
    [task |-> t, phase |-> phase, epoch |-> view[d].epoch, gen |-> view[d].sent,
     at |-> 0, ref |-> 0]

-----------------------------------------------------------------------------
\* What the user asks for, and the poll timer.

UserTasks(d) == IF view[d].in THEN [op : {"send"}] \cup [op : {"add"}, who : Person \ {d}] ELSE {}

\* refreshWelcomes: what the coordinator has for d.
Pending(d) == {w \in welcomes : w.to = d}

\* The user accepts a welcome of the client's list, which is as old as its last
\* refreshWelcomes: an earlier accept's list, or one fetched since.
Ask(d) ==
    /\ asks < MaxAsks /\ asks' = asks + 1
    /\ \/ \E t \in UserTasks(d) : tasks' = [tasks EXCEPT ![d] = Append(tasks[d], t)] /\ UNCHANGED listed
       \/ \E list \in {listed[d], Pending(d)} : \E w \in list :
             /\ tasks' = [tasks EXCEPT ![d] = Append(tasks[d], [op |-> "accept", welcome |-> w])]
             /\ listed' = [listed EXCEPT ![d] = list]
    /\ UNCHANGED <<coordinator, view, disk, posted, running, mishaps, history>>

\* Mutant: fetchCursor moves when the poll is answered, before the lock.
Poll_advances(d) ==
    /\ view[d].in
    /\ Len(SelectSeq(tasks[d], LAMBDA t : t.op = "ingest")) < MaxPolls
    /\ \E upto \in view[d].cursor + 1..Len(log) :
          /\ tasks' = [tasks EXCEPT ![d] =
                       Append(tasks[d], [op |-> "ingest", from |-> view[d].cursor + 1, upto |-> upto])]
          /\ view' = [view EXCEPT ![d].cursor = upto]
    /\ UNCHANGED <<coordinator, disk, posted, listed, running, budget, history>>

\* poll() was answered with the messages up to some cursor: they queue for the lock.
Poll(d) ==
    /\ view[d].in
    /\ Len(SelectSeq(tasks[d], LAMBDA t : t.op = "ingest")) < MaxPolls
    /\ \E upto \in view[d].cursor + 1..Len(log) :
          tasks' = [tasks EXCEPT ![d] =
                       Append(tasks[d], [op |-> "ingest", from |-> view[d].cursor + 1, upto |-> upto])]
    /\ UNCHANGED <<coordinator, view, disk, posted, listed, running, budget, history>>

-----------------------------------------------------------------------------
\* send and addMemberToGroup: read the state, post, write the new state back.

BeginSend(d) ==
    /\ Take(d, "send") /\ Enter(d, Fresh(d, Head(tasks[d]), "post"))
    /\ UNCHANGED <<coordinator, view, disk, posted, listed, budget, history>>

\* The key package of the new member is taken from the coordinator for good.
BeginAdd(d) ==
    /\ Take(d, "add")
    /\ LET t == Head(tasks[d])
       IN IF package[t.who] = "offered"
          THEN /\ package' = [package EXCEPT ![t.who] = "taken"]
               /\ Enter(d, [Fresh(d, t, "post") EXCEPT !.ref = ref[t.who]])
          ELSE UNCHANGED <<package, running>>
    /\ UNCHANGED <<log, welcomes, ref, view, disk, posted, listed, budget, history>>

Posts(d, s) ==
    [kind |-> IF s.task.op = "add" THEN "commit" ELSE "text",
     by |-> <<d, view[d].leaf>>, epoch |-> s.epoch, gen |-> s.gen,
     tip |-> IF s.task.op = "add" /\ s.epoch = Canon(Len(log))
             THEN Len(log) + 1 ELSE Canon(Len(log))]

\* The coordinator stores the message under the next cursor, whatever its epoch.
Land(d) ==
    /\ \E s \in running[d] :
          /\ s.phase = "post"
          /\ log' = Append(log, Posts(d, s))
          /\ Advance(d, s, [s EXCEPT !.phase = "sent", !.at = Len(log) + 1])
    /\ posted' = [posted EXCEPT ![d] = posted[d] \cup {Len(log) + 1}]
    /\ UNCHANGED <<welcomes, package, ref, view, disk, listed, tasks, budget, history>>

\* Mutant: the cursor moves past the posted message, as if `after` were inclusive.
AfterPost_next(cursor, at) == IF at > cursor THEN at + 1 ELSE cursor
\* The cursor moves to the posted message, past whatever came before it.
AfterPost(cursor, at) == IF at > cursor THEN at ELSE cursor

Answer(d) ==
    /\ \E s \in running[d] :
          /\ s.phase = "sent"
          /\ IF s.task.op = "send"
             THEN /\ view' = [view EXCEPT ![d].epoch = s.epoch, ![d].sent = s.gen + 1,
                                          ![d].cursor = AfterPost(view[d].cursor, s.at),
                                          ![d].shown = Append(view[d].shown, s.at)]
                  /\ Advance(d, s, [s EXCEPT !.phase = "save"])
             ELSE /\ view' = [view EXCEPT ![d].epoch = s.at, ![d].sent = 0, ![d].used = {},
                                          ![d].cursor = AfterPost(view[d].cursor, s.at)]
                  /\ Advance(d, s, [s EXCEPT !.phase = "welcome"])
          /\ strayed' = [strayed EXCEPT ![d] = @ \/ Canon(s.at - 1) # s.epoch]
          /\ passed' = [passed EXCEPT ![d] = @ \cup (view[d].cursor + 1..s.at - 1)]
    /\ UNCHANGED <<coordinator, disk, posted, listed, tasks, budget, joined>>

StoreWelcome(d) ==
    /\ \E s \in running[d] :
          /\ s.phase = "welcome"
          /\ welcomes' = welcomes \cup {[to |-> s.task.who, after |-> s.at, ref |-> s.ref]}
          /\ Advance(d, s, [s EXCEPT !.phase = "save"])
    /\ UNCHANGED <<log, package, ref, view, disk, posted, listed, tasks, budget, history>>

-----------------------------------------------------------------------------
\* acceptWelcome.

\* The state of a member that joins by welcome w.  A group row it already has
\* stays the first of the two, with its cursor and messages.
JoinedBy(v, w) ==
    [in |-> TRUE, leaf |-> w.ref, epoch |-> w.after, sent |-> 0, used |-> {},
     cursor |-> IF v.in THEN v.cursor ELSE w.after, shown |-> v.shown]

BeginAccept(d) ==
    /\ Take(d, "accept")
    /\ LET t == Head(tasks[d])
           w == t.welcome
       IN IF package[d] # "none" /\ w.ref = ref[d]
          THEN /\ view' = [view EXCEPT ![d] = JoinedBy(view[d], w)]
               /\ Enter(d, Fresh(d, t, "save"))
               /\ strayed' = [strayed EXCEPT ![d] = @ \/ view[d].in \/ Canon(w.after) # w.after]
               /\ joined' = [joined EXCEPT ![d] = w.after]
          ELSE UNCHANGED <<view, running, strayed, joined>>
    /\ UNCHANGED <<coordinator, disk, posted, listed, budget, passed>>

\* persistGroups.  Only acceptWelcome goes on after it.
Save(d) ==
    /\ \E s \in running[d] :
          /\ s.phase = "save"
          /\ disk' = [disk EXCEPT ![d] = view[d]]
          /\ IF s.task.op = "accept" THEN Advance(d, s, [s EXCEPT !.phase = "ack"])
                                     ELSE Leave(d, s)
    /\ UNCHANGED <<coordinator, view, posted, listed, tasks, budget, history>>

\* The welcome is retired and a new key package published.
Ack(d) ==
    /\ \E s \in running[d] :
          /\ s.phase = "ack"
          /\ welcomes' = welcomes \ {s.task.welcome}
          /\ listed' = [listed EXCEPT ![d] = @ \ {s.task.welcome}]
          /\ Leave(d, s)
    /\ package' = [package EXCEPT ![d] = "offered"]
    /\ ref' = [ref EXCEPT ![d] = ref[d] + 1]
    /\ UNCHANGED <<log, view, disk, posted, tasks, budget, history>>
-----------------------------------------------------------------------------
\* poll: the messages of one answer, in order, under the lock.

BeginIngest(d) ==
    /\ Take(d, "ingest")
    /\ LET t == Head(tasks[d]) IN Enter(d, [Fresh(d, t, "clean") EXCEPT !.at = t.from])
    /\ UNCHANGED <<coordinator, view, disk, posted, listed, budget, history>>

\* Whether message m opens in state v: its seal is of the epoch, and MLS takes
\* neither an own commit nor a generation it has used up.
Opens(v, m, own) ==
    /\ m.epoch = v.epoch
    /\ m.kind = "commit" => m.by # own
    /\ m.kind = "text" => IF m.by = own THEN m.gen >= v.sent ELSE <<m.by, m.gen>> \notin v.used

\* Mutant: what does not open is waited for, as in a viaSync group.
Processed_waits(v, c, own) ==
    LET m == log[c]
    IN IF ~Opens(v, m, own) THEN v
       ELSE IF m.kind = "commit" THEN [v EXCEPT !.cursor = c, !.epoch = c, !.sent = 0, !.used = {}]
       ELSE [v EXCEPT !.cursor = c, !.shown = Append(v.shown, c),
                      !.sent = IF m.by = own THEN m.gen + 1 ELSE v.sent,
                      !.used = IF m.by = own THEN v.used ELSE v.used \cup {<<m.by, m.gen>>}]

\* What #ingest makes of the group and its state; what does not open is skipped.
Processed(v, c, own) ==
    LET m == log[c]
    IN IF ~Opens(v, m, own) THEN [v EXCEPT !.cursor = c]
       ELSE IF m.kind = "commit" THEN [v EXCEPT !.cursor = c, !.epoch = c, !.sent = 0, !.used = {}]
       ELSE [v EXCEPT !.cursor = c, !.shown = Append(v.shown, c),
                      !.sent = IF m.by = own THEN m.gen + 1 ELSE v.sent,
                      !.used = IF m.by = own THEN v.used ELSE v.used \cup {<<m.by, m.gen>>}]

\* Mutant: #ingest does not compare the cursors again.
Stale_not(d, c) == FALSE
\* A message that something since the poll has moved the cursor past.
Stale(d, c) == c <= view[d].cursor

Ingest(d) ==
    /\ \E s \in running[d] :
          /\ s.phase \in {"clean", "dirty"} /\ s.at <= s.task.upto
          /\ IF Stale(d, s.at)
             THEN UNCHANGED view /\ Advance(d, s, [s EXCEPT !.at = s.at + 1])
             ELSE /\ view' = [view EXCEPT ![d] =
                                 IF s.at \in posted[d] THEN [view[d] EXCEPT !.cursor = s.at]
                                 ELSE Processed(view[d], s.at, <<d, view[d].leaf>>)]
                  /\ Advance(d, s, [s EXCEPT !.at = s.at + 1, !.phase = "dirty"])
    /\ UNCHANGED <<coordinator, disk, posted, listed, tasks, budget, history>>

Ingested(d) ==
    /\ \E s \in running[d] :
          /\ s.phase \in {"clean", "dirty"} /\ s.at > s.task.upto
          /\ IF s.phase = "dirty" THEN Advance(d, s, [s EXCEPT !.phase = "save"]) ELSE Leave(d, s)
    /\ UNCHANGED <<coordinator, view, disk, posted, listed, tasks, budget, history>>

-----------------------------------------------------------------------------
\* Failures and reloads.

OwnCommitAfter(d, cursor) ==
    \E c \in cursor + 1..Len(log) : log[c].kind = "commit" /\ log[c].by[1] = d

\* A coordinator call rejects, whether or not it was carried out: the section
\* throws and the lock is released.
Fail(d) ==
    /\ mishaps < MaxMishaps /\ mishaps' = mishaps + 1
    /\ \E s \in running[d] :
          /\ s.phase \in {"post", "sent", "welcome", "ack"}
          /\ Leave(d, s)
          /\ strayed' = [strayed EXCEPT ![d] = @ \/ (s.phase = "sent" /\ s.task.op = "add")]
          /\ \/ UNCHANGED <<welcomes, package, ref>>
             \/ /\ s.phase = "welcome"
                /\ welcomes' = welcomes \cup {[to |-> s.task.who, after |-> s.at, ref |-> s.ref]}
                /\ UNCHANGED <<package, ref>>
             \/ /\ s.phase = "ack"
                /\ welcomes' = welcomes \ {s.task.welcome}
                /\ UNCHANGED <<package, ref>>
             \/ /\ s.phase = "ack"   \* retired, but no package was published
                /\ welcomes' = welcomes \ {s.task.welcome}
                /\ package' = [package EXCEPT ![d] = "none"]
                /\ ref' = [ref EXCEPT ![d] = ref[d] + 1]
    /\ UNCHANGED <<log, view, disk, posted, listed, tasks, asks, passed, joined>>

\* The client starts again from IndexedDB.
Reload(d) ==
    /\ mishaps < MaxMishaps /\ mishaps' = mishaps + 1
    /\ view' = [view EXCEPT ![d] = disk[d]]
    /\ posted' = [posted EXCEPT ![d] = {}] /\ listed' = [listed EXCEPT ![d] = {}]
    /\ tasks' = [tasks EXCEPT ![d] = <<>>] /\ running' = [running EXCEPT ![d] = {}]
    /\ package' = [package EXCEPT ![d] = IF @ = "none" THEN "offered" ELSE @]
    /\ strayed' = [strayed EXCEPT ![d] = @ \/ OwnCommitAfter(d, disk[d].cursor)]
    /\ UNCHANGED <<log, welcomes, ref, disk, asks, passed, joined>>

-----------------------------------------------------------------------------

\* A step of the section that holds the lock, or the start of the next one.
SectionStep(d) ==
    \/ BeginSend(d) \/ BeginAdd(d) \/ BeginAccept(d) \/ BeginIngest(d)
    \/ Land(d) \/ Answer(d) \/ StoreWelcome(d) \/ Save(d) \/ Ack(d)
    \/ Ingest(d) \/ Ingested(d)

Next == \E d \in Devices : Ask(d) \/ Poll(d) \/ SectionStep(d) \/ Fail(d) \/ Reload(d)

Spec == Init /\ [][Next]_vars

\* The 3 s timer polls again and again, and a coordinator call is answered or
\* rejects by its time limit.
FairSpec == Spec /\ \A d \in Devices : WF_vars(Poll(d)) /\ WF_vars(SectionStep(d) \/ Fail(d))

-----------------------------------------------------------------------------

Types ==
    /\ log \in Seq(Message) /\ welcomes \subseteq Welcome
    /\ package \in [Person -> {"none", "offered", "taken"}] /\ ref \in [Person -> Nat]
    /\ view \in [Devices -> View] /\ disk \in [Devices -> View]
    /\ posted \in [Devices -> SUBSET Nat] /\ listed \in [Devices -> SUBSET Welcome]
    /\ tasks \in [Devices -> Seq(Task)] /\ running \in [Devices -> SUBSET Section]
    /\ asks \in 0..MaxAsks /\ mishaps \in 0..MaxMishaps
    /\ strayed \in [Devices -> BOOLEAN] /\ passed \in [Devices -> SUBSET Nat]
    /\ joined \in [Devices -> Nat]

\* Types, and no client is ahead of the coordinator.
TypeOK ==
    /\ Types
    /\ \A d \in Devices : view[d].cursor <= Len(log) /\ disk[d].cursor <= Len(log)

InStep(v) == v.in => v.epoch = Canon(v.cursor)

\* The state lock keeps what it was built for: epoch and fetchCursor move
\* together, in memory and on disk, so that a device never reads on past a
\* commit it has not applied.  Excused is a device that strayed: its own post
\* overtook an unread commit, the answer to its commit or the save of it was
\* lost, or it accepted a welcome twice or into a fork.
KeepsUp == \A d \in Devices : strayed[d] \/ (InStep(view[d]) /\ InStep(disk[d]))

\* The chat shows every message once and in the coordinator's order, however
\* polls, own posts and reloads interleave.
ShownOnce ==
    \A d \in Devices : LET shown == view[d].shown
                       IN \A i, j \in 1..Len(shown) : i < j => shown[i] < shown[j]

\* An earlier text of the same sender, epoch and generation: MLS refuses the second.
Reused(c) == \E b \in 1..c - 1 : /\ log[b].kind = "text" /\ log[b].by = log[c].by
                                 /\ log[b].epoch = log[c].epoch /\ log[b].gen = log[c].gen

\* A device in step shows every text of the others that was sealed for the
\* epoch in force at its cursor, unless its own posts moved it past the text.
Delivered ==
    \A d \in Devices : strayed[d] \/ ~view[d].in \/
        \A c \in joined[d] + 1..view[d].cursor :
            (/\ log[c].kind = "text" /\ log[c].by[1] # d
             /\ log[c].epoch = Canon(c) /\ ~Reused(c))
               => c \in passed[d] \/ \E i \in 1..Len(view[d].shown) : view[d].shown[i] = c

\* The same without the excuse: no client ever reads on past a commit it has
\* not applied.
NeverLeftBehind == \A d \in Devices : InStep(view[d])

\* No error, lost answer or backlog that does not open blocks a client: in the
\* end it has read all that was posted.
CatchesUp == <>[](\A d \in Devices : view[d].in => view[d].cursor = Len(log))
=============================================================================
