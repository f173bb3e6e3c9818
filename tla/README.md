# Verification of the edufeed app

TLA+ models of the concurrent core of the edufeed app, a SvelteKit client for
Nostr: what it keeps in memory, in IndexedDB and on relays while users, other
devices, tabs, relays, signers and reloads interleave. Each model comes with TLC
configurations; for every one of them TLAPS proves the invariants that the runs check for every value
of the constants. `PROJECT.json` lists components, runs, mutants, hazards and theorems,
and maps each definition to the source lines it stands for. Paths below are relative to
`src/src/lib/`.

## 1. Inventory

The app is one JavaScript program per tab. It is event driven: a step runs from one
`await` (or callback) to the next, and everything else may run in between. Tabs share
IndexedDB and localStorage; devices share relays.

| Component | State it keeps | Operations | Talks to |
|---|---|---|---|
| Publish outbox `services/publish-outbox.js` | IndexedDB row per unanswered event; a serial write chain per tab | enqueue, setPendingRelays, markRelayDone, removeEntry, listEntries, replayOutbox | publish service (callers), relays |
| Publish service and event cache `services/publish-service.js`, `stores/event-cache.svelte.js` | event store (memory), batch buffer, nostr-idb queue and rows | publishEvent, publishEventOptimistic with rollback, uncacheEvent, recacheEvent, cacheRequest, replays | outbox, relays, loaders |
| Rail layout sync `rail/*` | account followed, sync status, newest layout, local copy per account | initialize, adopt, publish, cleanup | account manager, signer, relays, event store |
| Cordn encrypted groups `cordn/*` | MLS state and group record per group (memory, IndexedDB), posted ciphertexts, a lock | createGroup, addMember, acceptWelcome, send, poll and ingest, reload | coordinator (RPC) |
| Webxdc session sync `webxdc/group-sync.js` | list of updates, ids seen, backfill state | backfill, live subscription, sendState, stop | groups relay, the sandboxed app |
| Cordn multi-device documents `cordn/multidevice-*.js` | addresses of group documents | syncFromTip, recoverHistory | Blossom servers, relays |
| Inbox and read markers `services/inbox-service.svelte.js` | markers in memory, localStorage, on relays | markAsRead, adopt | relays, other tabs |
| Breakout rooms `groups/breakout*.js` | session, rosters, room of the seat, offers, timers | learn rooms, enter, move, return, knock, deadline; the host's panel | call store, relays |
| Group calls `groups/group-call.svelte.js`, `services/livekit-connection.svelte.js` | phase, attempt, the tracked LiveKit Room | join, switch, leave, connect, disconnect | LiveKit, token endpoint |
| NIP-29 relay sessions `groups/relay-auth.js`, `groups/relay-subscription.js` | AUTH attempt per challenge, delay of a standing subscription | authenticateOnce, resubscribing | relays, signer |
| Roster reconciliation `groups/roster-reconcile.svelte.js`, `groups/reconcile-ledger.js` | ledger per account in localStorage | plan, fan out, record | relays |
| Direct messages, concord areas, relay selection, accounts, loaders, UI stores, agents, server endpoints | see the notes in `PROJECT.json` | | |

What is hard in them is of a few kinds: state read before an `await` and used after it
(rail layout, cordn, optimistic rollback, breakout moves); two transactions where one is
needed (outbox, uncacheEvent); several tabs or several runs of the same function
(outbox replays, read markers); closing a tab between two steps (outbox, cordn);
answers out of order (rail decrypts, webxdc pages, own posts against polls); and clocks that
differ (rail layout, webxdc). The hazards in `PROJECT.json` give the line of each.

What makes each component correct:

- outbox: a relay that has not answered stays pending over a crash; every entry leaves
  the store in the end.
- optimistic publish: an edit no relay took leaves no trace in memory or in IndexedDB;
  what it had replaced comes back; nothing a relay is known to hold is lost.
- rail layout: no layout is published over one that was not read; an edit wins over what it
  replaces; nothing of one account reaches another; at rest the rail shows the newest arrangement the device was given.
- cordn: MLS epoch and fetch cursor move together, in memory and on disk; the chat shows
  each text once and in order, and none is skipped.
- webxdc: every state arrives once, in an order that never changes, and none falls
  between backfill and live stream.
- breakout rooms and calls: pointer, call and LiveKit seat end in the same place; a seat follows the
  roster, is not left on a dead room's screen, and does not outlive the session.

## 2. Modules

| Module | Role |
|---|---|
| `PublishOutbox` | the outbox with its publish paths and replays |
| `OutboxPromise` | abstract specification of the outbox, which `PublishOutbox` implements |
| `PublishOutboxProofs` | type correctness of `PublishOutbox` |
| `PublishOutboxKeeps` | the crash-safety invariant of `PublishOutbox` |
| `PublishOutboxAsked` | with replays, companions and tabs: asked before forgotten, and that `PublishOutbox` implements the steps of `OutboxPromise` |
| `OptimisticPublish` | publishEventOptimistic, its rollback and the cache, for one address |
| `OptimisticPublishProofs` | type correctness of `OptimisticPublish`, and its three invariants for one save at a time |
| `RailLayoutSync` | the rail layout of one device among others |
| `RailLayoutSyncProofs` | type correctness of `RailLayoutSync`, and its five invariants |
| `CordnGroups` | one encrypted group between devices and coordinator |
| `CordnGroupsProofs` | type correctness and the two lock invariants of `CordnGroups`, and that a client which keeps up shows what was sent to it |
| `GroupSync` | one webxdc session on one client |
| `GroupSyncProofs` | type correctness of `GroupSync`, and that backfill and live stream join |
| `GroupCall` | the call store over the LiveKit connection: what each step of a join, switch or leave does |
| `Breakout` | a member's seat in a call with breakout rooms; composes `GroupCall` with the rooms' store and the relay |
| `BreakoutProofs` | type correctness of `Breakout`, its three invariants at rest and two that hold in the middle of a move |
| `MC...` | instances for TLC, one module per model, one cfg per run |

### PublishOutbox

`store` is the object store, `chain[t]` the serial write chain of tab t (`serial`), `got[t]`
the entry the chain's head has read and not yet written back, `live[e]` the publish of an event,
`comp[e]` its publish as a companion of another, `rp[p]` one run of `replayOutbox`,
`now` and `born` the clock for the age limit. One action per transaction and per await:
`ExecPut`, `ExecRemove`, `ExecList`, and `ReadEntry` / `WriteEntry` for the two
transactions of setPendingRelays and markRelayDone. `Crash` closes a tab: its chain, publishes
and replays are gone, the store stays. `WriteFails` rejects the head of a chain, a listing too: `serial()` logs it, and the replay
that awaits it goes on, with nothing to do if it was its listing. That `computeRelays` rejects in the middle of a replay
(`services/publish-outbox.js:245`) is left out: what the app's callback awaits is caught inside it.

### OutboxPromise

What a caller may rely on, with no tabs, chains or replays: events are kept, aimed at relay sets, asked, and
forgotten only when one of the sets was asked in full or the event was excused; an event that may be forgotten is, in
the end. `PublishOutbox!Promise` is the refinement mapping: `kept` are the events with a row in the store,
`goals` and `asked` come from the history, `excused` are the events given up or hit by a rejected write.

### OptimisticPublish

Versions of one replaceable address are numbered by `created_at`. `mem` is the event store's,
`buffer` the batch of persistEventsToCache, `queue` and `idb` nostr-idb's, `pub[p]` a
publishEventOptimistic with its place in the rollback (`flushing`, `reading`, `deleting`,
`restoring`, `recaching`: the awaits of uncacheEvent, restore and recacheEvent). `UncacheFails` and `RecacheFails` are their
catch paths: IndexedDB rejects, and the rollback goes on without it. `faults` counts these and the reloads.

### RailLayoutSync

One device in full: `toFollow` are account changes whose effect has not run yet, `session` numbers the
initializations, `adopts` are the runs of adoptRemoteEvent that await a decrypt, `pubs` the runs of publishRailLayout that
await the signer (`ev` is `None`) or the relays, `held` the event store, `cache` the localStorage copies. Every await takes any time:
two decrypts or two publishes are under way together and end in either order, with account switches, edits and the end of the
lookup in between. The variable `device`, chosen from the constant `Devices` at the start and never changed, says which
accounts have NIP-44 and how much happens at most.

### CordnGroups

`log` is the coordinator's log of one group; an epoch is named by the cursor of the commit
that began it, so `Canon(c)` is the epoch the group is in after cursor c. `view` and `disk` are a
device's record with MLS state, in memory and in IndexedDB. `running[d]` is the section that
holds `stateLock`, `tasks[d]` those that wait. A section goes through the phases of the
code: seal and post, apply the answer, store the welcome, save, acknowledge. Polls are
answered outside the lock and ingested inside. `Fail` lets the call of a section be
rejected, or its answer be lost; `Reload` brings the device back from disk. `listed` are the welcomes a client last
fetched: the user accepts one of those, which the coordinator may have dropped by then.

### GroupSync

An event is its place in the relay's log, `log[i]` its `created_at`, which is off the time of
storing by up to `Skew`. `phase`, `page`, `until` and `collected` are fetchBackfill, `since` is the
live subscription, `updates` what the app sees. `Page` covers full pages, short pages and
pages cut by their timer; `PageFails` and `LiveFails` the CLOSED with and without AUTH retry.

### GroupCall and Breakout

`me` is the client's record. Of the call store: `active`, `phase`, `error`, `reason` as in the code, `heard` (the
disconnect listener belongs to the current attempt), `room` the Room the connection service tracks, `up` the Rooms that
are connected on the server. Of the breakout store: `session`, `current` (currentRoom), `gone`, `roster`, `answered` (the
relay's replay has ended), `offered`, `pending`, `joinRequest`, `grace` (the timer of the way home), `asked` (requests for a room whose session object is
still the one they began with, the `session !== s` of the code). `moves` are the
async functions under way, each with its place (`pc`): one value per `await`. `GroupCall` has an operator on that
record for each stretch between two awaits of joinGroupCall, switchGroupCall, leaveGroupCall, connectToRoom and
disconnectFromRoom; a join learns that it is stale only at its next step, as `myAttempt !== attempt` does.

`Breakout` has the store's own functions in the same way and its `$effect`s as functions of the record before and after a
change (`OnIdle`, `OnSeatEnded`, `OnRosters`, `OnAssigned`, `OnAllGone`); `Effects` runs them in the order of the file and
`Become` makes them part of every step of the client, since Svelte runs them before anything else can happen. `relay` is what
the relay stores, `watch` the standing subscription (`blind`: reopened but not yet authenticated, so that the relay sends
nothing and an EOSE), `feed` what it has still to deliver. `HostTells` is the "state" message of the host, which
replaces the session object and marks the rooms it does not name as gone. `SeatAnswered` is the admin of the parent
channel seating himself in the room he asks for; others are refused there and knock. The code's effect behind `OnIdle` also runs again when the
session, pointer or offer changes in an idle call. That is of no consequence (the comment of `OnIdle` says why), so only the change to idle
is followed.

## 3. Runs

Every passing run is exhaustive over its bounds. Each property of a passing run has a mutant, a
plausible bug in a mapped definition, that the same run refutes.

| Run | Question | Bounds |
|---|---|---|
| `outbox_tab` | one tab: crash, rejected write, two attempts, changing and ill-spelled relay sets, two replays that overlap | 1 event, 3 URLs (two of one relay), 2 replays at once, 1 crash, 1 write failure, age limit reached; the constraint `MCOverlaps` |
| `outbox_shared` | an entry with several writers: two tabs whose two-transaction updates and replays interleave (`TwoTabs`), or an event enqueued again as a companion while its own publish runs (`ArticleAndLicence`) | 2 relays, 2 tabs; the first: 1 event with its companion, 1 replay each; the second: 2 events, 1 crash; the constraint `OneOrTheOther` keeps them apart |
| `outbox_unreachable` (violation) | does a relay leave an entry only on a definitive answer? | 1 event, 1 replay |
| `optimistic_address` | one save at a time with everything else around it | 3 versions, 1 reload or IndexedDB error |
| `optimistic_twice` (violation) | a second save before the first has failed | 3 versions |
| `rail_devices` | an account and its edits on four devices, every await as slow as it likes | `MCEditor` (one account logs in): 2 edits, 1 edit elsewhere dated up to 2 s ahead, 1 failure, 1 s; `MCSwitcher`: 2 accounts, 3 switches, 1 edit here, 1 elsewhere; `MCReturner`: 3 switches, 2 edits here, 1 failure; `MCWithout`: as the second, one account without NIP-44, 1 failure |
| `rail_unread` (violation) | is the lookup completing evidence that nothing is stored? | `MCEditor` alone, 1 account |
| `cordn_posts` | two devices and a guest: send, add, accept, poll, fail, reload | 4 user requests, 1 waiting poll, 1 failed call or reload |
| `cordn_overtaken` (violation) | a post before what others posted was polled | the same without failures |
| `groupsync_session` | one session from opening to its end | pages of 2, 3 pages, overlap 2, skew 1, 3 events, 2 closed requests |
| `breakout_seat` | a member's seat from the main room on, until the first oddity (section 5) | 2 rooms, the first with my name at the start, 2 async functions at once, 3 inputs: up to 3 of the host, 1 of the user, 1 fault; the action constraints `FirstOddity` and `Paired` |
| `breakout_back` (violation) | "back" while the devices of the room just entered are still being enabled | 2 rooms, 3 inputs, no fault |

Why these bounds are enough for their question: a lost or duplicated effect needs one
victim and one intruder at each await, so one event (outbox), one address (optimistic), one group
(cordn) and one session (webxdc) with two actors each reach every pairing; more of the
same kind share no state with the first. Two relays separate "one answered" from
"all answered". Three versions give a base, an edit and an intruder. In `RailLayoutSync` two
accounts and three switches contain "there and back", with an edit, its publish or a decrypt in flight over each of them; two edits
of one account are in flight together, or one after the other. `MCOverlaps` lets the second replay of a tab start only once the publish has ended
with one relay computed and nothing has failed, expired or been closed: two copies of one entry, with its attempts and its one pending
relay, are then read, counted, marked and put back in every order, and the rest of `outbox_tab` is explored with one replay at a time. It
cuts off no step that the fairness asks for. In `GroupSync` three events with
pages of two give a second page, equal timestamps at its boundary, and the cap (three pages) is
reached through truncated pages. In `Breakout` two rooms give "named elsewhere", and three inputs
on top of a seat that is there at the start hold a move to the other room (two roster writes) with a press, a loss or a
deletion in the middle of it; inputs are what the client does not
cause, the steps of the client itself are unbounded. Two async functions at once are an old and a new
move; the third, which finds both stale, differs from the second in nothing but their number. `Paired` leaves out a third input
where a press meets a failure or the deadline, and a second one of the host while a request for a room is under way. Those are races of
two, and only inputs are cut off by it, nothing that fairness asks for. `MaxAttempts`, `MaxAge`, `Limit`, `MaxPages`, `Overlap` and `Skew` are the
code's constants in small; the others are bounds, named as such where they are declared.

Deadlock is checked where the system always has something to do (outbox with a replay to
start); elsewhere a bounded user simply stops, hence `CHECK_DEADLOCK FALSE`.

### What the passing runs show

- `LiveKeepsUnanswered`: until a replay touches an event, an unanswered relay stays
  pending, whatever crashes. `AskedBeforeForgotten`: with replays, companions and tabs, an entry only goes
  when some relay set computed for it was asked in full, or it was given up. `OutboxDrains`,
  `DurableGetsAsked`: entries leave, also when two replays put copies of them back over each other, and not unasked. `ImplementsPromise`: one tab implements `OutboxPromise` with its
  liveness; `KeepsPromise`: tabs and companions implement its steps.
- `NoPhantom`, `NothingLost`, `ReplacedIsBack`: the rollback of one save, at rest.
- `AnsweredFirst`, `ReadBeforeReplaced`, `EditsWin`, `RemoteIsOwn`, `RestShowsNewest`, `LoadingResolves`: what the code keeps of
  the publish gate, the `created_at` bump and the accounts when decrypts, signatures, publishes, lookups and switches
  interleave in any way: what is replaced has been read, an edit is dated after what was adopted or landed, one account's layout is not
  another's, and what the rail shows once all has ended is the newest it was given. What it does not keep is named in section 5.
- `KeepsUp`, `ShownOnce`, `Delivered`, `CatchesUp`: the state lock does its work unless a device's own post
  overtakes what it has not read.
- `SeenOnce`, `NoGap`, `SerialsStay`, `Converges`: backfill and live stream join without gap, repetition or
  reordering while the peers' clocks are apart by no more than the overlap.
- `NoGhost`, `CurrentIsTheCall`, `NotStranded`: when every async function has ended, no seat is held on the server but
  the tracked one, the pointer is the room of the call, and nobody stays on the screen of a room that failed or put him out.
  `SeatFollowsRoster`, `AssignmentIsOffered`, `SessionEnds`: a seat leaves a room that is deleted or no longer names
  it, the one room that names me is offered, and the deadline and the last deletion end the session, with outages of the
  subscription and replays in any order in between.

### What the violations show

- `outbox_unreachable`: `replayOutbox` marks every relay in the responses as done, also those that
  could not be reached; the header of `publish-outbox.js` promises the opposite.
- `optimistic_twice`: the second save remembers the first, unconfirmed one as the version to restore. When both
  fail, the failed version is put back for good and the last good one is lost.
- `rail_unread` (`AbsentHoldsNone`): the lookup completing sets `absent` while the decrypt of the event it brought is awaited; the next
  drag is published over a layout nobody read.
- `cordn_overtaken`: a device's own post sets `fetchCursor` past commits it has not read; it stays in an
  old epoch.
- `breakout_back`: a join that has become stale calls `lk.disconnectFromRoom()`, which disconnects whatever Room is tracked
  by then. When "back" is pressed while the devices of the room are still being enabled, that is the main Room: the call
  says "ready" and has no Room, and no "ended" follows, because the disconnect was our own.

### Fairness

- Outbox (`Fairness`): per tab, IndexedDB transactions complete and a replay is started again (boot and "online" events); per replay, it
  goes on (each of its awaits settles: `publishToRelays` resolves with a timeout per relay). No replay is favoured over another.
- Rail: scheduled effects run, a lookup ends, signer and relays answer or time out.
- Cordn: the 3 s timer polls, a section's call is answered or rejects by its time limit.
- Webxdc: a page ends by its timer, `authenticate()` by its time limit, and an open subscription sends what
  matches it.
- Breakout (`Fairness`): while the client is `Busy`, that is, has an async function under way, something to hear, a
  subscription to reopen or a timer running, it takes a step that is no input (`GoesOn`). Token requests end by TOKEN_TIMEOUT_MS,
  LiveKit's connect and disconnect by the library's own limits, `resubscribing` reopens with a growing delay and is authenticated in the end, offers
  are accepted after BREAKOUT_AUTO_SWITCH_MS. This is weak fairness of `GoesOn` with what enables it
  written out, since TLC evaluates its ENABLED for every state otherwise. What is not caused by the client is bounded, so
  such steps cannot be put off for ever by others.

No fairness is assumed of users, other devices, crashes, or failures.

## 4. Proofs

| Theorem | Statement |
|---|---|
| `PublishOutboxProofs!TypeCorrect` | `Spec => []TypeOK` |
| `PublishOutboxKeeps!KeepsUnanswered` | `Spec => []LiveKeepsUnanswered` |
| `PublishOutboxAsked!AskedFirst` | `Spec => []AskedBeforeForgotten` |
| `PublishOutboxAsked!PromiseKept` | `Spec => KeepsPromise` (refinement: every step is one of `OutboxPromise` or a stutter) |
| `OptimisticPublishProofs!TypeCorrect` | `Spec => []TypeOK` |
| `OptimisticPublishProofs!PhantomGone`, `MemoryKept`, `PutBack` | `OneEdit` implies `Spec => []NoPhantom`, `[]NothingLost`, `[]ReplacedIsBack` |
| `RailLayoutSyncProofs!TypeCorrect` | `Spec => []TypeOK` |
| `RailLayoutSyncProofs!AsksFirst`, `ReplacesWhatItRead`, `EditBeats`, `OwnRemote`, `RestsOnNewest` | `Spec =>` `[]AnsweredFirst`, `[]ReadBeforeReplaced`, `[]EditsWin`, `[]RemoteIsOwn`, `[]RestShowsNewest` |
| `CordnGroupsProofs!TypeCorrect` | `Spec => []TypeOK` |
| `CordnGroupsProofs!EpochFollowsCursor` | `Spec => []KeepsUp` |
| `CordnGroupsProofs!ChatInOrder` | `Spec => []ShownOnce` |
| `CordnGroupsProofs!TextsDelivered` | `Spec => []Delivered` |
| `CordnGroupsProofs!NothingTakenBack` | `Spec => OnlyForward /\ []Behind` (an action property) |
| `GroupSyncProofs!TypeCorrect` | `Spec => []TypeOK` |
| `GroupSyncProofs!TakenOnce`, `NothingBetween` | `Spec => []SeenOnce`, `Spec => []NoGap` |
| `GroupSyncProofs!SerialsFinal` | `Spec => SerialsStay` (an action property) |
| `BreakoutProofs!TypeCorrect` | `Spec => []TypeOK` |
| `BreakoutProofs!NoGhostTheorem`, `CurrentIsTheCallTheorem`, `NotStrandedTheorem` | `Spec =>` `[]NoGhost`, `[]CurrentIsTheCall`, `[]NotStranded` |
| `BreakoutProofs!OneSeatTheorem`, `PointerLeadsTheorem` | `Spec => []OneSeat`, `Spec => []PointerLeads` (at every moment, not only at rest) |

They hold for any events, URLs, tabs, replays, accounts, devices, persons, rooms, page sizes and bounds that satisfy the named
assumptions of the modules (`OutboxAssumption`: normalizing a URL twice is normalizing it once, finite sets of events and
URLs, `None` is none of the other values; `CordnAssumption`: the creator is a device; `RailAssumption`: `None` is no
account and no event; `GroupSyncAssumption`: stamps are off by no more than half of `LIVE_OVERLAP_SEC`;
`BreakoutAssumption`: rooms are numbered, finitely many and at least one, `Main` is none of them and `None` no channel or Room; in all of them, and
in `OptimisticAssumption`, bounds are naturals). Those of the optimistic publish
have a hypothesis of their own, `OneEdit`, explained below: without it the code does not keep them, as `optimistic_twice` shows.

**Outbox types.** `TypeOK` is not inductive: the entry a replay is about to count an attempt of must be at hand and not yet
out of attempts (`ReplayShape`), only a `set` or `done` at the head of its chain may have been read
(`ChainShape`), and a publish under way belongs to a tab (`LiveShape`).

**KeepsUnanswered.** `LiveKeepsUnanswered` is not inductive: a markRelayDone running before the relay set is recorded
would delete the entry. What rules it out is the serial chain. For an event that is on its own (`Alone`: no replay listed
it, no companion, no rejected write) all queued writes are of one tab, and the chain orders them: its `put` before its
`set` before every `done`; a `done` is only queued for a relay that answered; the entry the head has read is the one
in the store (`OwnTab`, `OwnPut`, `OwnSet`, `OwnDone`, `OwnRead`, `OwnPhase`). `SharedMarked` says
that whatever a replay or a companion has queued concerns an event marked as shared.

**AskedFirst, PromiseKept.** Here replays, companions and other tabs take part, so nothing is left of "one tab writes e". Copies
of an entry are queued, read, listed by a replay, and any of them may be written back over a newer one. `AInv` speaks of an
event that is still `Open` (not served, given up or hit by a rejected write) and says two things. `CopiesFine`: each copy,
wherever it is, has no relay set yet or lists all that some computed set still lacks, nothing queued removes the entry, and a
markRelayDone is of a relay that was asked; putting a stale copy back does then no harm. `InOrder`: a markRelayDone never
meets an entry without a relay set, which it would delete. It is the publish's own (a replay that is marking has served the event,
and so has a companion run), so its own enqueue and setPendingRelays are before it in the same chain or done, and no other write puts
back an entry without a relay set. From `AInv` each write that deletes an entry is a `Forget` of `OutboxPromise`; the other
actions are its other steps, or stutters.

**Optimistic publish.** The properties speak of the state at rest; the work is to say where everything is while a rollback is
under way. `Traced`: a version whose fate is open can be only where the rollback has not yet cleaned: in memory during the
fan-out, in the queue until the flush, in IndexedDB until the delete. `Kept`: what memory held and a relay holds is in memory or
is the `prev` a rollback is about to restore. `Back`: the same for what a failed save had replaced, on disk too, where the queue
counts as on its way. Each of them relates a place of the publish to `prev`, and a second publish under way would change what
`prev` means: hence `OneEdit`, one `publishEventOptimistic` of the address at a time. Any number may follow each other, with any
number of reloads and IndexedDB errors: a version whose rollback one of them cut short is in `hist.cut`, one it kept from disk in `hist.unsaved`.

**Rail layout.** Nothing is assumed of how long anything takes. `NotBehind` is what an interleaving cannot take away: the event store
only moves forward, and nothing that was adopted, landed or is still being decrypted is newer than what it holds for that
account, although decrypts end in any order and accounts are switched. `Known` ties the gate to it: while an edit could be published, the
newest event held is the one shown, and was read, or its decrypt is awaited, or (`late`) an older one came back last. A decrypt only adopts if its
account is followed, and a publish of this session is one of the account followed, made after an answer (`Answered`); one of an
earlier session that lands is `crossed`. `ReadBeforeReplaced` and `EditsWin` speak of the moment an edit is handed to the signer and follow from `Known`
and `NotBehind` at that moment; `Right` carries them on. `RestShowsNewest` needs `Mirrored`: the local copy is what is held unless an
edit is on its way or failed, and an event that lands is never mistaken for another, since its id is its own (`Fresh`). `Followed` says
that once all effects have run the account followed is the active one, so that what is offered can be decrypted.

**Webxdc.** `NoGap` is about the moment the backfill ends; `Paged` says what an unfinished backfill knows: an event it has not
collected is below the bound of the next page, or no older, but for the overlap, than all it has collected. A stamp made while
the pages come may be behind what was collected by up to twice the skew (`Stamped`), which the overlap covers; the newest
events of a window leave behind what is below their oldest; an answer that is the whole window leaves behind nothing recent.
`Following` says that what is stored later matches the subscription. That the sorted backfill exists and lists each event
once (`Sortable`, `SortedLists`) takes the place of an induction over finite sets: the least number of events that cannot be sorted
would be one more than a number that can.

**Cordn.** `KeepsUp` is not inductive, for three reasons, and `Inv` says what makes each of them go away. A section writes
back a state it read before its await: `SectionOK` and `LockOK` say that at most one section holds the lock and that
the epoch it read is still the device's. A polled message that does not open is skipped, cursor and all: this is
harmless only if it is no commit of the current epoch, and the device's own commits do not open; `OwnRead` says that none of
its own is ahead of it but the one whose answer it awaits. And the cursor must not jump: `QueueOK` says that what waits for the
lock begins no later than the first unread message. `LogOK` ties the recorded epochs to the log. The invariance proof has one
lemma per action. `RowOK` holds the order of the shown texts, which gives `ChatInOrder`. `Delivered` needs two things more: MLS refuses
a generation only because an earlier text of the epoch took it up (`UsedRow`), so that the first one opens, in a device whose epoch is
that of the cursor (`KeepsUp`); and the row on disk has shown what it has read as well (`DevReads`), since a reload goes on from it.
`OnlyForward` says of steps what no state shows: the cursor, the shown texts and the membership of a row only grow (`Forward`), but for a reload,
which takes the row back to the one on disk; that one only grows too, and rests on the row in memory being ahead of it (`Behind`).

**Breakout.** The properties speak of a client at rest; the invariant says who will bring it there while async functions are under way.
It is a predicate of the client's record, so that each function of the two stores has a lemma of its own ("a sound record goes in and
comes out") and an action only strings them together. `Idle` always holds: a call is idle exactly without a channel, at most one function
is leaving a call, and at most one join is not stale. `Calm` holds until two joins overlap: one join at a time has a Room to connect or
to tear down (`OneHolds`); what is connected is tracked, and what is tracked is connected or about to be disconnected (`Tracked`); the phase
tells how far the join is (`Paced`). `Moored` holds until a switch is refused or the session forgotten under a move: the call is where
the pointer is or nowhere, and a function that is leaving a call joins the channel the pointer names. `Home` is `NotStranded` without
"at rest". It does not hold inside a step: a function that has returned may have left an error for its caller to find (`Wayward`), and a Room
that ends leaves its seat on the end screen until the effect has seen it. So the step is proved in two halves: what the handler does leads to
a record that is `Handed`, and `Continue` and `Effects` lead from there to one that is `Good`. Numbers of functions and Rooms
are the least free ones, which exist because there are finitely many (`FreshIdIsFresh`, by the pigeon-hole theorem of the library).
`OneSeat` and `PointerLeads` are read off the invariant: they say of every moment what the runs check at rest.

Only model-checked: liveness (`OutboxDrains`, `DurableGetsAsked`, `ImplementsPromise`, `LoadingResolves`, `CatchesUp`, `Converges`,
`SeatFollowsRoster`, `AssignmentIsOffered`, `SessionEnds`) and
everything about `ENABLED`, which are beyond the prover; and
the five properties that runs show to be violated, which the code does not keep (`UnansweredStaysPending`, `NoPhantom` without `OneEdit`,
`AbsentHoldsNone`, and those of `cordn_overtaken` and `breakout_back`).

## 5. Known limits

The properties excuse what the code is known not to keep. Each excuse is a history variable, so that it covers no more than its
case:

- Outbox: `hist.faulty` (a rejected setPendingRelays leaves `pending` null, and the next markRelayDone deletes the
  entry), `hist.gaveUp`, and `hist.shared` for `LiveKeepsUnanswered` (a companion's enqueue resets the
  entry: what it had pending is dropped, and no property asks for it again if another computed set is asked in full). A put-back
  entry holds URLs as they were spelled, which markRelayDone does not find. Two replays that overlap may ask a relay twice and count one
  attempt for two; the entry leaves all the same (`OutboxDrains`).
- Optimistic publish: `hist.echoed` (the phantom was read back from IndexedDB between its removal from memory and from
  disk, or a relay or replay echoed it during its publish), `hist.cut` (a reload or an IndexedDB error during the publish or its
  rollback), `hist.unsaved` (IndexedDB refused what was to be put back). Of what IndexedDB holds the properties ask no more than that
  a failed version is not in it and a replaced one is: `uncacheEvent` deletes the row of the address it has found to be the failed
  version, whatever was written to it in between (`event-cache.svelte.js:272`, where :253 says a newer version is kept); memory still has it,
  and it comes back from the relays.
- Rail: `late` (of two decrypts the older was adopted last, :180, or of two publishes the older landed last, :271: the rail shows an old
  arrangement, and the next edit replaces the newer one unread), `hasty` (the lookup completed during the decrypt of what it brought, see
  `rail_unread`), `awaited` (a newer event is being decrypted while the gate, open for the one before it, lets an edit through),
  `crossed` (a publish that lands after an account switch sets the state unconditionally, :271-273: the layout of the account left is that
  of the account followed, and a gate that is `loading`, `locked` or `unavailable` opens, until something is adopted). A gate `locked` by an event that arrived during a
  publish of the same account is opened by its landing in the same way; if that event is newer than the edit, this is `late`.
  `hist.unsent`: an edit that could not be published is overwritten by the next layout adopted, and is lost. Edits that overlap carry the same
  `created_at`, and which of them wins is decided by their ids. The error flag `blocked` tells of the
  publish that settled last, not of the last edit.
- Cordn: `strayed` (its own post overtook an unread commit, the answer to its commit or the save of it was lost,
  a welcome accepted twice, or into a fork made by two adds at once) and `passed` (texts its own posts
  moved it past). A generation used again after a lost answer is refused by the others. A key package taken for an add
  that then fails is not offered again.
- Webxdc: `cut`, a backfill that ended with part of the history: the page cap, more than a page of equal timestamps, or a page
  its timer ended with nothing new in it. The last is read as the end of the history. A peer whose clock runs ahead by
  more than the overlap hides what the others publish after it; `Skew` excludes it.
- Breakout, `me.odd`: `overlap` (a join overtook one that has a Room to connect or tear down, which may cost the newer one its
  Room, see `breakout_back`); `crossed` (switchGroupCall does nothing in the idle moment of another switch); `unmoored` (clearSession ran in a room or while one was being entered, or a room was entered after it
  had run, so the seat is in a room without a session); `lulled` (entering the same room again, or one that is gone, stops the timer of the way
  home and nothing starts it again); `refused` (the token for the next room was refused; the move is not
  retried while the roster says the same). `breakout_seat` follows a behaviour to its first oddity, and past `refused`. A hang-up while the room just
  entered is still connecting ends the call and keeps session and pointer: "Leaving the call altogether forgets the session"
  (`groups/breakout.svelte.js:1645`), but the effect is skipped while `switching`, which it does not track, and nothing runs it
  again. The same holds when he hangs up while the token for a room is still awaited. The properties do not speak of a session without a call. A seat that
  has been brought home because its room failed is not offered that room again while the roster is the same: `rosterOfferedRoomId` is
  still that room.

Not modelled in the modelled components: several groups or coordinators, envelope validation and two tabs of one account
(cordn), realtime frames and malformed states (webxdc), deletions and warmed identities (event cache), the
arrangement a layout holds (rail), the host's own client (panel, takeover, newcomers, automatic assignment), guests,
broadcasts and the countdown (breakout), devices, chat, call notes for a reload and the confirmation dialogs (calls). In `Breakout` the client
learns both rooms at once (of those of a later "state" message it marks the unnamed as gone), hears of no new deadline, starts in the main room with an authenticated subscription and named by the first room, hears what one subscription
sends in its order, and does not learn the rooms again once the time is up. Not modelled at all: what the inventory lists below the webxdc session, with
the reason in `PROJECT.json`; UI components and server endpoints keep no state that several
actors share.

## 6. Plan

Done: `PublishOutbox` with `OutboxPromise`, `RailLayoutSync`, `OptimisticPublish`, `CordnGroups`, `GroupSync`, `Breakout` over `GroupCall`, with proofs
of every invariant. Next, most important first:

1. `CordnDevices`: multi-device documents as a second way into a group (`viaSync`, planReconcile), composed with
   `CordnGroups`; abstract specification: a group whose members see one sequence of texts.
2. `InboxMarkers`: two tabs and a relay; markers never move back, and a click is not lost.
3. `RelayAuth`: one handshake per challenge for several callers, standing subscriptions and `publishToRelays`, which
   `PublishOutbox` and `Breakout` use as one step.
4. The host's side of `Breakout`: moves as pairs of writes, takeover and newcomers, against the seats of the members.
5. Deletions in `OptimisticPublish`; the pure operations of `rail/rail-layout.js` against a reference definition.

Theorems to come: the invariants of the modules above, with their first runs.
