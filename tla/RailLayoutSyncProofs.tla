------------------------ MODULE RailLayoutSyncProofs ------------------------
(***************************************************************************)
(* Theorems about RailLayoutSync, for any accounts, devices and bounds.    *)
(*                                                                         *)
(* Nothing is assumed of how long decrypts, signatures, publishes and      *)
(* lookups take, or in which order they end.                               *)
(***************************************************************************)
EXTENDS RailLayoutSync, SequenceTheorems, TLAPS

-----------------------------------------------------------------------------
(* The invariants. *)

Task == [acct : Accounts, ev : Event, signer : Accounts, session : Nat]
Pub == [layout : Layout, at : Nat, ev : Event \cup {None}, session : Nat]
Wrongs == {"unread", "late", "hasty", "awaited", "losing", "unasked"}
History ==
    [read : SUBSET Event, newest : [Accounts -> Event \cup {None}],
     answered : BOOLEAN, unheard : BOOLEAN, hasty : BOOLEAN, late : BOOLEAN, crossed : BOOLEAN,
     unsent : SUBSET Accounts, wrong : SUBSET Wrongs]

\* What TypeOK leaves open: the bounds that are kept, and who an event is by.
Bounds ==
    /\ spent \in [edits : Nat, others : Nat, switches : Nat, failures : Nat]
    /\ spent.edits <= device.edits /\ spent.others <= device.others
    /\ spent.switches <= device.switches
    /\ session + Len(toFollow) = spent.switches
    /\ now \in 0..device.time

Authors ==
    /\ \A a \in Accounts : \A ev \in relays[a] : ev.layout.by = a
    /\ \A a \in Accounts : held[a] # None => held[a].layout.by = a
    /\ \A t \in adopts : t.ev.layout.by = t.acct

Publishes ==
    \A p \in pubs : /\ p.at <= now + Skew
                    /\ p.ev # None => p.ev.layout = p.layout /\ p.ev.at = p.at

Shape == adopts \subseteq Task /\ pubs \subseteq Pub /\ hist \in History

TInv == TypeOK /\ Shape /\ Bounds /\ Authors /\ Publishes

-----------------------------------------------------------------------------
\* e is not newer than f.
UpTo(e, f) == f # None /\ ~IsNewer(e, f)

\* Nothing that was shown or is being decrypted is newer than what the event
\* store holds, and that came from the relays.
NotBehind ==
    /\ \A a \in Accounts : held[a] # None => held[a] \in relays[a]
    /\ \A a \in Accounts : hist.newest[a] # None => UpTo(hist.newest[a], held[a])
    /\ \A t \in adopts : UpTo(t.ev, held[t.acct])
    /\ stamp # None /\ ~(hist.late /\ hist.crossed)
           => following # None /\ UpTo(stamp, held[following])

\* An event that is being published has an id of its own.
Fresh ==
    \A p \in pubs : p.ev # None =>
        /\ \A a \in Accounts : \A ev \in relays[a] : ev.id # p.ev.id
        /\ \A q \in pubs : q.ev # None /\ q.ev.id = p.ev.id => q = p

\* The account that is followed, once the layout's effects have run.
Followed ==
    /\ watching => following # None
    /\ IF toFollow = <<>> THEN active = following /\ (watching => active \in device.nip44)
       ELSE toFollow[Len(toFollow)] = active

\* Nothing of this session is published before an answer.
Answered ==
    /\ CanPublish(status) => hist.answered \/ hist.crossed
    /\ \A p \in pubs : /\ p.session <= session
                       /\ p.session = session => /\ following # None /\ p.layout.by = following
                                                 /\ hist.answered \/ hist.crossed

\* What is shown has been read, and while the gate is open it is what is held,
\* unless that is still being decrypted.
Known ==
    /\ IF stamp = None THEN remote = None /\ status # "loaded"
       ELSE stamp \in hist.read /\ remote = stamp.layout
    /\ \A p \in pubs : p.ev # None => p.ev \in hist.read
    /\ status = "loading" => /\ following # None /\ watching /\ stamp = None
                             /\ Awaited \/ held[following] = None
    /\ following # None /\ CanPublish(status) /\ ~hist.late => Awaited \/ stamp = held[following]

\* The local copy follows, unless an edit is on its way.
Mirrored ==
    toFollow = <<>> /\ watching /\ status = "loaded" /\ ~hist.late /\ ~hist.crossed
        /\ following \notin hist.unsent
    => \/ Awaited \/ \E p \in pubs : p.layout.by = following
       \/ held[following] # None /\ cache[following] = held[following].layout

\* No edit that was published did wrong.
Right == hist.wrong \cap {"unread", "losing", "unasked"} = {} /\ RemoteIsOwn

SInv == NotBehind /\ Fresh /\ Followed /\ Answered /\ Known /\ Mirrored /\ Right

-----------------------------------------------------------------------------
(* Types. *)

LEMMA DeviceTypes ==
    ASSUME TypeOK
    PROVE  /\ device.nip44 \subseteq Accounts
           /\ device.edits \in Nat /\ device.others \in Nat /\ device.switches \in Nat
           /\ device.failures \in Nat /\ device.ahead \in Nat /\ device.time \in Nat
           /\ device.edits + device.others <= MaxLayouts
           /\ Skew \in Nat /\ MaxLayouts \in Nat
<1>1. device \in Device
  BY RailAssumption DEF TypeOK
<1> QED BY <1>1, RailAssumption DEF TypeOK, Device

\* An event's parts, and what suffices for a record to be one.
LEMMA EventTypes ==
    ASSUME TypeOK
    PROVE  /\ None \notin Event
           /\ \A ev \in Event : ev.at \in Nat /\ ev.id \in Nat /\ ev.layout \in Layout
           /\ \A at \in Nat, id \in 1..MaxLayouts, layout \in Layout :
                 at <= device.time + device.ahead \/ at <= device.time + Skew
                     => [at |-> at, id |-> id, layout |-> layout] \in Event
<1>1. /\ device.time \in Nat /\ device.ahead \in Nat /\ Skew \in Nat /\ MaxLayouts \in Nat
  BY DeviceTypes
<1>2. PICK m \in Nat : /\ Event = [at : 0..m, id : 1..MaxLayouts, layout : Layout]
                       /\ device.time + device.ahead <= m /\ device.time + Skew <= m
  <2> DEFINE m == device.time + (IF device.ahead > Skew THEN device.ahead ELSE Skew)
  <2>1. m \in Nat /\ device.time + device.ahead <= m /\ device.time + Skew <= m
    BY <1>1
  <2>2. Event = [at : 0..m, id : 1..MaxLayouts, layout : Layout]
    BY DEF Event
  <2> QED BY <2>1, <2>2
<1> QED BY <1>1, <1>2, RailAssumption

LEMMA SameTypes ==
    ASSUME UNCHANGED device
    PROVE  Event' = Event /\ Task' = Task /\ Pub' = Pub /\ History' = History
  BY DEF Event, Task, Pub, History

LEMMA SwitchT ==
    ASSUME TInv, NEW a \in Accounts \cup {None}, Switch(a)
    PROVE  TInv'
<1> USE DEF TInv
<1>1. UNCHANGED device
  BY DEF Switch, local
<1>2. /\ Event' = Event /\ Task' = Task /\ Pub' = Pub /\ History' = History
  BY <1>1, SameTypes
<1>3. TypeOK'
  <2>1. toFollow' \in Seq(Accounts \cup {None})
    BY AppendProperties DEF TypeOK, Switch
  <2> QED BY <1>2, <2>1 DEF TypeOK, Switch, local
<1>4. Shape'
  BY <1>2, RailAssumption DEF Shape, Switch, local, TypeOK, Task, Pub, History
<1>5. Bounds'
  <2>1. toFollow \in Seq(Accounts \cup {None}) /\ toFollow' = Append(toFollow, a)
    BY DEF TypeOK, Switch
  <2>2. Len(toFollow') = Len(toFollow) + 1 /\ Len(toFollow) \in Nat
    BY <2>1
  <2>3. session' = session /\ session \in Nat /\ now' = now
    BY DeviceTypes DEF TypeOK, Switch, local
  <2>4. /\ spent' = [spent EXCEPT !.switches = @ + 1] /\ spent.switches < device.switches
        /\ spent \in [edits : Nat, others : Nat, switches : Nat, failures : Nat]
    BY DEF Bounds, Switch
  <2>5. /\ spent' \in [edits : Nat, others : Nat, switches : Nat, failures : Nat]
        /\ spent'.switches = spent.switches + 1 /\ spent'.switches <= device.switches
        /\ spent'.edits = spent.edits /\ spent'.others = spent.others
    BY <2>4, DeviceTypes
  <2>6. session + Len(toFollow) = spent.switches
    BY DEF Bounds
  <2>7. session' + Len(toFollow') = spent'.switches
    BY <2>2, <2>3, <2>4, <2>5, <2>6
  <2> QED BY <1>1, <2>3, <2>5, <2>7 DEF Bounds
<1>6. Authors'
  BY DEF Authors, Switch, local, TypeOK, Shape, Task, Pub
<1>7. Publishes'
  BY DeviceTypes DEF Publishes, Bounds, Switch, local, TypeOK, Shape, Task, Pub
<1> QED BY <1>3, <1>4, <1>5, <1>6, <1>7

LEMMA FollowT ==
    ASSUME TInv, NEW ask \in BOOLEAN, Follow(ask)
    PROVE  TInv'
<1> USE DEF TInv
<1>1. UNCHANGED device
  BY DEF Follow, local
<1>2. /\ Event' = Event /\ Task' = Task /\ Pub' = Pub /\ History' = History
  BY <1>1, SameTypes
<1>3. TypeOK'
  <2>1. /\ toFollow \in Seq(Accounts \cup {None}) /\ toFollow # <<>>
        /\ toFollow' = Tail(toFollow) /\ following' = Head(toFollow)
    BY DEF TypeOK, Follow
  <2>2. toFollow' \in Seq(Accounts \cup {None}) /\ following' \in Accounts \cup {None}
    BY <2>1, HeadTailProperties
  <2>3. session' \in 0..device'.switches
    <3>1. Len(toFollow) \in Nat /\ Len(toFollow) # 0
      BY <2>1, EmptySeq
    <3>2. session \in Nat /\ device.switches \in Nat /\ device' = device /\ session' = session + 1
      BY DeviceTypes DEF TypeOK, Follow
    <3>3. session + Len(toFollow) = spent.switches /\ spent.switches <= device.switches /\ spent.switches \in Nat
      BY DEF Bounds
    <3> QED BY ONLY <3>1, <3>2, <3>3
  <2>4. /\ remote' = None /\ stamp' = None /\ blocked' = FALSE
        /\ status' \in Statuses /\ asking' \in BOOLEAN /\ watching' \in BOOLEAN
    BY DEF Follow, Forget, Statuses
  <2>5. \A t \in adopts' : t.ev \in Event /\ t.acct \in Accounts /\ t.signer \in Accounts
    BY <2>1, <2>2, DeviceTypes DEF TypeOK, Follow
  <2> QED BY <1>1, <1>2, <2>2, <2>3, <2>4, <2>5 DEF TypeOK, Follow
<1>4. Shape'
  <2>1. hist' \in History
    BY DEF Shape, History, Follow
  <2>2. adopts' \subseteq Task
    <3>1. Head(toFollow) \in Accounts \cup {None} /\ session + 1 \in Nat
      BY DeviceTypes, HeadTailProperties DEF TypeOK, Follow
    <3> QED BY <3>1, DeviceTypes DEF TypeOK, Shape, Task, Follow
  <2> QED BY <1>2, <2>1, <2>2 DEF Shape, Follow
<1>5. Bounds'
  <2>1. toFollow \in Seq(Accounts \cup {None}) /\ toFollow # <<>> /\ toFollow' = Tail(toFollow)
    BY DEF TypeOK, Follow
  <2>2. Len(toFollow') = Len(toFollow) - 1 /\ Len(toFollow) \in Nat
    BY <2>1
  <2>3. session \in Nat
    BY DeviceTypes DEF TypeOK
  <2> QED BY <1>1, <2>2, <2>3 DEF Bounds, Follow, local
<1>6. Authors'
  <2>1. Head(toFollow) \in Accounts \cup {None}
    BY HeadTailProperties DEF TypeOK, Follow
  <2> QED BY <2>1 DEF Authors, Follow
<1>7. Publishes'
  BY DeviceTypes DEF Publishes, Bounds, Follow, local, TypeOK, Shape, Task, Pub, Forget, Statuses
<1> QED BY <1>3, <1>4, <1>5, <1>6, <1>7

LEMMA LookupCompletesT ==
    ASSUME TInv, LookupCompletes
    PROVE  TInv'
<1> USE DEF TInv
<1>1. UNCHANGED device
  BY DEF LookupCompletes, local
<1>2. /\ Event' = Event /\ Task' = Task /\ Pub' = Pub /\ History' = History
  BY <1>1, SameTypes
<1>3. TypeOK'
  BY <1>2 DEF TypeOK, LookupCompletes, Statuses
<1>4. Shape'
  <2>1. PICK b \in BOOLEAN : hist' = [hist EXCEPT !.answered = TRUE, !.hasty = b]
    BY DEF LookupCompletes, Awaited
  <2>2. hist' \in History
    BY <2>1 DEF Shape, History
  <2> QED BY <1>2, <2>2 DEF Shape, LookupCompletes
<1>5. Bounds'
  BY DeviceTypes DEF Bounds, LookupCompletes, local, TypeOK, Statuses
<1>6. Authors'
  BY DEF Authors, LookupCompletes, local, TypeOK, Shape, Task, Pub, Statuses
<1>7. Publishes'
  BY DeviceTypes DEF Publishes, Bounds, LookupCompletes, local, TypeOK, Shape, Task, Pub, Statuses
<1> QED BY <1>3, <1>4, <1>5, <1>6, <1>7

LEMMA LookupFailsT ==
    ASSUME TInv, LookupFails
    PROVE  TInv'
<1> USE DEF TInv
<1>1. UNCHANGED device
  BY DEF LookupFails, local
<1>2. /\ Event' = Event /\ Task' = Task /\ Pub' = Pub /\ History' = History
  BY <1>1, SameTypes
<1>3. TypeOK'
  BY <1>2 DEF TypeOK, LookupFails
<1>4. Shape'
  BY <1>2, RailAssumption DEF Shape, LookupFails, local, TypeOK, Task, Pub, History, Fails
<1>5. Bounds'
  BY <1>1 DEF Bounds, LookupFails, Fails, local
<1>6. Authors'
  BY DEF Authors, LookupFails, local, TypeOK, Shape, Task, Pub, Fails
<1>7. Publishes'
  BY DeviceTypes DEF Publishes, Bounds, LookupFails, local, TypeOK, Shape, Task, Pub, Fails
<1> QED BY <1>3, <1>4, <1>5, <1>6, <1>7

LEMMA ArriveT ==
    ASSUME TInv, NEW a \in Accounts, NEW ev \in relays[a], Arrive(a, ev)
    PROVE  TInv'
<1> USE DEF TInv
<1>1. UNCHANGED device
  BY DEF Arrive, local
<1>2. /\ Event' = Event /\ Task' = Task /\ Pub' = Pub /\ History' = History
  BY <1>1, SameTypes
<1>3. TypeOK'
  <2>1. ev \in Event /\ held' = [held EXCEPT ![a] = ev]
    BY DEF TypeOK, Arrive
  <2>2. status' \in Statuses
    BY DEF TypeOK, Arrive, Statuses
  <2>3. \A t \in adopts' : t.ev \in Event /\ t.acct \in Accounts /\ t.signer \in Accounts
    BY <2>1, DeviceTypes DEF TypeOK, Arrive, Offered, Authors
  <2> QED BY <1>1, <1>2, <2>1, <2>2, <2>3 DEF TypeOK, Arrive
<1>4. Shape'
  <2>1. ev \in Event /\ ev.layout.by \in Accounts /\ session \in Nat
    BY DeviceTypes DEF TypeOK, Authors
  <2>2. hist' \in History
    BY DEF Shape, History, Arrive
  <2>3. adopts' \subseteq Task
    BY <2>1, DeviceTypes DEF Shape, Task, Arrive, Offered
  <2> QED BY <1>2, <2>2, <2>3 DEF Shape, Arrive
<1>5. Bounds'
  BY DeviceTypes DEF Bounds, Arrive, local, TypeOK, Offered, Statuses
<1>6. Authors'
  BY DEF Authors, Arrive, local, TypeOK, Shape, Task, Pub, Offered, Statuses
<1>7. Publishes'
  BY DeviceTypes DEF Publishes, Bounds, Arrive, local, TypeOK, Shape, Task, Pub, Offered, Statuses
<1> QED BY <1>3, <1>4, <1>5, <1>6, <1>7

LEMMA AdoptT ==
    ASSUME TInv, NEW t \in adopts, Adopt(t)
    PROVE  TInv'
<1> USE DEF TInv
<1>1. UNCHANGED device
  BY DEF Adopt, local
<1>2. /\ Event' = Event /\ Task' = Task /\ Pub' = Pub /\ History' = History
  BY <1>1, SameTypes
<1>3. TypeOK'
  <2>1. t.ev \in Event /\ t.acct \in Accounts /\ t.ev.layout \in Layout
    BY EventTypes DEF Shape, Task
  <2> QED BY <1>1, <1>2, <2>1 DEF TypeOK, Adopt, Statuses
<1>4. Shape'
  <2>1. t.ev \in Event /\ t.acct \in Accounts /\ hist \in History
    BY DEF Shape, Task
  <2>2. hist' \in History
    <3> DEFINE newest == [hist.newest EXCEPT ![t.acct] = Newest(t.ev, @)]
    <3>1. /\ newest \in [Accounts -> Event \cup {None}]
          /\ hist.read \cup {t.ev} \in SUBSET Event
      BY <2>1 DEF Newest, History
    <3>2. \/ hist' = hist
          \/ \E b \in BOOLEAN, u \in SUBSET Accounts :
                hist' = [hist EXCEPT !.read = @ \cup {t.ev}, !.answered = TRUE, !.newest = newest,
                                     !.late = b, !.crossed = FALSE, !.unsent = u]
      BY <2>1 DEF Adopt, History
    <3> QED BY <2>1, <3>1, <3>2 DEF History
  <2> QED BY <1>2, <2>2 DEF Shape, Adopt
<1>5. Bounds'
  BY DeviceTypes DEF Bounds, Adopt, local, TypeOK, Stale, Statuses, Newest
<1>6. Authors'
  BY DEF Authors, Adopt, local, TypeOK, Shape, Task, Pub, Stale, Statuses, Newest
<1>7. Publishes'
  BY DeviceTypes DEF Publishes, Bounds, Adopt, local, TypeOK, Shape, Task, Pub, Stale, Statuses, Newest
<1> QED BY <1>3, <1>4, <1>5, <1>6, <1>7

LEMMA AdoptFailsT ==
    ASSUME TInv, NEW t \in adopts, AdoptFails(t)
    PROVE  TInv'
<1> USE DEF TInv
<1>1. UNCHANGED device
  BY DEF AdoptFails, local
<1>2. /\ Event' = Event /\ Task' = Task /\ Pub' = Pub /\ History' = History
  BY <1>1, SameTypes
<1>3. TypeOK'
  BY <1>1, <1>2 DEF TypeOK, AdoptFails, Statuses
<1>4. Shape'
  BY <1>2 DEF Shape, AdoptFails
<1>5. Bounds'
  BY <1>1 DEF Bounds, AdoptFails, Fails
<1>6. Authors'
  BY DEF Authors, AdoptFails, local, TypeOK, Shape, Task, Pub, Fails, Statuses
<1>7. Publishes'
  BY DeviceTypes DEF Publishes, Bounds, AdoptFails, local, TypeOK, Shape, Task, Pub, Fails, Statuses
<1> QED BY <1>3, <1>4, <1>5, <1>6, <1>7

LEMMA EditLayout ==
    ASSUME TInv, NEW a \in Accounts, spent.edits < device.edits \/ spent.others < device.others
    PROVE  NewLayout(a) \in Layout /\ NewLayout(a).by = a /\ NewLayout(a).n \in Nat
<1>1. spent.edits \in Nat /\ spent.others \in Nat /\ spent.edits <= device.edits /\ spent.others <= device.others
  BY DEF TInv, Bounds
<1>2. spent.edits + spent.others + 1 \in 1..MaxLayouts
  BY <1>1, DeviceTypes DEF TInv
<1> QED BY <1>2 DEF NewLayout, Layout

\* What an edit is stamped with wins over the stamp, and is not far ahead of the clock.
LEMMA NextStamp ==
    ASSUME TInv, NEW at, at = NextCreatedAt(stamp), at # None
    PROVE  at \in Nat /\ at <= now + Skew /\ (stamp # None => stamp.at < at)
<1>1. now \in Nat /\ Skew \in Nat /\ (stamp # None => stamp.at \in Nat)
  BY DeviceTypes, EventTypes DEF TInv, TypeOK, Bounds
<1> QED BY <1>1 DEF NextCreatedAt

LEMMA EditT ==
    ASSUME TInv, Edit
    PROVE  TInv'
<1> USE DEF TInv
<1>1. UNCHANGED device
  BY DEF Edit, local
<1>2. /\ Event' = Event /\ Task' = Task /\ Pub' = Pub /\ History' = History
  BY <1>1, SameTypes
<1>3. TypeOK'
  <2>1. spent' = [spent EXCEPT !.edits = @ + 1] /\ cache' = [cache EXCEPT ![active] = NewLayout(active)]
    BY DEF Edit
  <2>2. active \in Accounts /\ NewLayout(active) \in Layout
    BY EditLayout DEF TypeOK, Edit
  <2>3. status' \in Statuses /\ blocked' \in BOOLEAN
    BY DEF TypeOK, Edit, Statuses
  <2>4. \A p \in pubs' : p.layout \in Layout /\ p.ev \in Event \cup {None}
    BY <2>2 DEF TypeOK, Edit
  <2> QED BY <1>1, <1>2, <2>1, <2>2, <2>3, <2>4 DEF TypeOK, Edit
<1>4. Shape'
  <2> DEFINE L == NewLayout(active)
             at == NextCreatedAt(stamp)
  <2>1. active \in Accounts /\ L \in Layout /\ session \in Nat
    BY EditLayout, DeviceTypes DEF TypeOK, Edit
  <2>2. Wrong(active, at) \subseteq Wrongs
    BY DEF Wrong, Wrongs
  <2>3. PICK w \in SUBSET Wrongs : w = Wrong(active, at)
    BY <2>2
  <2>4. hist' = [hist EXCEPT !.unsent = @ \cup {active}] \/ hist' = [hist EXCEPT !.wrong = @ \cup w]
    BY <2>3 DEF Edit, Unsent
  <2>5. hist' \in History
    BY <2>1, <2>4 DEF Shape, History
  <2>6. at # None => at \in Nat
    BY NextStamp
  <2>7. pubs' \subseteq Pub
    BY <2>1, <2>6 DEF Shape, Pub, Edit
  <2> QED BY <1>2, <2>5, <2>7 DEF Shape, Edit
<1>5. Bounds'
  <2>1. /\ spent' = [spent EXCEPT !.edits = @ + 1] /\ spent.edits < device.edits
        /\ session' = session /\ toFollow' = toFollow /\ now' = now
    BY DEF Edit, local
  <2>2. /\ spent \in [edits : Nat, others : Nat, switches : Nat, failures : Nat]
        /\ spent.edits <= device.edits /\ spent.others <= device.others
        /\ device.edits \in Nat /\ device.others \in Nat
    BY DeviceTypes DEF Bounds
  <2>3. /\ spent' \in [edits : Nat, others : Nat, switches : Nat, failures : Nat]
        /\ spent'.switches = spent.switches
        /\ spent'.edits <= device.edits /\ spent'.others <= device.others
    BY ONLY <2>1, <2>2
  <2> QED BY <1>1, <2>1, <2>3 DEF Bounds
<1>6. Authors'
  BY DEF Authors, Edit
<1>7. Publishes'
  <2>1. now' = now /\ \A p \in pubs' : p \in pubs \/ (p.ev = None /\ p.at = NextCreatedAt(stamp) /\ p.at # None)
    BY DEF Edit
  <2> QED BY <2>1, NextStamp DEF Publishes
<1> QED BY <1>3, <1>4, <1>5, <1>6, <1>7

LEMMA SignedEvent ==
    ASSUME TInv, NEW p \in pubs, NEW id \in 1..MaxLayouts
    PROVE  [at |-> p.at, id |-> id, layout |-> p.layout] \in Event
<1>1. p.at \in Nat /\ p.layout \in Layout /\ p.at <= now + Skew
  BY DEF TInv, Shape, Publishes, Pub
<1>2. now \in Nat /\ now <= device.time /\ Skew \in Nat /\ device.time \in Nat
  BY DeviceTypes DEF TInv, Bounds
<1>3. p.at <= device.time + Skew
  BY <1>1, <1>2
<1> QED BY <1>1, <1>3, EventTypes DEF TInv

LEMMA SignT ==
    ASSUME TInv, NEW p \in pubs, NEW id \in 1..MaxLayouts, Sign(p, id)
    PROVE  TInv'
<1> USE DEF TInv
<1>1. UNCHANGED device
  BY DEF Sign, local
<1>2. /\ Event' = Event /\ Task' = Task /\ Pub' = Pub /\ History' = History
  BY <1>1, SameTypes
<1>3. TypeOK'
  <2>1. [at |-> p.at, id |-> id, layout |-> p.layout] \in Event
    BY SignedEvent
  <2>2. \A q \in pubs' : q.layout \in Layout /\ q.ev \in Event \cup {None}
    BY <2>1 DEF TypeOK, Shape, Pub, Sign
  <2> QED BY <1>1, <1>2, <2>2 DEF TypeOK, Sign, local
<1>4. Shape'
  <2> DEFINE ev == [at |-> p.at, id |-> id, layout |-> p.layout]
  <2>1. ev \in Event
    BY SignedEvent
  <2>2. pubs' \subseteq Pub
    BY <2>1 DEF Shape, Pub, Sign
  <2>3. hist' = [hist EXCEPT !.read = @ \cup {ev}]
    BY DEF Sign
  <2>4. hist' \in History
    BY <2>1, <2>3 DEF Shape, History
  <2> QED BY <1>2, <2>2, <2>4 DEF Shape, Sign
<1>5. Bounds'
  BY <1>1 DEF Bounds, Sign, Fails, local
<1>6. Authors'
  BY DEF Authors, Sign, local, TypeOK, Shape, Task, Pub
<1>7. Publishes'
  <2>1. /\ now' = now
        /\ \A q \in pubs' : q \in pubs \/ q = [p EXCEPT !.ev = [at |-> p.at, id |-> id, layout |-> p.layout]]
    BY DEF Sign
  <2> QED BY <2>1 DEF Publishes, Shape, Pub
<1> QED BY <1>3, <1>4, <1>5, <1>6, <1>7

LEMMA SignFailsT ==
    ASSUME TInv, NEW p \in pubs, SignFails(p)
    PROVE  TInv'
<1> USE DEF TInv
<1>1. UNCHANGED device
  BY DEF SignFails, local
<1>2. /\ Event' = Event /\ Task' = Task /\ Pub' = Pub /\ History' = History
  BY <1>1, SameTypes
<1>3. TypeOK'
  BY <1>2 DEF TypeOK, SignFails
<1>4. Shape'
  <2>1. p.layout.by \in Accounts
    BY DEF Shape, Pub, Layout
  <2>2. hist' \in History
    BY <2>1 DEF Shape, History, SignFails, Unsent
  <2> QED BY <1>2, <2>2 DEF Shape, SignFails
<1>5. Bounds'
  BY <1>1 DEF Bounds, SignFails, Fails, local
<1>6. Authors'
  BY DEF Authors, SignFails, local, TypeOK, Shape, Task, Pub, Fails
<1>7. Publishes'
  BY DeviceTypes DEF Publishes, Bounds, SignFails, local, TypeOK, Shape, Task, Pub, Fails
<1> QED BY <1>3, <1>4, <1>5, <1>6, <1>7

LEMMA LandT ==
    ASSUME TInv, NEW p \in pubs, Land(p)
    PROVE  TInv'
<1> USE DEF TInv
<1>1. UNCHANGED device
  BY DEF Land, local
<1>2. /\ Event' = Event /\ Task' = Task /\ Pub' = Pub /\ History' = History
  BY <1>1, SameTypes
<1>3. TypeOK'
  <2>1. p.ev \in Event /\ p.layout \in Layout /\ p.layout.by \in Accounts /\ p.ev.layout = p.layout
    BY DEF Shape, Pub, Publishes, Land, Layout
  <2>2. held' \in [Accounts -> Event \cup {None}] /\ relays' \in [Accounts -> SUBSET Event]
    BY <2>1 DEF TypeOK, Land, Store, Newest
  <2>3. \A t \in adopts' : t.ev \in Event /\ t.acct \in Accounts /\ t.signer \in Accounts
    BY <2>1, DeviceTypes DEF TypeOK, Land, Store, Offered
  <2>4. \A q \in pubs' : q \in pubs
    BY DEF Land
  <2> QED BY <1>1, <1>2, <2>1, <2>2, <2>3, <2>4 DEF TypeOK, Land, Statuses
<1>4. Shape'
  <2>1. p.ev \in Event /\ p.layout \in Layout /\ p.layout.by \in Accounts /\ p.ev.layout = p.layout /\ session \in Nat
    BY DeviceTypes DEF TypeOK, Shape, Pub, Publishes, Land, Layout
  <2>2. adopts' \subseteq Task
    BY <2>1, DeviceTypes DEF Shape, Task, Land, Store, Offered
  <2>3. hist' \in History
    <3> DEFINE newest == [hist.newest EXCEPT ![p.layout.by] = Newest(p.ev, @)]
    <3>1. newest \in [Accounts -> Event \cup {None}]
      BY <2>1 DEF Shape, Newest, History
    <3>2. PICK b \in BOOLEAN, c \in BOOLEAN :
             hist' = [hist EXCEPT !.newest = newest, !.late = b, !.crossed = c]
      BY DEF Land, Shape, History
    <3> QED BY <3>1, <3>2 DEF Shape, History
  <2>4. \A q \in pubs' : q \in pubs
    BY DEF Land
  <2> QED BY <1>2, <2>2, <2>3, <2>4 DEF Shape
<1>5. Bounds'
  BY DeviceTypes DEF Bounds, Land, local, TypeOK, Store, Offered, Newest, Statuses
<1>6. Authors'
  <2>1. p.ev \in Event /\ p.layout.by \in Accounts /\ p.ev.layout = p.layout
    BY DEF Shape, Pub, Publishes, Land, Layout
  <2>2. \A a \in Accounts : \A ev \in relays'[a] : ev.layout.by = a
    BY <2>1 DEF Authors, TypeOK, Land
  <2>3. \A a \in Accounts : held'[a] # None => held'[a].layout.by = a
    BY <2>1 DEF Authors, TypeOK, Land, Store, Newest
  <2>4. \A t \in adopts' : t.ev.layout.by = t.acct
    BY <2>1 DEF Authors, Land, Store, Offered
  <2> QED BY <2>2, <2>3, <2>4 DEF Authors
<1>7. Publishes'
  BY DeviceTypes DEF Publishes, Bounds, Land, local, TypeOK, Shape, Task, Pub, Store, Offered, Newest, Statuses
<1> QED BY <1>3, <1>4, <1>5, <1>6, <1>7

LEMMA RejectT ==
    ASSUME TInv, NEW p \in pubs, NEW reached \in BOOLEAN, Reject(p, reached)
    PROVE  TInv'
<1> USE DEF TInv
<1>1. UNCHANGED device
  BY DEF Reject, local
<1>2. /\ Event' = Event /\ Task' = Task /\ Pub' = Pub /\ History' = History
  BY <1>1, SameTypes
<1>3. TypeOK'
  <2>1. p.ev \in Event /\ p.layout.by \in Accounts
    BY DEF Shape, Pub, Reject, Layout
  <2>2. relays' \in [Accounts -> SUBSET Event]
    BY <2>1 DEF TypeOK, Reject
  <2> QED BY <1>1, <1>2, <2>2 DEF TypeOK, Reject
<1>4. Shape'
  <2>1. p.layout.by \in Accounts
    BY DEF Shape, Pub, Layout
  <2>2. hist' \in History
    BY <2>1 DEF Shape, History, Reject, Unsent
  <2> QED BY <1>2, <2>2 DEF Shape, Reject
<1>5. Bounds'
  BY <1>1 DEF Bounds, Reject, Fails, local
<1>6. Authors'
  <2>1. p.layout.by \in Accounts /\ p.ev.layout = p.layout
    BY DEF Shape, Pub, Publishes, Reject, Layout
  <2> QED BY <2>1 DEF Authors, TypeOK, Reject
<1>7. Publishes'
  BY DeviceTypes DEF Publishes, Bounds, Reject, local, TypeOK, Shape, Task, Pub, Fails
<1> QED BY <1>3, <1>4, <1>5, <1>6, <1>7

LEMMA OtherDeviceT ==
    ASSUME TInv, NEW a \in Accounts, NEW at \in Nat, NEW id \in 1..MaxLayouts, OtherDevice(a, at, id)
    PROVE  TInv'
<1> USE DEF TInv
<1>1. UNCHANGED device
  BY DEF OtherDevice, local
<1>2. /\ Event' = Event /\ Task' = Task /\ Pub' = Pub /\ History' = History
  BY <1>1, SameTypes
<1>3. TypeOK'
  <2> DEFINE ev == [at |-> at, id |-> id, layout |-> NewLayout(a)]
  <2>1. NewLayout(a) \in Layout /\ at <= device.time + device.ahead
    <3>1. spent.others < device.others /\ at <= now + device.ahead
      BY DEF OtherDevice
    <3>2. now \in Nat /\ now <= device.time /\ device.time \in Nat /\ device.ahead \in Nat
      BY DeviceTypes DEF Bounds
    <3>3. NewLayout(a) \in Layout
      BY <3>1, EditLayout
    <3> QED BY <3>1, <3>2, <3>3
  <2>2. ev \in Event
    BY <2>1, EventTypes
  <2>3. relays' = [relays EXCEPT ![a] = @ \cup {ev}]
    BY DEF OtherDevice
  <2> QED BY <1>1, <1>2, <2>2, <2>3 DEF TypeOK, OtherDevice, local
<1>4. Shape'
  BY <1>2, RailAssumption DEF Shape, OtherDevice, local, TypeOK, Task, Pub, History, NewLayout, Layout
<1>5. Bounds'
  <2>1. /\ spent' = [spent EXCEPT !.others = @ + 1] /\ spent.others < device.others
        /\ session' = session /\ toFollow' = toFollow /\ now' = now
    BY DEF OtherDevice, local
  <2>2. /\ spent \in [edits : Nat, others : Nat, switches : Nat, failures : Nat]
        /\ spent.edits <= device.edits /\ spent.others <= device.others
        /\ device.edits \in Nat /\ device.others \in Nat
    BY DeviceTypes DEF Bounds
  <2>3. /\ spent' \in [edits : Nat, others : Nat, switches : Nat, failures : Nat]
        /\ spent'.switches = spent.switches
        /\ spent'.edits <= device.edits /\ spent'.others <= device.others
    BY ONLY <2>1, <2>2
  <2> QED BY <1>1, <2>1, <2>3 DEF Bounds
<1>6. Authors'
  BY DEF Authors, OtherDevice, local, TypeOK, Shape, Task, Pub, NewLayout, Layout
<1>7. Publishes'
  BY DeviceTypes DEF Publishes, Bounds, OtherDevice, local, TypeOK, Shape, Task, Pub, NewLayout, Layout
<1> QED BY <1>3, <1>4, <1>5, <1>6, <1>7

LEMMA TickT ==
    ASSUME TInv, Tick
    PROVE  TInv'
<1> USE DEF TInv
<1>1. UNCHANGED device
  BY DEF Tick, local
<1>2. /\ Event' = Event /\ Task' = Task /\ Pub' = Pub /\ History' = History
  BY <1>1, SameTypes
<1>3. TypeOK'
  BY <1>1, <1>2 DEF TypeOK, Tick, local
<1>4. Shape'
  BY <1>2, RailAssumption DEF Shape, Tick, local, TypeOK, Task, Pub, History
<1>5. Bounds'
  BY <1>1, DeviceTypes DEF Bounds, Tick, local
<1>6. Authors'
  BY DEF Authors, Tick, local, TypeOK, Shape, Task, Pub
<1>7. Publishes'
  BY DeviceTypes DEF Publishes, Bounds, Tick, local, TypeOK, Shape, Task, Pub
<1> QED BY <1>3, <1>4, <1>5, <1>6, <1>7

LEMMA InitT == Init => TInv
<1> SUFFICES ASSUME Init PROVE TInv
  OBVIOUS
<1>1. device \in Device /\ device \in Devices
  BY RailAssumption DEF Init
<1>2. Len(toFollow) = 0 /\ toFollow \in Seq(Accounts \cup {None})
  BY EmptySeq DEF Init
<1>3. TypeOK
  <2>1. session \in 0..device.switches
    BY <1>1 DEF Init, Device
  <2> QED BY <1>1, <1>2, <2>1 DEF TypeOK, Init, Statuses
<1>4. Shape
  BY DEF Shape, History, Init
<1>5. Bounds
  BY <1>1, <1>2 DEF Bounds, Init, Device
<1>6. Authors /\ Publishes
  BY DEF Authors, Publishes, Init
<1> QED BY <1>3, <1>4, <1>5, <1>6 DEF TInv

LEMMA NextT == TInv /\ [Next]_vars => TInv'
<1> SUFFICES ASSUME TInv, [Next]_vars PROVE TInv'
  OBVIOUS
<1>1. CASE UNCHANGED vars
  <2>1. Event' = Event /\ Task' = Task /\ Pub' = Pub /\ History' = History
    BY <1>1, SameTypes DEF vars
  <2> QED BY <1>1, <2>1 DEF vars, local, TInv, TypeOK, Shape, Bounds, Authors, Publishes
<1>2. CASE FollowStep \/ LookupStep
  BY <1>2, FollowT, LookupCompletesT, LookupFailsT, RailAssumption DEF FollowStep, LookupStep
<1>3. CASE SignerStep
  BY <1>3, AdoptT, AdoptFailsT, SignT, SignFailsT DEF SignerStep
<1>4. CASE RelayStep
  BY <1>4, LandT, RejectT DEF RelayStep
<1>5. ASSUME NEW a \in Accounts, NEW at \in 0..(device.time + device.ahead), NEW id \in 1..MaxLayouts,
             OtherDevice(a, at, id)
      PROVE  TInv'
  <2>1. at \in Nat
    BY DeviceTypes DEF TInv
  <2> QED BY <1>5, <2>1, OtherDeviceT
<1> QED BY <1>1, <1>2, <1>3, <1>4, <1>5, SwitchT, ArriveT, EditT, TickT DEF Next

LEMMA TypesInvariant == Spec => []TInv
  BY InitT, NextT, PTL DEF Spec

\* Whatever the accounts, devices and bounds, what the layout sync keeps in
\* memory and on disk, and what relays hold of it, keeps its types.
THEOREM TypeCorrect == Spec => []TypeOK
<1>1. TInv => TypeOK
  BY DEF TInv
<1> QED BY <1>1, TypesInvariant, PTL

-----------------------------------------------------------------------------
(* Which of two events is newer. *)

\* An event is not newer than itself, and what is not newer than the event held
\* is not newer than the next one either.
LEMMA Newer ==
    ASSUME TypeOK, NEW e \in Event, NEW f \in Event \cup {None}, NEW g \in Event
    PROVE  /\ UpTo(e, e)
           /\ UpTo(g, f) /\ IsNewer(e, f) => UpTo(g, e) /\ IsNewer(e, g)
           /\ UpTo(e, Newest(e, f)) /\ Newest(e, f) \in Event
           /\ UpTo(g, f) => UpTo(g, Newest(e, f))
           /\ UpTo(e, g) /\ (f # None => UpTo(f, g)) => UpTo(Newest(e, f), g)
<1>1. /\ e.at \in Nat /\ e.id \in Nat /\ g.at \in Nat /\ g.id \in Nat
      /\ f # None => f.at \in Nat /\ f.id \in Nat
      /\ e # None /\ g # None
  BY EventTypes
<1> QED BY <1>1 DEF UpTo, IsNewer, Newest

-----------------------------------------------------------------------------
(* Every step keeps SInv. *)

LEMMA SwitchS ==
    ASSUME TInv, SInv, NEW a \in Accounts \cup {None}, Switch(a)
    PROVE  SInv'
<1> USE DEF SInv
<1>1. toFollow \in Seq(Accounts \cup {None}) /\ toFollow' = Append(toFollow, a)
  BY DEF TInv, TypeOK, Switch
<1>2. toFollow' # <<>> /\ Len(toFollow') = Len(toFollow) + 1 /\ toFollow'[Len(toFollow) + 1] = a
  BY <1>1, AppendProperties
<1>3. NotBehind'
  BY DEF NotBehind, UpTo, Switch, local
<1>4. Fresh' /\ Answered'
  BY DEF Fresh, Answered, Switch, local
<1>5. Followed'
  BY <1>2 DEF Followed, Switch, local
<1>6. Known' /\ Right'
  BY DEF Known, Awaited, Right, RemoteIsOwn, Switch, local
<1>7. Mirrored'
  BY <1>2 DEF Mirrored
<1> QED BY <1>3, <1>4, <1>5, <1>6, <1>7

LEMMA FollowS ==
    ASSUME TInv, SInv, NEW ask \in BOOLEAN, Follow(ask)
    PROVE  SInv'
<1> USE DEF SInv
<1> DEFINE a == Head(toFollow)
<1>1. /\ toFollow \in Seq(Accounts \cup {None}) /\ toFollow # <<>> /\ toFollow' = Tail(toFollow)
      /\ a \in Accounts \cup {None} /\ following' = a
  BY HeadTailProperties DEF TInv, TypeOK, Follow
<1>2. session \in Nat /\ session' = session + 1
  BY DeviceTypes DEF TInv, TypeOK, Follow
<1>3. /\ status' \in {"idle", "loading", "unavailable"} /\ stamp' = None /\ remote' = None
      /\ watching' => a # None /\ active \in device.nip44
      /\ status' = "loading" => watching'
  BY DEF Follow, Forget
<1>4. /\ hist'.newest = hist.newest /\ hist'.read = hist.read /\ hist'.wrong = hist.wrong
      /\ held' = held /\ relays' = relays /\ pubs' = pubs /\ active' = active /\ device' = device
  BY DEF TInv, Shape, History, Follow
<1>5. /\ \A t \in adopts' : t \in adopts \/ (held[a] # None /\ t.acct = a /\ t.ev = held[a] /\ a \in Accounts)
      /\ (status' = "loading" /\ held[a] # None => \E t \in adopts' : t.acct = a /\ t.ev = held[a])
  <2> DEFINE task == [acct |-> a, ev |-> held[a], signer |-> active, session |-> session + 1]
  <2>1. task.acct = a /\ task.ev = held[a]
    OBVIOUS
  <2>2. \/ adopts' = adopts /\ status' # "loading"
        \/ a # None /\ adopts' = adopts \cup IF held[a] = None THEN {} ELSE {task}
    BY DEF Follow
  <2> HIDE DEF task
  <2> QED BY <1>1, <2>1, <2>2
<1>6. NotBehind'
  <2>1. \A t \in adopts' : UpTo(t.ev, held[t.acct])
    <3> SUFFICES ASSUME NEW t \in adopts', t \notin adopts PROVE UpTo(t.ev, held[t.acct])
      BY DEF NotBehind
    <3>1. held[a] \in Event /\ t.acct = a /\ t.ev = held[a]
      BY <1>5 DEF TInv, TypeOK
    <3> QED BY <3>1, Newer DEF TInv
  <2> QED BY <1>3, <1>4, <2>1 DEF NotBehind, UpTo
<1>7. Fresh'
  BY <1>4 DEF Fresh
<1>8. Followed'
  <2>1. CASE Tail(toFollow) = <<>>
    <3>1. Len(toFollow) = 1 /\ toFollow[Len(toFollow)] = a
      <4>1. Len(Tail(toFollow)) = Len(toFollow) - 1 /\ Len(toFollow) \in Nat /\ a = toFollow[1]
        BY <1>1, HeadTailProperties
      <4>2. Len(Tail(toFollow)) = 0
        BY <2>1, EmptySeq
      <4>3. Len(toFollow) = 1
        BY <4>1, <4>2
      <4> QED BY <4>1, <4>3
    <3> QED BY <1>1, <1>3, <1>4, <2>1, <3>1 DEF Followed
  <2>2. CASE Tail(toFollow) # <<>>
    <3>1. Len(Tail(toFollow)) = Len(toFollow) - 1 /\ Len(toFollow) \in Nat /\ Len(toFollow) >= 2
      BY <1>1, <2>2, HeadTailProperties, EmptySeq
    <3>2. Tail(toFollow)[Len(toFollow) - 1] = toFollow[Len(toFollow)]
      BY <1>1, <3>1, HeadTailProperties
    <3> QED BY <1>1, <1>3, <1>4, <2>2, <3>1, <3>2 DEF Followed
  <2> QED BY <2>1, <2>2
<1>9. Answered'
  <2>1. \A p \in pubs : p.session \in Nat /\ p.session <= session
    BY DEF TInv, Shape, Pub, Answered
  <2> QED BY <1>2, <1>3, <1>4, <2>1 DEF Answered, CanPublish
<1>10. Known'
  BY <1>1, <1>3, <1>4, <1>5 DEF Known, Awaited, CanPublish
<1>11. Mirrored' /\ Right'
  BY <1>3, <1>4 DEF Mirrored, Right, RemoteIsOwn
<1> QED BY <1>6, <1>7, <1>8, <1>9, <1>10, <1>11

LEMMA LookupCompletesS ==
    ASSUME TInv, SInv, LookupCompletes
    PROVE  SInv'
<1> USE DEF SInv
<1>1. PICK b \in BOOLEAN : hist' = [hist EXCEPT !.answered = TRUE, !.hasty = b]
  BY DEF LookupCompletes, Awaited
<1>2. /\ hist'.newest = hist.newest /\ hist'.read = hist.read /\ hist'.wrong = hist.wrong
      /\ hist'.late = hist.late /\ hist'.crossed = hist.crossed /\ hist'.unsent = hist.unsent
      /\ hist'.answered
  BY <1>1 DEF TInv, Shape, History
<1>3. NotBehind' /\ Fresh' /\ Followed'
  BY <1>2 DEF NotBehind, UpTo, Fresh, Followed, LookupCompletes
<1>4. Answered' /\ Mirrored' /\ Right'
  BY <1>2 DEF Answered, Mirrored, Awaited, Right, RemoteIsOwn, LookupCompletes
<1>5. Known'
  BY <1>2 DEF Known, Awaited, CanPublish, LookupCompletes
<1> QED BY <1>3, <1>4, <1>5

LEMMA LookupFailsS ==
    ASSUME TInv, SInv, LookupFails
    PROVE  SInv'
<1> USE DEF SInv
<1>1. /\ hist'.newest = hist.newest /\ hist'.read = hist.read /\ hist'.wrong = hist.wrong
      /\ hist'.late = hist.late /\ hist'.crossed = hist.crossed /\ hist'.unsent = hist.unsent
      /\ hist'.answered = hist.answered
  BY DEF TInv, Shape, History, LookupFails
<1>2. NotBehind' /\ Fresh' /\ Followed'
  BY <1>1 DEF NotBehind, UpTo, Fresh, Followed, LookupFails
<1>3. Answered' /\ Known' /\ Mirrored' /\ Right'
  BY <1>1 DEF Answered, Known, Mirrored, Awaited, Right, RemoteIsOwn, LookupFails
<1> QED BY <1>2, <1>3

LEMMA ArriveS ==
    ASSUME TInv, SInv, NEW a \in Accounts, NEW ev \in relays[a], Arrive(a, ev)
    PROVE  SInv'
<1> USE DEF SInv
<1>1. /\ ev \in Event /\ ev.layout.by = a /\ IsNewer(ev, held[a]) /\ held \in [Accounts -> Event \cup {None}]
      /\ held' = [held EXCEPT ![a] = ev]
  BY DEF TInv, TypeOK, Authors, Arrive
<1>2. /\ UNCHANGED <<device, active, toFollow, following, session, remote, stamp, watching, pubs, cache, relays>>
      /\ hist'.newest = hist.newest /\ hist'.read = hist.read /\ hist'.wrong = hist.wrong
      /\ hist'.crossed = hist.crossed /\ hist'.unsent = hist.unsent
      /\ (hist.answered => hist'.answered)
      /\ (hist.late => hist'.late)
      /\ (following = a /\ ~watching => hist'.late)
      /\ status' \in {status, "unavailable"}
      /\ adopts \subseteq adopts'
      /\ \A t \in adopts' : t \in adopts \/ (t.acct = a /\ t.ev = ev)
  <2>1. hist' = [hist EXCEPT !.answered = TRUE] \/ hist' = [hist EXCEPT !.late = @ \/ following = a]
    BY DEF Arrive
  <2>2. ~watching => hist' = [hist EXCEPT !.late = @ \/ following = a]
    BY DEF Arrive
  <2>3. /\ adopts \subseteq adopts'
        /\ \A t \in adopts' : t \in adopts \/ (t.acct = a /\ t.ev = ev)
    BY <1>1 DEF Arrive, Offered
  <2> QED BY <2>1, <2>2, <2>3 DEF TInv, Shape, History, Arrive
<1>3. \A g \in Event : UpTo(g, held[a]) => UpTo(g, ev) /\ IsNewer(ev, g)
  BY <1>1, Newer DEF TInv
<1>4. UpTo(ev, ev)
  BY <1>1, Newer DEF TInv
<1>5. NotBehind'
  <2>1. \A b \in Accounts : held'[b] # None => held'[b] \in relays'[b]
    BY <1>1, <1>2 DEF NotBehind
  <2>2. \A b \in Accounts : \A g \in Event : UpTo(g, held[b]) => UpTo(g, held'[b])
    BY <1>1, <1>3
  <2>3. \A b \in Accounts : hist'.newest[b] # None => UpTo(hist'.newest[b], held'[b])
    <3>1. hist.newest \in [Accounts -> Event \cup {None}]
      BY DEF TInv, Shape, History
    <3> QED BY <1>2, <2>2, <3>1 DEF NotBehind
  <2>4. \A t \in adopts' : UpTo(t.ev, held'[t.acct])
    <3>1. \A t \in adopts : t.ev \in Event /\ t.acct \in Accounts /\ UpTo(t.ev, held[t.acct])
      BY DEF NotBehind, TInv, TypeOK
    <3> QED BY <1>1, <1>2, <1>4, <2>2, <3>1
  <2>5. stamp' # None /\ ~(hist'.late /\ hist'.crossed) => following' # None /\ UpTo(stamp', held'[following'])
    <3>1. stamp \in Event \cup {None} /\ following \in Accounts \cup {None}
      BY DEF TInv, TypeOK
    <3> QED BY <1>2, <2>2, <3>1 DEF NotBehind
  <2>6. QED
    BY <2>1, <2>3, <2>4, <2>5 DEF NotBehind, UpTo, IsNewer
<1>6. Fresh' /\ Followed'
  BY <1>2 DEF Fresh, Followed
<1>7. Answered'
  BY <1>2 DEF Answered, CanPublish
<1>8. ASSUME Awaited, following # a PROVE Awaited'
  BY <1>1, <1>2, <1>8 DEF Awaited, TInv, TypeOK
\* What arrives for the account that is followed is decrypted, unless nobody can.
<1>9. ASSUME following = a, watching, ~hist.late \/ ~hist.crossed \/ stamp = None
      PROVE  Awaited' \/ status' = "unavailable"
  <2>1. stamp \in Event \cup {None} /\ (stamp # None => UpTo(stamp, held[a]))
    BY <1>9 DEF TInv, TypeOK, NotBehind
  <2>2. IsNewer(ev, stamp)
    BY <1>3, <2>1 DEF IsNewer
  <2> DEFINE task == [acct |-> ev.layout.by, ev |-> ev, signer |-> active, session |-> session]
  <2>3. active \in device.nip44 => \E t \in adopts' : t.acct = a /\ t.ev = ev
    <3>1. active \in device.nip44 => adopts' = adopts \cup {task}
      BY <1>9, <2>2 DEF Arrive, Offered
    <3>2. task.acct = a /\ task.ev = ev
      BY <1>1
    <3> HIDE DEF task
    <3> QED BY <3>1, <3>2
  <2> QED BY <1>1, <1>2, <1>9, <2>2, <2>3 DEF Awaited, Arrive
<1>10. Known'
  <2>1. status' = "loading" => /\ following' # None /\ watching' /\ stamp' = None
                               /\ Awaited' \/ held'[following'] = None
    BY <1>1, <1>2, <1>8, <1>9 DEF Known, TInv, TypeOK
  <2>2. following' # None /\ CanPublish(status') /\ ~hist'.late => Awaited' \/ stamp' = held'[following']
    BY <1>1, <1>2, <1>8, <1>9 DEF Known, CanPublish, TInv, TypeOK
  <2> QED BY <1>2, <2>1, <2>2 DEF Known
<1>11. Mirrored'
  BY <1>1, <1>2, <1>8, <1>9 DEF Mirrored, TInv, TypeOK
<1>12. Right'
  BY <1>2 DEF Right, RemoteIsOwn
<1> QED BY <1>5, <1>6, <1>7, <1>10, <1>11, <1>12

LEMMA AdoptS ==
    ASSUME TInv, SInv, NEW t \in adopts, Adopt(t)
    PROVE  SInv'
<1> USE DEF SInv
<1>1. /\ UNCHANGED <<device, active, toFollow, following, session, watching, held, pubs, relays>>
      /\ adopts' = adopts \ {t}
  BY DEF Adopt
<1>2. /\ t.ev \in Event /\ t.acct \in Accounts /\ t.ev.layout.by = t.acct /\ UpTo(t.ev, held[t.acct])
      /\ None \notin Event /\ None \notin Accounts
  BY EventTypes, RailAssumption DEF TInv, TypeOK, Authors, NotBehind
<1>3. CASE Stale(t)
  <2>1. UNCHANGED <<status, remote, stamp, cache, hist>>
    BY <1>3 DEF Adopt
  <2>2. Awaited => Awaited'
    BY <1>1, <1>3 DEF Awaited, Stale
  <2>3. NotBehind' /\ Fresh' /\ Followed'
    BY <1>1, <2>1 DEF NotBehind, UpTo, Fresh, Followed
  <2>4. Answered' /\ Known' /\ Mirrored' /\ Right'
    BY <1>1, <2>1, <2>2 DEF Answered, Known, Mirrored, Right, RemoteIsOwn
  <2> QED BY <2>3, <2>4
<1>4. CASE ~Stale(t)
  <2>1. /\ following = t.acct
        /\ stamp' = t.ev /\ remote' = t.ev.layout /\ status' = "loaded"
        /\ cache' = [cache EXCEPT ![t.acct] = t.ev.layout]
    BY <1>4 DEF Adopt, Stale
  <2>2. /\ hist'.read = hist.read \cup {t.ev} /\ hist'.answered /\ ~hist'.crossed
        /\ hist'.newest = [hist.newest EXCEPT ![t.acct] = Newest(t.ev, @)]
        /\ hist'.late = (t.ev # held[t.acct]) /\ hist'.wrong = hist.wrong
    BY <1>4 DEF Adopt, TInv, Shape, History
  <2>3. NotBehind'
    <3>1. hist.newest \in [Accounts -> Event \cup {None}] /\ held \in [Accounts -> Event \cup {None}]
      BY DEF TInv, TypeOK, Shape, History
    <3>2. held[t.acct] \in Event
      BY <1>2, <3>1 DEF UpTo
    <3>3. UpTo(Newest(t.ev, hist.newest[t.acct]), held[t.acct])
      BY <1>2, <3>1, <3>2, Newer DEF TInv, NotBehind
    <3>4. \A a \in Accounts : hist'.newest[a] # None => UpTo(hist'.newest[a], held[a])
      BY <1>2, <2>2, <3>1, <3>3 DEF NotBehind
    <3> QED BY <1>1, <1>2, <2>1, <3>4 DEF NotBehind, UpTo
  <2>4. Fresh' /\ Followed'
    BY <1>1 DEF Fresh, Followed
  <2>5. Answered'
    BY <1>1, <2>2 DEF Answered
  <2>6. Known'
    BY <1>1, <1>2, <2>1, <2>2 DEF Known
  <2>7. Mirrored'
    BY <1>1, <1>2, <2>1, <2>2 DEF Mirrored, TInv, TypeOK
  <2>8. Right'
    BY <1>1, <1>2, <2>1, <2>2 DEF Right, RemoteIsOwn
  <2> QED BY <2>3, <2>4, <2>5, <2>6, <2>7, <2>8
<1> QED BY <1>3, <1>4

LEMMA AdoptFailsS ==
    ASSUME TInv, SInv, NEW t \in adopts, AdoptFails(t)
    PROVE  SInv'
<1> USE DEF SInv
<1>1. /\ UNCHANGED <<device, active, toFollow, following, session, remote, stamp, watching, held, pubs, cache,
                     relays, hist>>
      /\ adopts' = adopts \ {t}
      /\ status' = IF Stale(t) THEN status ELSE "locked"
  BY DEF AdoptFails
<1>2. NotBehind' /\ Fresh' /\ Followed' /\ Right'
  BY <1>1 DEF NotBehind, UpTo, Fresh, Followed, Right, RemoteIsOwn
<1>3. Awaited /\ Stale(t) => Awaited'
  BY <1>1 DEF Awaited, Stale
<1>4. Answered' /\ Known' /\ Mirrored'
  BY <1>1, <1>3 DEF Answered, Known, CanPublish, Mirrored
<1> QED BY <1>2, <1>4

LEMMA EditS ==
    ASSUME TInv, SInv, Edit
    PROVE  SInv'
<1> USE DEF SInv
<1> DEFINE at == NextCreatedAt(stamp)
           made == [layout |-> NewLayout(active), at |-> at, ev |-> None, session |-> session]
<1>1. /\ UNCHANGED <<device, active, toFollow, following, session, remote, stamp, watching, held, adopts, relays>>
      /\ active \in Accounts /\ active # None /\ status' \in {status, "unavailable"}
  BY RailAssumption DEF Edit, TInv, TypeOK
<1>2. /\ hist'.newest = hist.newest /\ hist'.read = hist.read /\ hist'.late = hist.late
      /\ hist'.crossed = hist.crossed /\ hist'.answered = hist.answered
  <2>1. PICK w : hist' = [hist EXCEPT !.unsent = @ \cup {active}] \/ hist' = [hist EXCEPT !.wrong = @ \cup w]
    BY DEF Edit, Unsent
  <2> QED BY <2>1 DEF TInv, Shape, History
<1>3. Awaited' = Awaited
  BY <1>1 DEF Awaited
<1>4. NotBehind' /\ Followed'
  BY <1>1, <1>2 DEF NotBehind, UpTo, Followed
\* Either the edit stays here, or it is published.
<1>5. CASE ~(pubs' = pubs \cup {made} /\ active = following /\ CanPublish(status) /\ at # None)
  <2>1. /\ pubs' = pubs /\ (active # following \/ active \in hist'.unsent) /\ hist'.wrong = hist.wrong
    BY <1>1, <1>5 DEF Edit, Unsent, TInv, Shape, History
  <2>2. Fresh' /\ Right' /\ Answered'
    BY <1>1, <1>2, <2>1 DEF Fresh, Right, RemoteIsOwn, Answered, CanPublish
  <2>3. Known'
    BY <1>1, <1>2, <1>3, <2>1 DEF Known, CanPublish
  <2>4. Mirrored'
    BY <1>1, <2>1 DEF Mirrored, Followed
  <2> QED BY <1>4, <2>2, <2>3, <2>4
<1>6. CASE pubs' = pubs \cup {made} /\ active = following /\ CanPublish(status) /\ at # None
  <2>1. made.layout.by = following /\ made.session = session /\ made.ev = None
    BY <1>6 DEF NewLayout
  <2>2. Fresh'
    BY <1>1, <1>6, <2>1 DEF Fresh
  <2>3. Answered'
    BY <1>1, <1>2, <1>6, <2>1, DeviceTypes DEF Answered, CanPublish, TInv, TypeOK
  <2>4. Known'
    BY <1>1, <1>2, <1>3, <1>6, <2>1 DEF Known, CanPublish
  <2>5. Mirrored'
    BY <1>1, <1>6, <2>1 DEF Mirrored
  <2>6. Wrong(active, at) \cap {"unread", "losing", "unasked"} = {}
    <3>1. "unasked" \notin Wrong(active, at)
      BY <1>6 DEF Wrong, Answered
    <3>2. hist.late \/ Awaited \/ stamp = held[active]
      BY <1>1, <1>6 DEF Known
    <3>3. "unread" \notin Wrong(active, at)
      BY <3>2 DEF Wrong, Known
    <3>4. ASSUME "losing" \in Wrong(active, at) PROVE FALSE
      <4>1. hist.newest[active] # None /\ at <= hist.newest[active].at /\ ~hist.late /\ ~Awaited
        BY <3>4 DEF Wrong
      <4>2. stamp = held[active] /\ stamp # None /\ ~IsNewer(hist.newest[active], stamp)
        BY <1>1, <3>2, <4>1 DEF NotBehind, UpTo
      <4>3. at \in Nat /\ stamp.at < at
        BY <1>6, <4>2, NextStamp
      <4>4. hist.newest[active] \in Event /\ stamp \in Event
        BY <1>1, <4>1, <4>2 DEF TInv, TypeOK, Shape, History
      <4>5. hist.newest[active].at \in Nat /\ stamp.at \in Nat
        BY <4>4, EventTypes DEF TInv
      <4> QED BY <4>1, <4>2, <4>3, <4>5 DEF IsNewer
    <3> QED BY <3>1, <3>3, <3>4
  <2>7. PICK w : w = Wrong(active, at)
    OBVIOUS
  <2>8. hist' = [hist EXCEPT !.wrong = @ \cup w] \/ hist'.wrong = hist.wrong
    BY <2>7 DEF Edit, Unsent, TInv, Shape, History
  <2>9. Right'
    BY <1>1, <1>2, <2>6, <2>7, <2>8 DEF Right, RemoteIsOwn, TInv, Shape, History
  <2> QED BY <1>4, <2>2, <2>3, <2>4, <2>5, <2>9
<1> QED BY <1>5, <1>6

LEMMA SignS ==
    ASSUME TInv, SInv, NEW p \in pubs, NEW id \in 1..MaxLayouts, Sign(p, id)
    PROVE  SInv'
<1> USE DEF SInv
<1> DEFINE ev == [at |-> p.at, id |-> id, layout |-> p.layout]
           signed == [p EXCEPT !.ev = ev]
<1>1. /\ UNCHANGED <<device, active, toFollow, local, held, adopts, cache, relays>>
      /\ p.ev = None /\ id \notin UsedIds
      /\ pubs' = (pubs \ {p}) \cup {signed}
      /\ hist' = [hist EXCEPT !.read = @ \cup {ev}]
  BY DEF Sign
<1>2. /\ hist'.newest = hist.newest /\ hist'.wrong = hist.wrong /\ hist'.late = hist.late
      /\ hist'.crossed = hist.crossed /\ hist'.unsent = hist.unsent /\ hist'.answered = hist.answered
      /\ hist'.read = hist.read \cup {ev}
  BY <1>1 DEF TInv, Shape, History
<1>3. signed.layout = p.layout /\ signed.session = p.session /\ signed.ev = ev /\ ev.id = id
  BY DEF TInv, Shape, Pub
<1>4. NotBehind' /\ Followed' /\ Right'
  BY <1>1, <1>2 DEF NotBehind, UpTo, Followed, Right, RemoteIsOwn, local
<1>5. Fresh'
  <2>1. \A a \in Accounts : \A e \in relays[a] : e.id # id
    BY <1>1 DEF UsedIds
  <2>2. \A q \in pubs : q.ev # None => q.ev.id # id
    BY <1>1 DEF UsedIds
  <2>3. /\ \A q \in pubs' : q = signed \/ q \in pubs
        /\ signed.ev.id = id
    BY <1>1, <1>3
  <2> HIDE DEF signed, ev
  <2> QED BY <1>1, <2>1, <2>2, <2>3 DEF Fresh
<1>6. Answered'
  BY <1>1, <1>2, <1>3 DEF Answered, local
<1>7. Known'
  BY <1>1, <1>2, <1>3 DEF Known, Awaited, local
<1>8. Mirrored'
  <2>1. (\E q \in pubs : q.layout.by = following) => \E q \in pubs' : q.layout.by = following
    <3>1. ASSUME NEW q \in pubs, q.layout.by = following
          PROVE  \E r \in pubs' : r.layout.by = following
      <4>1. CASE q = p
        BY <1>1, <1>3, <3>1, <4>1
      <4>2. CASE q # p
        BY <1>1, <3>1, <4>2
      <4> QED BY <4>1, <4>2
    <3> QED BY <3>1
  <2> QED BY <1>1, <1>2, <2>1 DEF Mirrored, Awaited, local
<1> QED BY <1>4, <1>5, <1>6, <1>7, <1>8

LEMMA SignFailsS ==
    ASSUME TInv, SInv, NEW p \in pubs, SignFails(p)
    PROVE  SInv'
<1> USE DEF SInv
<1>1. /\ UNCHANGED <<device, active, toFollow, following, session, status, remote, stamp, watching, held, adopts,
                     cache, relays>>
      /\ pubs' = pubs \ {p} /\ hist' = [hist EXCEPT !.unsent = @ \cup {p.layout.by}]
  BY DEF SignFails, Unsent
<1>2. /\ hist'.newest = hist.newest /\ hist'.read = hist.read /\ hist'.wrong = hist.wrong
      /\ hist'.late = hist.late /\ hist'.crossed = hist.crossed /\ hist'.answered = hist.answered
      /\ hist'.unsent = hist.unsent \cup {p.layout.by}
  BY <1>1 DEF TInv, Shape, History
<1>3. NotBehind' /\ Fresh' /\ Followed' /\ Right'
  BY <1>1, <1>2 DEF NotBehind, UpTo, Fresh, Followed, Right, RemoteIsOwn
<1>4. Answered' /\ Known' /\ Mirrored'
  BY <1>1, <1>2 DEF Answered, Known, Mirrored, Awaited
<1> QED BY <1>3, <1>4

LEMMA LandS ==
    ASSUME TInv, SInv, NEW p \in pubs, Land(p)
    PROVE  SInv'
<1> USE DEF SInv
<1> DEFINE a == p.layout.by
<1>1. /\ UNCHANGED <<device, active, toFollow, following, session, watching, cache>>
      /\ pubs' = pubs \ {p} /\ relays' = [relays EXCEPT ![a] = @ \cup {p.ev}]
      /\ held' = [held EXCEPT ![a] = Newest(p.ev, @)]
      /\ stamp' = p.ev /\ remote' = p.layout /\ status' = "loaded"
  BY DEF Land, Store
<1>2. /\ p.ev \in Event /\ p.ev # None /\ p.layout \in Layout /\ a \in Accounts /\ a # None
      /\ p.ev.layout = p.layout /\ p.session \in Nat
  BY RailAssumption DEF Land, TInv, Shape, Pub, Publishes, Layout
<1>3. /\ hist'.read = hist.read /\ hist'.wrong = hist.wrong /\ hist'.unsent = hist.unsent
      /\ hist'.answered = hist.answered
      /\ hist'.newest = [hist.newest EXCEPT ![a] = Newest(p.ev, @)]
      /\ hist'.late = (following = None \/ p.ev # held'[following])
      /\ hist'.crossed = (hist.crossed \/ p.session # session)
  BY DEF Land, TInv, Shape, History
<1>4. /\ held \in [Accounts -> Event \cup {None}] /\ hist.newest \in [Accounts -> Event \cup {None}]
      /\ relays \in [Accounts -> SUBSET Event] /\ stamp \in Event \cup {None}
      /\ following \in Accounts \cup {None}
  BY DEF TInv, TypeOK, Shape, History
<1>5. /\ adopts \subseteq adopts'
      /\ \A t \in adopts' : t \in adopts \/ (IsNewer(p.ev, held[a]) /\ t.acct = a /\ t.ev = p.ev)
  BY <1>2 DEF Land, Store, Offered
<1>6. held'[a] = Newest(p.ev, held[a]) /\ held'[a] \in Event /\ UpTo(p.ev, held'[a]) /\ UpTo(p.ev, p.ev)
  BY <1>1, <1>2, <1>4, Newer DEF TInv
<1>7. \A b \in Accounts : \A g \in Event : UpTo(g, held[b]) => UpTo(g, held'[b])
  <2>1. \A g \in Event : UpTo(g, held[a]) => UpTo(g, Newest(p.ev, held[a]))
    BY <1>2, <1>4, Newer DEF TInv
  <2> QED BY <1>1, <1>4, <2>1
<1>8. ~hist'.crossed => following # None /\ a = following /\ (hist.answered \/ hist.crossed)
  BY <1>3 DEF Answered
<1>9. NotBehind'
  <2>1. \A b \in Accounts : held'[b] # None => held'[b] \in relays'[b]
    BY <1>1, <1>2, <1>4 DEF NotBehind, Newest
  <2>2. \A b \in Accounts : hist'.newest[b] # None => UpTo(hist'.newest[b], held'[b])
    <3>1. UpTo(Newest(p.ev, hist.newest[a]), held'[a])
      <4>1. hist.newest[a] # None => UpTo(hist.newest[a], held'[a])
        BY <1>2, <1>4, <1>7 DEF NotBehind
      <4> QED BY <1>2, <1>4, <1>6, <4>1, Newer DEF TInv
    <3> QED BY <1>2, <1>3, <1>4, <1>7, <3>1 DEF NotBehind
  <2>3. \A t \in adopts' : UpTo(t.ev, held'[t.acct])
    <3>1. \A t \in adopts : t.ev \in Event /\ t.acct \in Accounts /\ UpTo(t.ev, held[t.acct])
      BY DEF NotBehind, TInv, TypeOK
    <3> QED BY <1>5, <1>6, <1>7, <3>1
  <2>4. ~(hist'.late /\ hist'.crossed) => following # None /\ UpTo(p.ev, held'[following])
    BY <1>3, <1>6, <1>8
  <2> QED BY <1>1, <2>1, <2>2, <2>3, <2>4 DEF NotBehind, UpTo, IsNewer
<1>10. \A b \in Accounts : \A e \in relays[b] : e.id # p.ev.id
  BY <1>2 DEF Fresh
<1>11. Fresh'
  <2>1. \A q \in pubs' : q \in pubs /\ (q.ev # None => q.ev.id # p.ev.id)
    BY <1>1, <1>2 DEF Fresh
  <2> QED BY <1>1, <1>2, <1>4, <2>1 DEF Fresh
<1>12. Followed'
  BY <1>1 DEF Followed
<1>13. Answered'
  BY <1>1, <1>3, <1>8 DEF Answered
<1>14. Known'
  <2>1. p.ev \in hist.read
    BY <1>2 DEF Known
  <2>2. ~hist'.late => p.ev = held'[following]
    BY <1>3
  <2> QED BY <1>1, <1>2, <1>3, <2>1, <2>2 DEF Known
<1>15. Mirrored'
  <2> SUFFICES ASSUME toFollow = <<>>, watching, ~hist'.late, ~hist'.crossed PROVE Awaited'
    BY <1>1 DEF Mirrored
  <2>1. a = following /\ p.ev = held'[a] /\ ~hist.crossed
    BY <1>3, <1>8
\* It replaces what was held, so the subscriber is given it.
  <2>2. IsNewer(p.ev, held[a])
    <3>1. held[a] # p.ev
      BY <1>2, <1>10 DEF NotBehind
    <3> QED BY <1>6, <2>1, <3>1 DEF Newest
  <2>3. IsNewer(p.ev, stamp)
    <3>1. CASE stamp = None
      BY <3>1 DEF IsNewer
    <3>2. CASE stamp # None
      <4>1. UpTo(stamp, held[a])
        BY <2>1, <3>2 DEF NotBehind
      <4> QED BY <1>2, <1>4, <2>2, <3>2, <4>1, Newer DEF TInv
    <3> QED BY <3>1, <3>2
  <2> DEFINE task == [acct |-> p.ev.layout.by, ev |-> p.ev, signer |-> active, session |-> session]
  <2>4. active \in device.nip44
    BY <2>1 DEF Followed
  <2>5. adopts' = adopts \cup {task}
    BY <2>1, <2>2, <2>3, <2>4 DEF Land, Store, Offered
  <2>6. task.acct = following /\ task.ev = held'[following]
    BY <1>2, <2>1
  <2> HIDE DEF task
  <2> QED BY <1>1, <2>5, <2>6 DEF Awaited
<1>16. Right'
  BY <1>1, <1>3, <1>8 DEF Right, RemoteIsOwn
<1> QED BY <1>9, <1>11, <1>12, <1>13, <1>14, <1>15, <1>16

LEMMA RejectS ==
    ASSUME TInv, SInv, NEW p \in pubs, NEW reached \in BOOLEAN, Reject(p, reached)
    PROVE  SInv'
<1> USE DEF SInv
<1>1. /\ UNCHANGED <<device, active, toFollow, following, session, status, remote, stamp, watching, held, adopts, cache>>
      /\ p.ev # None /\ pubs' = pubs \ {p}
      /\ relays' = IF reached THEN [relays EXCEPT ![p.layout.by] = @ \cup {p.ev}] ELSE relays
      /\ hist' = [hist EXCEPT !.unsent = @ \cup {p.layout.by}]
  BY DEF Reject, Unsent
<1>2. /\ hist'.newest = hist.newest /\ hist'.read = hist.read /\ hist'.wrong = hist.wrong
      /\ hist'.late = hist.late /\ hist'.crossed = hist.crossed /\ hist'.answered = hist.answered
      /\ hist'.unsent = hist.unsent \cup {p.layout.by}
  BY <1>1 DEF TInv, Shape, History
<1>3. \A a \in Accounts : relays[a] \subseteq relays'[a] /\ relays'[a] \subseteq relays[a] \cup {p.ev}
  BY <1>1 DEF TInv, TypeOK
<1>4. NotBehind'
  BY <1>1, <1>2, <1>3 DEF NotBehind, UpTo
<1>5. Fresh'
  <2>1. \A q \in pubs' : q \in pubs /\ (q.ev # None => q.ev.id # p.ev.id)
    BY <1>1 DEF Fresh
  <2> QED BY <1>1, <1>3, <2>1 DEF Fresh
<1>6. Followed' /\ Right'
  BY <1>1, <1>2 DEF Followed, Right, RemoteIsOwn
<1>7. Answered' /\ Known' /\ Mirrored'
  BY <1>1, <1>2 DEF Answered, Known, Mirrored, Awaited
<1> QED BY <1>4, <1>5, <1>6, <1>7

LEMMA OtherDeviceS ==
    ASSUME TInv, SInv, NEW a \in Accounts, NEW at \in Nat, NEW id \in 1..MaxLayouts, OtherDevice(a, at, id)
    PROVE  SInv'
<1> USE DEF SInv
<1> DEFINE ev == [at |-> at, id |-> id, layout |-> NewLayout(a)]
<1>1. /\ UNCHANGED <<device, active, toFollow, local, held, adopts, pubs, cache, hist>>
      /\ id \notin UsedIds /\ relays' = [relays EXCEPT ![a] = @ \cup {ev}]
  BY DEF OtherDevice
<1>2. \A b \in Accounts : relays[b] \subseteq relays'[b] /\ relays'[b] \subseteq relays[b] \cup {ev}
  BY <1>1 DEF TInv, TypeOK
<1>3. NotBehind'
  BY <1>1, <1>2 DEF NotBehind, UpTo, local
<1>4. Fresh'
  <2>1. \A p \in pubs : p.ev # None => p.ev.id # id
    BY <1>1 DEF UsedIds
  <2> QED BY <1>1, <1>2, <2>1 DEF Fresh
<1>5. Followed' /\ Answered' /\ Right'
  BY <1>1 DEF Followed, Answered, Right, RemoteIsOwn, local
<1>6. Known' /\ Mirrored'
  BY <1>1 DEF Known, Mirrored, Awaited, local
<1> QED BY <1>3, <1>4, <1>5, <1>6

LEMMA TickS ==
    ASSUME SInv, UNCHANGED <<device, active, toFollow, local, held, adopts, pubs, cache, relays, hist>>
    PROVE  SInv'
<1> USE DEF SInv, local
<1>1. NotBehind' /\ Fresh' /\ Followed' /\ Answered'
  BY DEF NotBehind, UpTo, Fresh, Followed, Answered
<1>2. Known' /\ Mirrored' /\ Right'
  BY DEF Known, Mirrored, Awaited, Right, RemoteIsOwn
<1> QED BY <1>1, <1>2

LEMMA InitS == Init => SInv
<1> SUFFICES ASSUME Init PROVE SInv
  OBVIOUS
<1>1. NotBehind /\ Fresh /\ Followed /\ Answered
  BY DEF Init, NotBehind, Fresh, Followed, Answered, CanPublish
<1>2. Known /\ Mirrored /\ Right
  BY DEF Init, Known, CanPublish, Mirrored, Right, RemoteIsOwn
<1> QED BY <1>1, <1>2 DEF SInv

LEMMA NextS == TInv /\ SInv /\ [Next]_vars => SInv'
<1> SUFFICES ASSUME TInv, SInv, [Next]_vars PROVE SInv'
  OBVIOUS
<1>1. CASE UNCHANGED vars \/ Tick
  BY <1>1, TickS DEF vars, Tick
<1>2. CASE FollowStep \/ LookupStep
  BY <1>2, FollowS, LookupCompletesS, LookupFailsS, RailAssumption DEF FollowStep, LookupStep
<1>3. CASE SignerStep
  BY <1>3, AdoptS, AdoptFailsS, SignS, SignFailsS DEF SignerStep
<1>4. CASE RelayStep
  BY <1>4, LandS, RejectS DEF RelayStep
<1>5. ASSUME NEW a \in Accounts, NEW at \in 0..(device.time + device.ahead), NEW id \in 1..MaxLayouts,
             OtherDevice(a, at, id)
      PROVE  SInv'
  <2>1. at \in Nat
    BY DeviceTypes DEF TInv
  <2> QED BY <1>5, <2>1, OtherDeviceS
<1> QED BY <1>1, <1>2, <1>3, <1>4, <1>5, SwitchS, ArriveS, EditS DEF Next

-----------------------------------------------------------------------------
(* The theorems.  In all of them decrypts, signatures, publishes, lookups,   *)
(* account switches and other devices interleave in any order.               *)

LEMMA Invariant == Spec => [](TInv /\ SInv)
BY InitT, NextT, InitS, NextS, PTL DEF Spec

\* No edit is published in a session that has heard neither from the relays nor
\* from the event store, unless a publish of an earlier session landed in it.
THEOREM AsksFirst == Spec => []AnsweredFirst
<1>1. SInv => AnsweredFirst
  BY DEF SInv, Right, AnsweredFirst
<1> QED BY <1>1, Invariant, PTL

\* An edit that is published replaces an arrangement this device has read: what
\* opens the gate either decrypted the newest event it was given or waits for it.
THEOREM ReplacesWhatItRead == Spec => []ReadBeforeReplaced
<1>1. SInv => ReadBeforeReplaced
  BY DEF SInv, Right, ReadBeforeReplaced
<1> QED BY <1>1, Invariant, PTL

\* The created_at of an edit that is published beats every event this device has
\* adopted or landed before, however far the clock of another device is ahead.
THEOREM EditBeats == Spec => []EditsWin
<1>1. SInv => EditsWin
  BY DEF SInv, Right, EditsWin
<1> QED BY <1>1, Invariant, PTL

\* A decrypt that ends after the account was switched leaves the remote state alone.
THEOREM OwnRemote == Spec => []RemoteIsOwn
<1>1. SInv => RemoteIsOwn
  BY DEF SInv, Right
<1> QED BY <1>1, Invariant, PTL

\* Whatever arrived, landed or failed on the way: a session at rest shows the
\* newest arrangement the device was given, and keeps a local copy of it.
THEOREM RestsOnNewest == Spec => []RestShowsNewest
<1>1. ASSUME TInv, SInv, toFollow = <<>>, adopts = {}, pubs = {}, watching, status = "loaded",
             ~hist.late, ~hist.crossed
      PROVE  /\ held[following] # None
             /\ stamp = held[following] /\ remote = held[following].layout
             /\ following \notin hist.unsent => cache[following] = remote
  <2>1. ~Awaited /\ ~(\E p \in pubs : p.layout.by = following)
    BY <1>1 DEF Awaited
  <2>2. following # None /\ stamp # None /\ remote = stamp.layout /\ stamp = held[following]
    BY <1>1, <2>1 DEF SInv, Known, Followed, CanPublish
  <2>3. following \notin hist.unsent => cache[following] = held[following].layout
    BY <1>1, <2>1 DEF SInv, Mirrored
  <2> QED BY <2>2, <2>3
<1>2. TInv /\ SInv => RestShowsNewest
  BY <1>1 DEF RestShowsNewest
<1> QED BY <1>2, Invariant, PTL
=============================================================================
