-------------------------- MODULE CordnGroupsProofs --------------------------
(***************************************************************************)
(* Theorems about CordnGroups, for any devices, people and bounds.         *)
(*                                                                         *)
(* KeepsUp is not inductive: that a message which does not open may be     *)
(* skipped rests on the device having read its own commits, that a section *)
(* may write back what it read rests on the lock, and that the cursor      *)
(* moves by one rests on what queues for the lock.  Inv says all of it.    *)
(*                                                                         *)
(* The second part shows that a client which keeps up shows what was sent  *)
(* to it.  On top of Inv: MLS refuses a generation only because an earlier *)
(* text took it up (UsedRow), and the row on disk has shown what it has    *)
(* read as well (DevReads), since a reload goes on from it.                *)
(*                                                                         *)
(* The third part is about steps: a row only goes forward, but for a       *)
(* reload, which takes it back to a row it has been through (Behind).      *)
(***************************************************************************)
EXTENDS CordnGroups, SequenceTheorems, TLAPS

-----------------------------------------------------------------------------
(* The inductive invariant. *)

\* What tip records is the chain of the commits, each sealed for the epoch before it.
LogOK ==
    \A c \in 1..Len(log) :
        log[c].tip = IF log[c].kind = "commit" /\ log[c].epoch = Canon(c - 1)
                     THEN c ELSE Canon(c - 1)

WelcomesOK == /\ \A w \in welcomes : w.after <= Len(log)
              /\ \A d \in Devices : \A w \in listed[d] : w.after <= Len(log)

RowOK(v) ==
    /\ v.cursor <= Len(log)
    /\ ~v.in => v.cursor = 0
    /\ \A i \in 1..Len(v.shown) : v.shown[i] <= v.cursor
    /\ \A i, j \in 1..Len(v.shown) : i < j => v.shown[i] < v.shown[j]

\* What waits for the lock begins no later than the first unread message.
TaskOK(d, t) ==
    /\ t.op # "accept" => view[d].in
    /\ t.op = "ingest" => 1 <= t.from /\ t.from <= view[d].cursor + 1 /\ t.upto <= Len(log)
    /\ t.op = "accept" => t.welcome.after <= Len(log)

QueueOK(d) == \A i \in 1..Len(tasks[d]) : TaskOK(d, tasks[d][i])

\* The section that holds the lock knows the state it read, and its post is unread.
SectionOK(d, s) ==
    /\ s.phase \in {"post", "sent", "clean", "dirty"} => view[d].in
    /\ s.phase \in {"post", "sent"} => s.task.op \in {"send", "add"} /\ s.epoch = view[d].epoch
    /\ s.phase = "sent" =>
          /\ s.at \in 1..Len(log) /\ view[d].cursor < s.at
          /\ log[s.at].by[1] = d /\ log[s.at].epoch = s.epoch
          /\ log[s.at].kind = "commit" <=> s.task.op = "add"
    /\ s.phase = "welcome" => s.task.op = "add" /\ s.at <= Len(log)
    /\ s.phase = "ack" => s.task.op = "accept"
    /\ s.phase \in {"clean", "dirty"} =>
          /\ s.task.op = "ingest" /\ s.task.upto <= Len(log)
          /\ 1 <= s.at /\ s.at <= view[d].cursor + 1

LockOK(d) == /\ \A s \in running[d] : SectionOK(d, s)
             /\ \A s, r \in running[d] : s = r

PostedOK(d) == \A c \in posted[d] : c \in 1..Len(log) /\ log[c].by[1] = d

\* No commit of the device's own is ahead of it, but for one whose answer it awaits.
OwnRead(d) ==
    \A c \in 1..Len(log) :
        log[c].kind = "commit" /\ log[c].by[1] = d /\ c > view[d].cursor
            => \E s \in running[d] : s.phase = "sent" /\ s.at = c

EpochOK(d) == strayed[d] \/ (OwnRead(d) /\ InStep(view[d]) /\ InStep(disk[d]))

DevOK(d) == /\ RowOK(view[d]) /\ RowOK(disk[d]) /\ QueueOK(d) /\ LockOK(d)
            /\ PostedOK(d) /\ EpochOK(d)

Inv == Types /\ LogOK /\ WelcomesOK /\ \A d \in Devices : DevOK(d)
-----------------------------------------------------------------------------
(* Types, frames and the queue. *)

LEMMA Typed ==
    ASSUME Types
    PROVE  /\ Len(log) \in Nat /\ \A c \in 1..Len(log) : log[c] \in Message
           /\ \A d \in Devices : /\ view[d] \in View /\ disk[d] \in View
                                 /\ tasks[d] \in Seq(Task) /\ running[d] \subseteq Section
                                 /\ strayed[d] \in BOOLEAN /\ posted[d] \subseteq Nat
           /\ \A c \in 0..Len(log) : Canon(c) \in Nat
<1>1. Len(log) \in Nat /\ \A c \in 1..Len(log) : log[c] \in Message
  BY ElementOfSeq, LenProperties DEF Types
<1>2. \A c \in 0..Len(log) : Canon(c) \in Nat
  BY <1>1 DEF Canon, Message
<1> QED BY <1>1, <1>2 DEF Types

LEMMA TaskTypes ==
    ASSUME NEW t \in Task
    PROVE  /\ t.op \in {"send", "add", "accept", "ingest"}
           /\ t.op = "add" => t.who \in Person
           /\ t.op = "accept" => t.welcome \in Welcome
           /\ t.op = "ingest" => t.from \in Nat /\ t.upto \in Nat
  BY DEF Task

\* The log only grows, by messages of device d.
Grown(d) ==
    /\ Len(log') \in Nat /\ Len(log) <= Len(log')
    /\ \A c \in 1..Len(log) : log'[c] = log[c]
    /\ \A c \in 1..Len(log') : c > Len(log) => log'[c].by[1] = d

Same(e) == /\ view'[e] = view[e] /\ disk'[e] = disk[e] /\ posted'[e] = posted[e]
           /\ tasks'[e] = tasks[e] /\ running'[e] = running[e] /\ strayed'[e] = strayed[e]

\* What holds of a row, a task or a section holds in a longer log.
LEMMA RowKeeps ==
    ASSUME NEW v \in View, RowOK(v), Len(log) \in Nat, Len(log') \in Nat, Len(log) <= Len(log')
    PROVE  RowOK(v)'
<1>1. v.cursor \in Nat /\ v.cursor <= Len(log)
  BY DEF View, RowOK
<1>2. v.cursor <= Len(log')
  BY <1>1
<1> QED BY <1>2 DEF RowOK

LEMMA CanonKeeps ==
    ASSUME NEW d, Grown(d), NEW c \in Nat, c <= Len(log), Len(log) \in Nat
    PROVE  Canon(c)' = Canon(c)
<1>1. c # 0 => c \in 1..Len(log)
  OBVIOUS
<1> QED BY <1>1 DEF Canon, Grown

\* A step of one device leaves what holds of the others.
LEMMA Frame ==
    ASSUME Inv, NEW d \in Devices, NEW e \in Devices, e # d, Grown(d), Same(e)
    PROVE  DevOK(e)'
<1>1. /\ Len(log) \in Nat /\ Len(log') \in Nat /\ view[e] \in View /\ disk[e] \in View
      /\ tasks[e] \in Seq(Task) /\ running[e] \subseteq Section /\ posted[e] \subseteq Nat
  BY Typed DEF Inv, Grown
<1>2. DevOK(e)
  BY DEF Inv
<1>3. RowOK(view[e])' /\ RowOK(disk[e])'
  <2>1. PICK v \in View, w \in View : v = view[e] /\ v = view'[e] /\ w = disk[e] /\ w = disk'[e]
    BY <1>1 DEF Same
  <2>2. RowOK(v) /\ RowOK(w)
    BY <1>2, <2>1 DEF DevOK
  <2>3. RowOK(v)' /\ RowOK(w)'
    BY <1>1, <2>2, RowKeeps DEF Grown
  <2> QED BY <2>1, <2>3 DEF RowOK
<1>4. QueueOK(e)'
  <2>1. \A i \in 1..Len(tasks[e]) : tasks[e][i] \in Task
    BY <1>1, ElementOfSeq
  <2>2. SUFFICES ASSUME NEW i \in 1..Len(tasks[e]) PROVE TaskOK(e, tasks[e][i])'
    BY DEF QueueOK, Same
  <2>3. TaskOK(e, tasks[e][i]) /\ tasks[e][i] \in Task
    BY <1>2, <2>1 DEF DevOK, QueueOK
  <2>4. view'[e] = view[e] /\ view[e].cursor \in Nat /\ Len(log) <= Len(log')
    BY <1>1 DEF Same, Grown, View
  <2>5. tasks'[e][i] = tasks[e][i]
    BY DEF Same
  <2>6. PICK t \in Task : t = tasks[e][i] /\ TaskOK(e, t)
    BY <2>3
  <2>7. t.op = "ingest" => t.upto \in Nat
    BY TaskTypes
  <2>8. t.op = "accept" => t.welcome.after \in Nat
    BY TaskTypes DEF Welcome
  <2>9. TaskOK(e, t)'
    BY <1>1, <2>4, <2>6, <2>7, <2>8 DEF TaskOK
  <2> QED BY <2>5, <2>6, <2>9 DEF TaskOK
<1>5. LockOK(e)'
  <2>1. SUFFICES ASSUME NEW s \in running[e] PROVE SectionOK(e, s)'
    BY <1>2 DEF DevOK, LockOK, Same
  <2>2. SectionOK(e, s) /\ s \in Section
    BY <1>1, <1>2 DEF DevOK, LockOK
  <2>3. view'[e] = view[e] /\ Len(log) <= Len(log') /\ s.at \in Nat /\ s.task \in Task
    BY <2>2 DEF Same, Grown, Section
  <2>4. s.task.op = "ingest" => s.task.upto \in Nat
    BY <2>3, TaskTypes
  <2>5. s.phase = "sent" => s.at \in 1..Len(log') /\ log'[s.at] = log[s.at]
    BY <1>1, <2>2, <2>3 DEF SectionOK, Grown
  <2>6. s.phase = "welcome" => s.at <= Len(log')
    BY <1>1, <2>2, <2>3 DEF SectionOK
  <2>7. s.phase \in {"clean", "dirty"} => s.task.upto <= Len(log')
    BY <1>1, <2>2, <2>3, <2>4 DEF SectionOK
  <2> QED BY <2>2, <2>3, <2>5, <2>6, <2>7 DEF SectionOK
<1>6. PostedOK(e)'
  BY <1>1, <1>2 DEF DevOK, PostedOK, Grown, Same
<1>7. EpochOK(e)'
  <2>1. ASSUME OwnRead(e) PROVE OwnRead(e)'
    BY <1>1, <2>1 DEF OwnRead, Grown, Same
  <2>2. \A v \in {view[e], disk[e]} : Canon(v.cursor)' = Canon(v.cursor)
    BY <1>1, <1>2, CanonKeeps DEF DevOK, RowOK, View
  <2> QED BY <1>2, <2>1, <2>2 DEF DevOK, EpochOK, InStep, Same
<1> QED BY <1>3, <1>4, <1>5, <1>6, <1>7 DEF DevOK

\* Appending to the queue and taking from it.
LEMMA QueueAppend ==
    ASSUME Inv, NEW d \in Devices, NEW t \in Task, TaskOK(d, t),
           tasks' = [tasks EXCEPT ![d] = Append(tasks[d], t)], UNCHANGED <<log, view>>
    PROVE  tasks' \in [Devices -> Seq(Task)] /\ QueueOK(d)'
<1>1. tasks[d] \in Seq(Task) /\ tasks \in [Devices -> Seq(Task)] /\ Len(tasks[d]) \in Nat
  BY Typed, LenProperties DEF Inv, Types
<1>2. tasks'[d] = Append(tasks[d], t) /\ tasks' \in [Devices -> Seq(Task)]
  BY <1>1, AppendProperties
<1>3. \A i \in 1..Len(tasks'[d]) : tasks'[d][i] = t \/ \E j \in 1..Len(tasks[d]) : tasks'[d][i] = tasks[d][j]
  BY <1>1, <1>2, AppendProperties
<1>4. \A u : TaskOK(d, u) => TaskOK(d, u)'
  BY DEF TaskOK
<1>5. \A j \in 1..Len(tasks[d]) : TaskOK(d, tasks[d][j])
  BY DEF Inv, DevOK, QueueOK
<1> QED BY <1>2, <1>3, <1>4, <1>5 DEF QueueOK

LEMMA QueueTake ==
    ASSUME Inv, NEW d \in Devices, NEW op, Take(d, op)
    PROVE  /\ tasks' \in [Devices -> Seq(Task)] /\ running[d] = {}
           /\ Head(tasks[d]) \in Task /\ TaskOK(d, Head(tasks[d])) /\ Head(tasks[d]).op = op
           /\ \A i \in 1..Len(tasks'[d]) : tasks'[d][i] \in Task /\ TaskOK(d, tasks'[d][i])
<1>1. tasks[d] \in Seq(Task) /\ tasks \in [Devices -> Seq(Task)] /\ tasks[d] # <<>>
  BY Typed DEF Inv, Types, Take
<1>2. /\ Tail(tasks[d]) \in Seq(Task) /\ Len(tasks[d]) \in Nat /\ Len(Tail(tasks[d])) = Len(tasks[d]) - 1
      /\ \A i \in 1..Len(Tail(tasks[d])) : Tail(tasks[d])[i] = tasks[d][i + 1]
  BY <1>1, HeadTailProperties, LenProperties
<1>3. tasks' \in [Devices -> Seq(Task)] /\ tasks'[d] = Tail(tasks[d])
  BY <1>1, <1>2 DEF Take
<1>4. \A i \in 1..Len(tasks[d]) : tasks[d][i] \in Task /\ TaskOK(d, tasks[d][i])
  BY <1>1, ElementOfSeq DEF Inv, DevOK, QueueOK
<1>5. Len(tasks[d]) > 0 /\ Head(tasks[d]) = tasks[d][1]
  BY <1>1, <1>2, EmptySeq
<1> QED BY <1>2, <1>3, <1>4, <1>5 DEF Take, Free
-----------------------------------------------------------------------------
(* Steps that leave the log and the rows in memory alone. *)

LEMMA LogStays ==
    ASSUME Inv, NEW d \in Devices, log' = log
    PROVE  Grown(d) /\ LogOK' /\ \A c : Canon(c)' = Canon(c)
<1>1. Len(log) \in Nat
  BY Typed DEF Inv
<1> QED BY <1>1 DEF Grown, LogOK, Canon, Inv

LEMMA Assemble ==
    ASSUME Inv, NEW d \in Devices, Types', Grown(d), LogOK', WelcomesOK', DevOK(d)',
           \A e \in Devices : e # d => Same(e)
    PROVE  Inv'
<1>1. \A e \in Devices : e # d => DevOK(e)'
  BY Frame
<1> QED BY <1>1 DEF Inv

\* A section ends or goes on, a task is queued, a row is saved.
LEMMA Calm ==
    ASSUME Inv, NEW d \in Devices, log' = log, view' = view, posted' = posted,
           disk'[d] \in {disk[d], view[d]}, QueueOK(d)', LockOK(d)',
           strayed[d] => strayed'[d],
           strayed'[d] \/ \A s \in running[d] :
                              s.phase = "sent" => s \in running'[d] \/ s.task.op = "send"
    PROVE  DevOK(d)'
<1>1. DevOK(d)
  BY DEF Inv
<1>2. RowOK(view[d])'
  BY <1>1 DEF DevOK, RowOK
<1>3. RowOK(disk[d])'
  <2>1. PICK v : v = disk'[d] /\ RowOK(v)
    BY <1>1 DEF DevOK
  <2> QED BY <2>1 DEF RowOK
<1>4. PostedOK(d)'
  BY <1>1 DEF DevOK, PostedOK
<1>5. EpochOK(d)'
  <2>1. CASE strayed'[d]
    BY <2>1 DEF EpochOK
  <2>2. CASE ~strayed'[d]
    <3>1. OwnRead(d) /\ InStep(view[d]) /\ InStep(disk[d])
      BY <1>1, <2>2 DEF DevOK, EpochOK
    <3>2. InStep(view[d])' /\ InStep(disk[d])'
      BY <3>1, LogStays DEF InStep
    <3>3. OwnRead(d)'
      <4>1. SUFFICES ASSUME NEW c \in 1..Len(log), log[c].kind = "commit", log[c].by[1] = d,
                            c > view[d].cursor
                     PROVE  \E s \in running'[d] : s.phase = "sent" /\ s.at = c
        BY DEF OwnRead
      <4>2. PICK s \in running[d] : s.phase = "sent" /\ s.at = c
        BY <3>1, <4>1 DEF OwnRead
      <4>3. s.task.op = "add"
        BY <1>1, <4>1, <4>2 DEF DevOK, LockOK, SectionOK
      <4> QED BY <2>2, <4>2, <4>3
    <3> QED BY <3>2, <3>3 DEF EpochOK
  <2> QED BY <2>1, <2>2
<1> QED BY <1>2, <1>3, <1>4, <1>5 DEF DevOK

\* The queue is not touched.
LEMMA QueueStays ==
    ASSUME Inv, NEW d \in Devices, log' = log, tasks' = tasks,
           view'[d].cursor \in Nat, view[d].cursor <= view'[d].cursor,
           view[d].in => view'[d].in
    PROVE  QueueOK(d)'
<1>1. tasks[d] \in Seq(Task) /\ view[d].cursor \in Nat
  BY Typed DEF Inv, View
<1>2. SUFFICES ASSUME NEW i \in 1..Len(tasks[d]) PROVE TaskOK(d, tasks[d][i])'
  BY DEF QueueOK
<1>3. PICK t \in Task : t = tasks[d][i] /\ TaskOK(d, t)
  BY <1>1, ElementOfSeq DEF Inv, DevOK, QueueOK
<1>4. t.op = "ingest" => t.from \in Nat
  BY TaskTypes
<1>5. TaskOK(d, t)'
  BY <1>1, <1>3, <1>4 DEF TaskOK
<1> QED BY <1>3, <1>5 DEF TaskOK

LEMMA AskInv == ASSUME Inv, NEW d \in Devices, Ask(d) PROVE Inv'
<1>1. /\ \A w \in Pending(d) : w \in Welcome /\ w.after <= Len(log)
      /\ \A w \in listed[d] : w \in Welcome /\ w.after <= Len(log)
  BY DEF Pending, Inv, Types, WelcomesOK
<1>2. PICK t \in Task : /\ TaskOK(d, t)
                       /\ tasks' = [tasks EXCEPT ![d] = Append(tasks[d], t)]
  <2>1. \A t \in UserTasks(d) : t \in Task /\ TaskOK(d, t)
    BY DEF UserTasks, Task, TaskOK
  <2>2. ASSUME NEW w \in Pending(d) \cup listed[d]
        PROVE  LET t == [op |-> "accept", welcome |-> w] IN t \in Task /\ TaskOK(d, t)
    BY <1>1, <2>2 DEF Task, TaskOK
  <2> QED BY <2>1, <2>2 DEF Ask
<1>9. listed' = listed \/ \E list \in {listed[d], Pending(d)} : listed' = [listed EXCEPT ![d] = list]
  BY DEF Ask
<1>3. UNCHANGED <<log, view, disk, posted, running, strayed, welcomes>>
  BY DEF Ask, coordinator, history
<1>4. tasks' \in [Devices -> Seq(Task)] /\ QueueOK(d)'
  BY <1>2, <1>3, QueueAppend
<1>10. listed' \in [Devices -> SUBSET Welcome] /\ \A e \in Devices : \A w \in listed'[e] : w.after <= Len(log)
  <2>1. listed \in [Devices -> SUBSET Welcome] /\ \A e \in Devices : \A w \in listed[e] : w.after <= Len(log)
    BY DEF Inv, Types, WelcomesOK
  <2>2. ASSUME NEW list \in {listed[d], Pending(d)}, listed' = [listed EXCEPT ![d] = list]
        PROVE  /\ listed' \in [Devices -> SUBSET Welcome]
               /\ \A e \in Devices : \A w \in listed'[e] : w.after <= Len(log)
    <3>1. list \in SUBSET Welcome /\ \A w \in list : w.after <= Len(log)
      BY <1>1
    <3>2. listed' \in [Devices -> SUBSET Welcome] /\ \A e \in Devices : listed'[e] = IF e = d THEN list ELSE listed[e]
      BY <2>1, <2>2, <3>1
    <3> QED BY <2>1, <3>1, <3>2
  <2> QED BY <1>9, <2>1, <2>2
<1>5. Types'
  BY <1>4, <1>10, CordnAssumption DEF Inv, Types, Ask, coordinator, history
<1>6. LockOK(d)'
  BY <1>3 DEF Inv, DevOK, LockOK, SectionOK
<1>7. DevOK(d)'
  BY <1>3, <1>4, <1>6, Calm
<1>8. WelcomesOK' /\ \A e \in Devices : e # d => Same(e)
  BY <1>2, <1>3, <1>10 DEF Inv, WelcomesOK, Same, Types
<1> QED BY <1>3, <1>5, <1>7, <1>8, LogStays, Assemble

LEMMA PollInv == ASSUME Inv, NEW d \in Devices, Poll(d) PROVE Inv'
<1>0. view[d] \in View /\ Len(log) \in Nat /\ view[d].in
  BY Typed DEF Inv, Poll
<1>1. PICK upto \in view[d].cursor + 1..Len(log) :
         tasks' = [tasks EXCEPT ![d] =
                      Append(tasks[d], [op |-> "ingest", from |-> view[d].cursor + 1, upto |-> upto])]
  BY DEF Poll
<1>2. PICK t : t = [op |-> "ingest", from |-> view[d].cursor + 1, upto |-> upto]
  OBVIOUS
<1>3. t \in Task /\ TaskOK(d, t)
  BY <1>0, <1>1, <1>2 DEF Task, TaskOK, View
<1>4. UNCHANGED <<log, view, disk, posted, listed, running, strayed, welcomes>>
  BY DEF Poll, coordinator, history
<1>5. tasks' \in [Devices -> Seq(Task)] /\ QueueOK(d)'
  BY <1>1, <1>2, <1>3, <1>4, QueueAppend
<1>6. Types'
  BY <1>5 DEF Inv, Types, Poll, coordinator, history, budget
<1>7. LockOK(d)'
  BY <1>4 DEF Inv, DevOK, LockOK, SectionOK
<1>8. DevOK(d)'
  BY <1>4, <1>5, <1>7, Calm
<1>9. WelcomesOK' /\ \A e \in Devices : e # d => Same(e)
  BY <1>1, <1>4 DEF Inv, WelcomesOK, Same, Types
<1> QED BY <1>4, <1>6, <1>8, <1>9, LogStays, Assemble

\* A section starts, or throws at once.
LEMMA Begin ==
    ASSUME Inv, NEW d \in Devices, NEW op, Take(d, op), UNCHANGED <<log, view, disk, posted, strayed>>,
           NEW s \in Section, SectionOK(d, s), running' \in {running, [running EXCEPT ![d] = running[d] \cup {s}]}
    PROVE  /\ tasks' \in [Devices -> Seq(Task)] /\ running' \in [Devices -> SUBSET Section]
           /\ DevOK(d)' /\ \A e \in Devices : e # d => Same(e)
<1>1. /\ tasks' \in [Devices -> Seq(Task)] /\ running[d] = {}
      /\ \A i \in 1..Len(tasks'[d]) : tasks'[d][i] \in Task /\ TaskOK(d, tasks'[d][i])
  BY QueueTake
<1>2. QueueOK(d)'
  <2>1. \A t : TaskOK(d, t) => TaskOK(d, t)'
    BY DEF TaskOK
  <2> QED BY <1>1, <2>1 DEF QueueOK
<1>3. running' \in [Devices -> SUBSET Section] /\ running'[d] \in {{}, {s}}
  <2>1. running \in [Devices -> SUBSET Section]
    BY DEF Inv, Types
  <2>2. CASE running' = running
    BY <1>1, <2>1, <2>2
  <2>3. CASE running' = [running EXCEPT ![d] = running[d] \cup {s}]
    BY <1>1, <2>1, <2>3
  <2> QED BY <2>2, <2>3
<1>4. LockOK(d)'
  <2>1. SectionOK(d, s)'
    BY DEF SectionOK
  <2> QED BY <1>3, <2>1 DEF LockOK
<1>5. DevOK(d)'
  BY <1>1, <1>2, <1>4, Calm
<1>6. \A e \in Devices : e # d => Same(e)
  BY DEF Same, Take, Inv, Types
<1> QED BY <1>1, <1>3, <1>5, <1>6

LEMMA BeginSendInv == ASSUME Inv, NEW d \in Devices, BeginSend(d) PROVE Inv'
<1>1. UNCHANGED <<log, welcomes, package, ref, view, disk, posted, listed, asks, mishaps, strayed, passed, joined>>
  BY DEF BeginSend, coordinator, budget, history
<1>2. /\ Take(d, "send") /\ Head(tasks[d]) \in Task /\ Head(tasks[d]).op = "send"
      /\ TaskOK(d, Head(tasks[d]))
  BY QueueTake DEF BeginSend
<1>3. PICK s : s = Fresh(d, Head(tasks[d]), "post")
  OBVIOUS
<1>4. s \in Section /\ SectionOK(d, s)
  BY <1>2, <1>3, Typed DEF Inv, Fresh, Section, SectionOK, TaskOK, Phases, View
<1>5. running' = [running EXCEPT ![d] = running[d] \cup {s}]
  BY <1>3 DEF BeginSend, Enter
<1>6. /\ tasks' \in [Devices -> Seq(Task)] /\ running' \in [Devices -> SUBSET Section]
      /\ DevOK(d)' /\ \A e \in Devices : e # d => Same(e)
  BY <1>1, <1>2, <1>4, <1>5, Begin
<1>7. Types'
  BY <1>1, <1>6 DEF Inv, Types
<1>8. WelcomesOK'
  BY <1>1 DEF Inv, WelcomesOK
<1> QED BY <1>1, <1>6, <1>7, <1>8, LogStays, Assemble

LEMMA BeginAddInv == ASSUME Inv, NEW d \in Devices, BeginAdd(d) PROVE Inv'
<1>1. UNCHANGED <<log, welcomes, ref, view, disk, posted, listed, asks, mishaps, strayed, passed, joined>>
  BY DEF BeginAdd, budget, history
<1>2. /\ Take(d, "add") /\ Head(tasks[d]) \in Task /\ Head(tasks[d]).op = "add"
      /\ TaskOK(d, Head(tasks[d]))
  BY QueueTake DEF BeginAdd
<1>3. PICK t \in Task : t = Head(tasks[d]) /\ t.op = "add" /\ t.who \in Person /\ TaskOK(d, t)
  BY <1>2, TaskTypes
<1>4. PICK s : s = [Fresh(d, t, "post") EXCEPT !.ref = ref[t.who]]
  OBVIOUS
<1>5. s \in Section /\ SectionOK(d, s)
  BY <1>3, <1>4, Typed DEF Inv, Types, Fresh, Section, SectionOK, TaskOK, Phases, View
<1>6. /\ running' \in {running, [running EXCEPT ![d] = running[d] \cup {s}]}
      /\ package' \in {package, [package EXCEPT ![t.who] = "taken"]}
  BY <1>3, <1>4 DEF BeginAdd, Enter
<1>7. /\ tasks' \in [Devices -> Seq(Task)] /\ running' \in [Devices -> SUBSET Section]
      /\ DevOK(d)' /\ \A e \in Devices : e # d => Same(e)
  BY <1>1, <1>2, <1>5, <1>6, Begin
<1>8. Types'
  BY <1>1, <1>3, <1>6, <1>7 DEF Inv, Types
<1>9. WelcomesOK'
  BY <1>1 DEF Inv, WelcomesOK
<1> QED BY <1>1, <1>7, <1>8, <1>9, LogStays, Assemble

LEMMA BeginIngestInv == ASSUME Inv, NEW d \in Devices, BeginIngest(d) PROVE Inv'
<1>1. UNCHANGED <<log, welcomes, package, ref, view, disk, posted, listed, asks, mishaps, strayed, passed, joined>>
  BY DEF BeginIngest, coordinator, budget, history
<1>2. /\ Take(d, "ingest") /\ Head(tasks[d]) \in Task /\ Head(tasks[d]).op = "ingest"
      /\ TaskOK(d, Head(tasks[d]))
  BY QueueTake DEF BeginIngest
<1>3. PICK t \in Task : /\ t = Head(tasks[d]) /\ t.op = "ingest" /\ TaskOK(d, t)
                       /\ t.from \in Nat /\ t.upto \in Nat
  BY <1>2, TaskTypes
<1>4. PICK s : s = [Fresh(d, t, "clean") EXCEPT !.at = t.from]
  OBVIOUS
<1>5. s \in Section /\ SectionOK(d, s)
  BY <1>3, <1>4, Typed DEF Inv, Fresh, Section, SectionOK, TaskOK, Phases, View
<1>6. running' = [running EXCEPT ![d] = running[d] \cup {s}]
  BY <1>3, <1>4 DEF BeginIngest, Enter
<1>7. /\ tasks' \in [Devices -> Seq(Task)] /\ running' \in [Devices -> SUBSET Section]
      /\ DevOK(d)' /\ \A e \in Devices : e # d => Same(e)
  BY <1>1, <1>2, <1>5, <1>6, Begin
<1>8. Types'
  BY <1>1, <1>7 DEF Inv, Types
<1>9. WelcomesOK'
  BY <1>1 DEF Inv, WelcomesOK
<1> QED BY <1>1, <1>7, <1>8, <1>9, LogStays, Assemble

\* The section that holds the lock ends or goes on; no row in memory changes.
LEMMA Goes ==
    ASSUME Inv, NEW d \in Devices, NEW s \in running[d], UNCHANGED <<log, view, posted, tasks>>,
           NEW next \in Section, SectionOK(d, next),
           running' \in {[running EXCEPT ![d] = running[d] \ {s}],
                        [running EXCEPT ![d] = (running[d] \ {s}) \cup {next}]},
           disk' \in {disk, [disk EXCEPT ![d] = view[d]]},
           NEW b \in BOOLEAN, strayed' \in {strayed, [strayed EXCEPT ![d] = b]},
           strayed[d] => strayed'[d], s.phase = "sent" => s.task.op = "send" \/ strayed'[d]
    PROVE  /\ running' \in [Devices -> SUBSET Section] /\ disk' \in [Devices -> View]
           /\ strayed' \in [Devices -> BOOLEAN]
           /\ DevOK(d)' /\ \A e \in Devices : e # d => Same(e)
<1>1. \A r \in running[d] : r = s
  BY DEF Inv, DevOK, LockOK
<1>2. running' \in [Devices -> SUBSET Section] /\ running'[d] \in {{}, {next}}
  <2>1. running \in [Devices -> SUBSET Section] /\ running[d] \ {s} = {}
    BY <1>1 DEF Inv, Types
  <2>2. running' \in {[running EXCEPT ![d] = {}], [running EXCEPT ![d] = {next}]}
    BY <2>1
  <2> QED BY <2>1, <2>2
<1>3. LockOK(d)'
  <2>1. SectionOK(d, next)'
    BY DEF SectionOK
  <2> QED BY <1>2, <2>1 DEF LockOK
<1>4. disk' \in [Devices -> View] /\ disk'[d] \in {disk[d], view[d]}
  BY DEF Inv, Types
<1>5. QueueOK(d)'
  <2>1. view[d].cursor \in Nat /\ view' = view
    BY Typed DEF Inv, View
  <2> QED BY <2>1, QueueStays
<1>6. DevOK(d)'
  BY <1>1, <1>3, <1>4, <1>5, Calm
<1>7. strayed' \in [Devices -> BOOLEAN] /\ \A e \in Devices : e # d => Same(e)
  BY DEF Same, Inv, Types
<1> QED BY <1>2, <1>4, <1>6, <1>7

LEMMA SectionTypes ==
    ASSUME Inv, NEW d \in Devices, NEW s \in running[d]
    PROVE  /\ s \in Section /\ SectionOK(d, s) /\ s.task \in Task /\ s.at \in Nat /\ s.ref \in Nat
           /\ s.gen \in Nat /\ s.epoch \in Nat
           /\ \A p \in Phases : [s EXCEPT !.phase = p] \in Section
           /\ \A p \in Phases, n \in Nat : [s EXCEPT !.phase = p, !.at = n] \in Section
                                          /\ [s EXCEPT !.at = n, !.phase = p] \in Section
                                          /\ [s EXCEPT !.at = n] \in Section
<1>1. s \in Section /\ SectionOK(d, s)
  BY Typed DEF Inv, DevOK, LockOK
<1> QED BY <1>1 DEF Section

LEMMA StoreWelcomeInv == ASSUME Inv, NEW d \in Devices, StoreWelcome(d) PROVE Inv'
<1>1. PICK s \in running[d] :
         /\ s.phase = "welcome"
         /\ welcomes' = welcomes \cup {[to |-> s.task.who, after |-> s.at, ref |-> s.ref]}
         /\ Advance(d, s, [s EXCEPT !.phase = "save"])
  BY DEF StoreWelcome
<1>2. UNCHANGED <<log, package, ref, view, disk, posted, listed, tasks, asks, mishaps, strayed, passed, joined>>
  BY DEF StoreWelcome, budget, history
<1>3. /\ s \in Section /\ SectionOK(d, s) /\ s.task \in Task /\ s.at \in Nat /\ s.ref \in Nat
      /\ s.task.op = "add" /\ s.at <= Len(log) /\ s.task.who \in Person
  BY <1>1, SectionTypes, TaskTypes DEF SectionOK
<1>4. PICK next : next = [s EXCEPT !.phase = "save"]
  OBVIOUS
<1>5. next \in Section /\ next.phase = "save" /\ SectionOK(d, next)
  BY <1>3, <1>4 DEF Section, Phases, SectionOK
<1>6. running' = [running EXCEPT ![d] = (running[d] \ {s}) \cup {next}]
  BY <1>1, <1>4 DEF Advance
<1>7. /\ running' \in [Devices -> SUBSET Section] /\ DevOK(d)' /\ \A e \in Devices : e # d => Same(e)
  BY <1>1, <1>2, <1>5, <1>6, Goes
<1>8. Types'
  BY <1>1, <1>2, <1>3, <1>7 DEF Inv, Types, Welcome
<1>9. WelcomesOK'
  BY <1>1, <1>2, <1>3 DEF Inv, WelcomesOK
<1> QED BY <1>2, <1>7, <1>8, <1>9, LogStays, Assemble

LEMMA SaveInv == ASSUME Inv, NEW d \in Devices, Save(d) PROVE Inv'
<1>1. PICK s \in running[d] :
         /\ s.phase = "save" /\ disk' = [disk EXCEPT ![d] = view[d]]
         /\ IF s.task.op = "accept" THEN Advance(d, s, [s EXCEPT !.phase = "ack"]) ELSE Leave(d, s)
  BY DEF Save
<1>2. UNCHANGED <<log, welcomes, package, ref, view, posted, listed, tasks, asks, mishaps, strayed, passed, joined>>
  BY DEF Save, coordinator, budget, history
<1>3. s \in Section /\ SectionOK(d, s)
  BY SectionTypes
<1>4. PICK next \in Section : next = IF s.task.op = "accept" THEN [s EXCEPT !.phase = "ack"] ELSE s
  BY <1>3 DEF Section, Phases
<1>5. SectionOK(d, next)
  BY <1>1, <1>3, <1>4 DEF SectionOK, Section
<1>6. running' \in {[running EXCEPT ![d] = running[d] \ {s}],
                   [running EXCEPT ![d] = (running[d] \ {s}) \cup {next}]}
  BY <1>1, <1>4 DEF Advance, Leave
<1>7. /\ running' \in [Devices -> SUBSET Section] /\ disk' \in [Devices -> View]
      /\ DevOK(d)' /\ \A e \in Devices : e # d => Same(e)
  BY <1>1, <1>2, <1>5, <1>6, Goes
<1>8. Types'
  BY <1>2, <1>7 DEF Inv, Types
<1>9. WelcomesOK'
  BY <1>2 DEF Inv, WelcomesOK
<1> QED BY <1>2, <1>7, <1>8, <1>9, LogStays, Assemble

LEMMA AckInv == ASSUME Inv, NEW d \in Devices, Ack(d) PROVE Inv'
<1>1. PICK s \in running[d] :
         s.phase = "ack" /\ welcomes' = welcomes \ {s.task.welcome} /\ Leave(d, s)
  BY DEF Ack
<1>2. /\ UNCHANGED <<log, view, disk, posted, tasks, asks, mishaps, strayed, passed, joined>>
      /\ package' = [package EXCEPT ![d] = "offered"] /\ ref' = [ref EXCEPT ![d] = ref[d] + 1]
  BY DEF Ack, budget, history
<1>3. s \in Section /\ SectionOK(d, s)
  BY SectionTypes
<1>4. running' = [running EXCEPT ![d] = running[d] \ {s}]
  BY <1>1 DEF Leave
<1>5. /\ running' \in [Devices -> SUBSET Section] /\ DevOK(d)' /\ \A e \in Devices : e # d => Same(e)
  BY <1>1, <1>2, <1>3, <1>4, Goes
<1>6. package' \in [Person -> {"none", "offered", "taken"}] /\ ref' \in [Person -> Nat]
  BY <1>2 DEF Inv, Types, Person
<1>9. listed' \in [Devices -> SUBSET Welcome] /\ \A e \in Devices : listed'[e] \subseteq listed[e]
  <2>1. PICK w : listed' = [listed EXCEPT ![d] = listed[d] \ {w}]
    BY DEF Ack
  <2> QED BY <2>1 DEF Inv, Types
<1>7. Types'
  BY <1>1, <1>2, <1>5, <1>6, <1>9 DEF Inv, Types
<1>8. WelcomesOK'
  BY <1>1, <1>2, <1>9 DEF Inv, WelcomesOK
<1> QED BY <1>2, <1>5, <1>7, <1>8, LogStays, Assemble

LEMMA IngestedInv == ASSUME Inv, NEW d \in Devices, Ingested(d) PROVE Inv'
<1>1. PICK s \in running[d] :
         IF s.phase = "dirty" THEN Advance(d, s, [s EXCEPT !.phase = "save"]) ELSE Leave(d, s)
  BY DEF Ingested
<1>2. s.phase \in {"clean", "dirty"}
  BY <1>1 DEF Ingested, Inv, DevOK, LockOK
<1>3. UNCHANGED <<log, welcomes, package, ref, view, disk, posted, listed, tasks, asks, mishaps, strayed, passed, joined>>
  BY DEF Ingested, coordinator, budget, history
<1>4. s \in Section /\ SectionOK(d, s)
  BY SectionTypes
<1>5. PICK next : next = [s EXCEPT !.phase = "save"]
  OBVIOUS
<1>6. next \in Section /\ next.phase = "save" /\ SectionOK(d, next)
  BY <1>4, <1>5 DEF Section, Phases, SectionOK
<1>7. running' \in {[running EXCEPT ![d] = running[d] \ {s}],
                   [running EXCEPT ![d] = (running[d] \ {s}) \cup {next}]}
  BY <1>1, <1>5 DEF Advance, Leave
<1>8. /\ running' \in [Devices -> SUBSET Section] /\ DevOK(d)' /\ \A e \in Devices : e # d => Same(e)
  BY <1>2, <1>3, <1>6, <1>7, Goes
<1>9. Types'
  BY <1>3, <1>8 DEF Inv, Types
<1>10. WelcomesOK'
  BY <1>3 DEF Inv, WelcomesOK
<1> QED BY <1>3, <1>8, <1>9, <1>10, LogStays, Assemble

LEMMA FailInv == ASSUME Inv, NEW d \in Devices, Fail(d) PROVE Inv'
<1>1. PICK s \in running[d] :
         /\ s.phase \in {"post", "sent", "welcome", "ack"} /\ Leave(d, s)
         /\ strayed' = [strayed EXCEPT ![d] = @ \/ (s.phase = "sent" /\ s.task.op = "add")]
         /\ \/ UNCHANGED <<welcomes, package, ref>>
            \/ /\ s.phase = "welcome"
               /\ welcomes' = welcomes \cup {[to |-> s.task.who, after |-> s.at, ref |-> s.ref]}
               /\ UNCHANGED <<package, ref>>
            \/ /\ s.phase = "ack" /\ welcomes' = welcomes \ {s.task.welcome}
               /\ UNCHANGED <<package, ref>>
            \/ /\ s.phase = "ack" /\ welcomes' = welcomes \ {s.task.welcome}
               /\ package' = [package EXCEPT ![d] = "none"]
               /\ ref' = [ref EXCEPT ![d] = ref[d] + 1]
  BY DEF Fail
<1>2. /\ UNCHANGED <<log, view, disk, posted, listed, tasks, asks, passed, joined>>
      /\ mishaps < MaxMishaps /\ mishaps' = mishaps + 1
  BY DEF Fail
<1>3. /\ s \in Section /\ SectionOK(d, s) /\ s.task \in Task /\ s.at \in Nat /\ s.ref \in Nat
      /\ s.phase = "welcome" => s.at <= Len(log) /\ s.task.who \in Person
      /\ s.phase = "sent" => s.task.op \in {"send", "add"}
  BY SectionTypes, TaskTypes DEF SectionOK
<1>4. running' = [running EXCEPT ![d] = running[d] \ {s}]
  BY <1>1 DEF Leave
<1>5. PICK b \in BOOLEAN : b = (strayed[d] \/ (s.phase = "sent" /\ s.task.op = "add"))
  OBVIOUS
<1>6. strayed' = [strayed EXCEPT ![d] = b] /\ strayed'[d] = b
  BY <1>1, <1>5 DEF Inv, Types
<1>7. (strayed[d] => strayed'[d]) /\ (s.phase = "sent" => s.task.op = "send" \/ strayed'[d])
  BY <1>3, <1>5, <1>6
<1>8. /\ running' \in [Devices -> SUBSET Section] /\ strayed' \in [Devices -> BOOLEAN]
      /\ DevOK(d)' /\ \A e \in Devices : e # d => Same(e)
  BY <1>2, <1>3, <1>4, <1>6, <1>7, Goes
<1>9. package' \in [Person -> {"none", "offered", "taken"}] /\ ref' \in [Person -> Nat]
  <2>1. /\ package' \in {package, [package EXCEPT ![d] = "none"]}
        /\ ref' \in {ref, [ref EXCEPT ![d] = ref[d] + 1]}
    BY <1>1
  <2>2. /\ package \in [Person -> {"none", "offered", "taken"}] /\ ref \in [Person -> Nat]
        /\ d \in Person
    BY DEF Inv, Types, Person
  <2> QED BY <2>1, <2>2
<1>10. welcomes' \subseteq Welcome /\ WelcomesOK'
  <2>1. CASE s.phase = "welcome"
    BY <1>1, <1>2, <1>3, <2>1 DEF Inv, Types, WelcomesOK, Welcome
  <2>2. CASE s.phase # "welcome"
    BY <1>1, <1>2, <2>2 DEF Inv, Types, WelcomesOK
  <2> QED BY <2>1, <2>2
<1>11. mishaps' \in 0..MaxMishaps
  BY <1>2, CordnAssumption DEF Inv, Types
<1>12. Types'
  BY <1>2, <1>8, <1>9, <1>10, <1>11 DEF Inv, Types
<1> QED BY <1>2, <1>8, <1>10, <1>12, LogStays, Assemble

-----------------------------------------------------------------------------
(* Steps that change a row or the log. *)

LEMMA ReloadInv == ASSUME Inv, NEW d \in Devices, Reload(d) PROVE Inv'
<1>1. /\ view' = [view EXCEPT ![d] = disk[d]] /\ posted' = [posted EXCEPT ![d] = {}]
      /\ tasks' = [tasks EXCEPT ![d] = <<>>] /\ running' = [running EXCEPT ![d] = {}]
      /\ UNCHANGED <<log, welcomes, ref, disk, asks, passed, joined>>
      /\ mishaps < MaxMishaps /\ mishaps' = mishaps + 1
  BY DEF Reload
<1>2. PICK b \in BOOLEAN : b = (strayed[d] \/ OwnCommitAfter(d, disk[d].cursor))
  OBVIOUS
<1>3. strayed' = [strayed EXCEPT ![d] = b] /\ strayed' \in [Devices -> BOOLEAN] /\ strayed'[d] = b
  BY <1>2 DEF Reload, Inv, Types
<1>7. listed' \in [Devices -> SUBSET Welcome] /\ \A e \in Devices : listed'[e] \subseteq listed[e]
  BY DEF Reload, Inv, Types
<1>4. Types'
  <2>1. package' \in [Person -> {"none", "offered", "taken"}]
    BY DEF Reload, Inv, Types, Person
  <2>2. mishaps' \in 0..MaxMishaps
    BY <1>1, CordnAssumption DEF Inv, Types
  <2>3. tasks' \in [Devices -> Seq(Task)] /\ running' \in [Devices -> SUBSET Section]
    BY <1>1, EmptySeq DEF Inv, Types
  <2>4. view' \in [Devices -> View] /\ posted' \in [Devices -> SUBSET Nat]
    BY <1>1 DEF Inv, Types
  <2> QED BY <1>1, <1>3, <1>7, <2>1, <2>2, <2>3, <2>4 DEF Inv, Types
<1>5. DevOK(d)'
  <2>1. /\ view'[d] = disk[d] /\ disk'[d] = disk[d] /\ posted'[d] = {} /\ tasks'[d] = <<>>
        /\ running'[d] = {} /\ disk[d] \in View
    BY <1>1 DEF Inv, Types
  <2>2. PICK v \in View : v = disk[d] /\ RowOK(v)
    BY <2>1 DEF Inv, DevOK
  <2>3. RowOK(view[d])' /\ RowOK(disk[d])'
    BY <1>1, <2>1, <2>2 DEF RowOK
  <2>4. QueueOK(d)' /\ LockOK(d)' /\ PostedOK(d)'
    BY <2>1, EmptySeq DEF QueueOK, LockOK, PostedOK
  <2>5. EpochOK(d)'
    <3>1. ASSUME ~strayed'[d] PROVE OwnRead(d)' /\ InStep(view[d])' /\ InStep(disk[d])'
      <4>1. ~strayed[d] /\ ~OwnCommitAfter(d, disk[d].cursor) /\ InStep(disk[d])
        BY <1>2, <1>3, <3>1 DEF Inv, DevOK, EpochOK
      <4>2. OwnRead(d)'
        <5>1. disk[d].cursor \in Nat /\ Len(log) \in Nat
          BY <2>1, Typed DEF Inv, View
        <5>2. ASSUME NEW c \in 1..Len(log), log[c].kind = "commit", log[c].by[1] = d,
                     c > disk[d].cursor
              PROVE  FALSE
          BY <4>1, <5>1, <5>2 DEF OwnCommitAfter
        <5> QED BY <1>1, <2>1, <5>2 DEF OwnRead
      <4> QED BY <1>1, <2>1, <4>1, <4>2 DEF InStep, Canon
    <3> QED BY <3>1 DEF EpochOK
  <2> QED BY <2>3, <2>4, <2>5 DEF DevOK
<1>6. WelcomesOK' /\ \A e \in Devices : e # d => Same(e)
  BY <1>1, <1>3, <1>7 DEF Inv, Types, WelcomesOK, Same
<1> QED BY <1>1, <1>4, <1>5, <1>6, LogStays, Assemble

LEMMA LandInv == ASSUME Inv, NEW d \in Devices, Land(d) PROVE Inv'
<1>1. PICK s \in running[d] :
         /\ s.phase = "post" /\ log' = Append(log, Posts(d, s))
         /\ Advance(d, s, [s EXCEPT !.phase = "sent", !.at = Len(log) + 1])
  BY DEF Land
<1>2. /\ UNCHANGED <<welcomes, package, ref, view, disk, listed, tasks, asks, mishaps, strayed, passed, joined>>
      /\ posted' = [posted EXCEPT ![d] = posted[d] \cup {Len(log) + 1}]
  BY DEF Land, budget, history
<1>3. /\ Len(log) \in Nat /\ log \in Seq(Message) /\ view[d] \in View /\ Canon(Len(log)) \in Nat
      /\ view[d].leaf \in Nat /\ view[d].cursor \in Nat /\ view[d].cursor <= Len(log)
  <2>1. /\ Len(log) \in Nat /\ log \in Seq(Message) /\ view[d] \in View /\ Canon(Len(log)) \in Nat
    BY Typed DEF Inv, Types
  <2>2. view[d].leaf \in Nat /\ view[d].cursor \in Nat
    BY <2>1 DEF View
  <2>3. view[d].cursor <= Len(log)
    BY DEF Inv, DevOK, RowOK
  <2> QED BY <2>1, <2>2, <2>3
<1>4. /\ s \in Section /\ SectionOK(d, s) /\ s.gen \in Nat /\ s.epoch \in Nat
      /\ s.epoch = view[d].epoch /\ s.task.op \in {"send", "add"} /\ view[d].in
      /\ \A r \in running[d] : r = s
  <2>1. s \in Section /\ SectionOK(d, s) /\ s.gen \in Nat /\ s.epoch \in Nat
    BY SectionTypes
  <2>2. s.epoch = view[d].epoch /\ s.task.op \in {"send", "add"} /\ view[d].in
    BY <1>1, <2>1 DEF SectionOK
  <2>3. \A r \in running[d] : r = s
    BY DEF Inv, DevOK, LockOK
  <2> QED BY <2>1, <2>2, <2>3
<1>5. PICK n : n = Len(log) + 1
  OBVIOUS
<1>6. PICK m : m = Posts(d, s)
  OBVIOUS
<1>7. /\ m \in Message /\ m.by[1] = d /\ m.epoch = s.epoch
      /\ m.kind = "commit" <=> s.task.op = "add"
      /\ m.tip = IF m.kind = "commit" /\ m.epoch = Canon(Len(log)) THEN n ELSE Canon(Len(log))
  <2>1. <<d, view[d].leaf>> \in Leaf
    BY <1>3 DEF Leaf
  <2> QED BY <1>3, <1>4, <1>5, <1>6, <2>1 DEF Posts, Message
<1>8. /\ log' \in Seq(Message) /\ Len(log') = n /\ log'[n] = m
      /\ \A c \in 1..Len(log) : log'[c] = log[c]
  BY <1>1, <1>3, <1>5, <1>6, <1>7, AppendProperties
<1>9. Grown(d)
  BY <1>3, <1>5, <1>7, <1>8 DEF Grown
<1>10. \A c \in Nat : c <= Len(log) => Canon(c)' = Canon(c)
  BY <1>3, <1>9, CanonKeeps
<1>11. PICK next : next = [s EXCEPT !.phase = "sent", !.at = n]
  OBVIOUS
<1>12. /\ next \in Section /\ next.phase = "sent" /\ next.at = n /\ next.task = s.task
       /\ next.epoch = s.epoch
  <2>1. n \in Nat /\ "sent" \in Phases
    BY <1>3, <1>5 DEF Phases
  <2>2. next \in Section
    BY <1>11, <2>1, SectionTypes
  <2>3. next.phase = "sent" /\ next.at = n /\ next.task = s.task /\ next.epoch = s.epoch
    BY ONLY <1>4, <1>11 DEF Section
  <2> QED BY <2>2, <2>3
<1>13. running' = [running EXCEPT ![d] = {next}] /\ running'[d] = {next}
  <2>1. (running[d] \ {s}) \cup {next} = {next}
    BY <1>4
  <2> QED BY <1>1, <1>5, <1>11, <2>1 DEF Advance, Inv, Types
<1>14. posted' \in [Devices -> SUBSET Nat] /\ posted'[d] = posted[d] \cup {n}
  BY <1>2, <1>3, <1>5 DEF Inv, Types
<1>15. Types'
  <2>1. running' \in [Devices -> SUBSET Section]
    BY <1>12, <1>13 DEF Inv, Types
  <2> QED BY <1>2, <1>8, <1>14, <2>1 DEF Inv, Types
<1>16. LogOK'
  <2>1. SUFFICES ASSUME NEW c \in 1..n
                 PROVE  log'[c].tip = IF log'[c].kind = "commit" /\ log'[c].epoch = Canon(c - 1)'
                                      THEN c ELSE Canon(c - 1)'
    BY <1>8 DEF LogOK
  <2>2. c - 1 \in Nat /\ c - 1 <= Len(log) /\ Canon(c - 1)' = Canon(c - 1)
    BY <1>3, <1>5, <1>10
  <2>3. CASE c = n
    BY <1>3, <1>5, <1>7, <1>8, <2>2, <2>3
  <2>4. CASE c # n
    BY <1>3, <1>5, <1>8, <2>2, <2>4 DEF Inv, LogOK
  <2> QED BY <2>3, <2>4
<1>17. DevOK(d)'
  <2>1. DevOK(d) /\ view' = view /\ disk' = disk /\ tasks' = tasks /\ strayed' = strayed
    BY <1>2 DEF Inv
  <2>2. RowOK(view[d])' /\ RowOK(disk[d])'
    <3>1. PICK v \in View, w \in View : v = view[d] /\ v = view'[d] /\ w = disk[d] /\ w = disk'[d]
      BY <2>1, Typed DEF Inv
    <3>2. RowOK(v)' /\ RowOK(w)'
      BY <1>3, <1>5, <1>8, <2>1, <3>1, RowKeeps DEF DevOK
    <3> QED BY <3>1, <3>2 DEF RowOK
  <2>3. QueueOK(d)'
    <3>1. SUFFICES ASSUME NEW i \in 1..Len(tasks[d]) PROVE TaskOK(d, tasks[d][i])'
      BY <2>1 DEF QueueOK
    <3>2. PICK t \in Task : t = tasks[d][i] /\ TaskOK(d, t)
      BY <2>1, Typed, ElementOfSeq DEF Inv, DevOK, QueueOK
    <3>3. (t.op = "ingest" => t.upto \in Nat) /\ (t.op = "accept" => t.welcome.after \in Nat)
      BY TaskTypes DEF Welcome
    <3>4. TaskOK(d, t)'
      BY <1>3, <1>5, <1>8, <2>1, <3>2, <3>3 DEF TaskOK
    <3> QED BY <2>1, <3>2, <3>4 DEF TaskOK
  <2>4. LockOK(d)'
    <3>1. SectionOK(d, next)'
      BY <1>3, <1>4, <1>5, <1>7, <1>8, <1>12, <2>1 DEF SectionOK
    <3> QED BY <1>13, <3>1 DEF LockOK
  <2>5. PostedOK(d)'
    BY <1>3, <1>5, <1>7, <1>8, <1>14, <2>1 DEF DevOK, PostedOK
  <2>6. EpochOK(d)'
    <3>1. ASSUME ~strayed[d] PROVE OwnRead(d)' /\ InStep(view[d])' /\ InStep(disk[d])'
      <4>1. OwnRead(d) /\ InStep(view[d]) /\ InStep(disk[d])
        BY <2>1, <3>1 DEF DevOK, EpochOK
      <4>2. OwnRead(d)'
        <5>1. SUFFICES ASSUME NEW c \in 1..n, log'[c].kind = "commit", log'[c].by[1] = d,
                              c > view[d].cursor
                       PROVE  c = n
          BY <1>8, <1>12, <1>13, <2>1 DEF OwnRead
        <5>2. ASSUME c # n PROVE FALSE
          <6>1. c \in 1..Len(log) /\ log'[c] = log[c]
            BY <1>3, <1>5, <1>8, <5>2
          <6>2. \E r \in running[d] : r.phase = "sent"
            BY <4>1, <5>1, <6>1 DEF OwnRead
          <6> QED BY <1>1, <1>4, <6>2
        <5> QED BY <5>2
      <4>3. \A v \in {view[d], disk[d]} : Canon(v.cursor)' = Canon(v.cursor)
        BY <1>10, <2>1, Typed DEF Inv, DevOK, RowOK, View
      <4> QED BY <2>1, <4>1, <4>2, <4>3 DEF InStep
    <3> QED BY <2>1, <3>1 DEF EpochOK
  <2> QED BY <2>2, <2>3, <2>4, <2>5, <2>6 DEF DevOK
<1>18. WelcomesOK'
  BY <1>2, <1>3, <1>5, <1>8 DEF Inv, Types, Welcome, WelcomesOK
<1>19. \A e \in Devices : e # d => Same(e)
  BY <1>2, <1>13 DEF Same, Inv, Types
<1> QED BY <1>9, <1>15, <1>16, <1>17, <1>18, <1>19, Assemble

\* The section that holds the lock moves the row of its device on.
LEMMA Moves ==
    ASSUME Inv, NEW d \in Devices, NEW s \in running[d], UNCHANGED <<log, disk, posted, tasks>>,
           NEW v \in View, RowOK(v), v.in, view[d].cursor <= v.cursor,
           view' = [view EXCEPT ![d] = v],
           NEW next \in Section, SectionOK(d, next)',
           running' = [running EXCEPT ![d] = (running[d] \ {s}) \cup {next}],
           NEW b \in BOOLEAN, strayed' = [strayed EXCEPT ![d] = b], strayed[d] => b,
           ~b => v.epoch = Canon(v.cursor), s.phase = "sent" => s.at <= v.cursor
    PROVE  /\ running' \in [Devices -> SUBSET Section] /\ view' \in [Devices -> View]
           /\ strayed' \in [Devices -> BOOLEAN]
           /\ DevOK(d)' /\ \A e \in Devices : e # d => Same(e)
<1>1. \A r \in running[d] : r = s
  BY DEF Inv, DevOK, LockOK
<1>2. /\ running' \in [Devices -> SUBSET Section] /\ running'[d] = {next}
      /\ view' \in [Devices -> View] /\ view'[d] = v /\ strayed'[d] = b
      /\ strayed' \in [Devices -> BOOLEAN] /\ disk'[d] = disk[d]
  <2>1. (running[d] \ {s}) \cup {next} = {next}
    BY <1>1
  <2> QED BY <2>1 DEF Inv, Types
<1>3. RowOK(view[d])' /\ RowOK(disk[d])'
  <2>1. PICK w : w = disk[d] /\ RowOK(w)
    BY DEF Inv, DevOK
  <2>2. RowOK(v)' /\ RowOK(w)'
    BY <2>1 DEF RowOK
  <2> QED BY <1>2, <2>1, <2>2 DEF RowOK
<1>4. QueueOK(d)'
  <2>1. v.cursor \in Nat
    BY DEF View
  <2> QED BY <1>2, <2>1, QueueStays
<1>5. LockOK(d)'
  BY <1>2 DEF LockOK, SectionOK
<1>6. PostedOK(d)'
  BY DEF Inv, DevOK, PostedOK
<1>7. EpochOK(d)'
  <2>1. ASSUME ~b PROVE OwnRead(d)' /\ InStep(view[d])' /\ InStep(disk[d])'
    <3>1. OwnRead(d) /\ InStep(disk[d])
      BY <2>1 DEF Inv, DevOK, EpochOK
    <3>2. InStep(view[d])' /\ InStep(disk[d])'
      BY <1>2, <2>1, <3>1 DEF InStep, Canon
    <3>3. OwnRead(d)'
      <4>1. SUFFICES ASSUME NEW c \in 1..Len(log), log[c].kind = "commit", log[c].by[1] = d,
                            c > v.cursor
                     PROVE  FALSE
        BY <1>2 DEF OwnRead
      <4>2. view[d].cursor \in Nat /\ v.cursor \in Nat /\ Len(log) \in Nat
        BY Typed DEF Inv, View
      <4>3. PICK r \in running[d] : r.phase = "sent" /\ r.at = c
        BY <3>1, <4>1, <4>2 DEF OwnRead
      <4> QED BY <1>1, <4>1, <4>2, <4>3
    <3> QED BY <3>2, <3>3
  <2> QED BY <1>2, <2>1 DEF EpochOK
<1>8. \A e \in Devices : e # d => Same(e)
  BY DEF Same, Inv, Types
<1>9. DevOK(d)'
  BY <1>3, <1>4, <1>5, <1>6, <1>7 DEF DevOK
<1> QED BY <1>2, <1>8, <1>9

\* A row that shows one more message, later than what it has read.
LEMMA RowShows ==
    ASSUME NEW v \in View, RowOK(v), NEW c \in Nat, v.cursor < c, c <= Len(log), Len(log) \in Nat,
           NEW w \in View, w.cursor = c, w.in, w.shown \in {v.shown, Append(v.shown, c)}
    PROVE  RowOK(w)
<1>1. v.shown \in Seq(Nat) /\ Len(v.shown) \in Nat /\ v.cursor \in Nat
      /\ \A i \in 1..Len(v.shown) : v.shown[i] \in Nat
  BY LenProperties, ElementOfSeq DEF View
<1>2. CASE w.shown = v.shown
  BY <1>1, <1>2 DEF RowOK
<1>3. CASE w.shown = Append(v.shown, c)
  <2>1. /\ Len(w.shown) = Len(v.shown) + 1 /\ w.shown[Len(v.shown) + 1] = c
        /\ \A i \in 1..Len(v.shown) : w.shown[i] = v.shown[i]
    BY <1>1, <1>3, AppendProperties
  <2>2. \A i \in 1..Len(v.shown) : v.shown[i] <= v.cursor /\ v.shown[i] < c
    BY <1>1 DEF RowOK
  <2>3. \A i \in 1..Len(w.shown) : i = Len(v.shown) + 1 \/ i \in 1..Len(v.shown)
    BY <1>1, <2>1
  <2>4. ASSUME NEW i \in 1..Len(w.shown) PROVE w.shown[i] <= w.cursor
    <3>1. CASE i = Len(v.shown) + 1
      BY <2>1, <3>1
    <3>2. CASE i \in 1..Len(v.shown)
      <4>1. w.shown[i] = v.shown[i] /\ v.shown[i] \in Nat /\ v.shown[i] < c
        BY <1>1, <2>1, <2>2, <3>2
      <4> QED BY <4>1
    <3> QED BY <2>3, <3>1, <3>2
  <2>5. ASSUME NEW i \in 1..Len(w.shown), NEW j \in 1..Len(w.shown), i < j
        PROVE  w.shown[i] < w.shown[j]
    <3>1. i \in 1..Len(v.shown)
      BY <1>1, <2>1, <2>5
    <3> QED BY <1>1, <2>1, <2>2, <2>3, <2>5, <3>1 DEF RowOK
  <2> QED BY <2>4, <2>5 DEF RowOK
<1> QED BY <1>2, <1>3

\* The post that was answered is the last message read, and the epoch it leaves
\* is the group's unless it overtook a commit.
LEMMA AnswerInv == ASSUME Inv, NEW d \in Devices, Answer(d) PROVE Inv'
<1>1. PICK s \in running[d] :
         /\ s.phase = "sent"
         /\ IF s.task.op = "send"
            THEN /\ view' = [view EXCEPT ![d].epoch = s.epoch, ![d].sent = s.gen + 1,
                                         ![d].cursor = AfterPost(view[d].cursor, s.at),
                                         ![d].shown = Append(view[d].shown, s.at)]
                 /\ Advance(d, s, [s EXCEPT !.phase = "save"])
            ELSE /\ view' = [view EXCEPT ![d].epoch = s.at, ![d].sent = 0, ![d].used = {},
                                         ![d].cursor = AfterPost(view[d].cursor, s.at)]
                 /\ Advance(d, s, [s EXCEPT !.phase = "welcome"])
         /\ strayed' = [strayed EXCEPT ![d] = @ \/ Canon(s.at - 1) # s.epoch]
         /\ passed' = [passed EXCEPT ![d] = @ \cup (view[d].cursor + 1..s.at - 1)]
  BY DEF Answer
<1>2. UNCHANGED <<log, welcomes, package, ref, disk, posted, listed, tasks, asks, mishaps, joined>>
  BY DEF Answer, coordinator, budget
<1>3. /\ s \in Section /\ SectionOK(d, s) /\ s.at \in Nat /\ s.epoch \in Nat /\ s.gen \in Nat
  BY SectionTypes
<1>4. /\ view[d] \in View /\ view[d].cursor \in Nat /\ view[d].shown \in Seq(Nat)
      /\ Len(log) \in Nat /\ RowOK(view[d])
  BY Typed DEF Inv, DevOK, View
<1>5. /\ s.at \in 1..Len(log) /\ view[d].cursor < s.at /\ view[d].in
      /\ s.task.op \in {"send", "add"} /\ log[s.at].epoch = s.epoch
      /\ log[s.at].kind = "commit" <=> s.task.op = "add"
  BY <1>1, <1>3 DEF SectionOK
<1>6. AfterPost(view[d].cursor, s.at) = s.at
  BY <1>5 DEF AfterPost
<1>7. PICK v : v = IF s.task.op = "send"
                   THEN [view[d] EXCEPT !.epoch = s.epoch, !.sent = s.gen + 1, !.cursor = s.at,
                                        !.shown = Append(view[d].shown, s.at)]
                   ELSE [view[d] EXCEPT !.epoch = s.at, !.sent = 0, !.used = {}, !.cursor = s.at]
  OBVIOUS
<1>8. /\ v \in View /\ v.cursor = s.at /\ v.in
      /\ v.epoch = IF s.task.op = "send" THEN s.epoch ELSE s.at
      /\ v.shown \in {view[d].shown, Append(view[d].shown, s.at)}
  <2>1. PICK u \in View : u = view[d]
    BY <1>4
  <2>2. PICK seen \in Seq(Nat) : seen = Append(u.shown, s.at)
    BY <1>3, <1>4, <2>1, AppendProperties
  <2>3. CASE s.task.op = "send"
    <3>1. v = [u EXCEPT !.epoch = s.epoch, !.sent = s.gen + 1, !.cursor = s.at, !.shown = seen]
      BY <1>7, <2>1, <2>2, <2>3
    <3>2. v \in View /\ v.cursor = s.at /\ v.in = u.in /\ v.epoch = s.epoch /\ v.shown = seen
      <4>1. PICK g \in Nat : g = s.gen + 1
        BY <1>3
      <4>2. PICK a \in Nat, e \in Nat : a = s.at /\ e = s.epoch
        BY <1>3
      <4>3. v = [u EXCEPT !.epoch = e, !.sent = g, !.cursor = a, !.shown = seen]
        BY <3>1, <4>1, <4>2
      <4>4. v.cursor = a /\ v.in = u.in /\ v.epoch = e /\ v.shown = seen
        BY <4>3 DEF View
      <4>5. v \in View
        BY <4>3 DEF View
      <4> QED BY <4>2, <4>4, <4>5
    <3> QED BY <1>5, <2>1, <2>2, <2>3, <3>2
  <2>4. CASE s.task.op # "send"
    <3>1. v = [u EXCEPT !.epoch = s.at, !.sent = 0, !.used = {}, !.cursor = s.at]
      BY <1>7, <2>1, <2>4
    <3> QED BY ONLY <1>3, <1>5, <2>1, <2>4, <3>1 DEF View
  <2> QED BY <2>3, <2>4
<1>9. RowOK(v)
  <2>1. PICK u \in View : u = view[d] /\ RowOK(u)
    BY <1>4
  <2>2. PICK c \in Nat : c = s.at /\ u.cursor < c /\ c <= Len(log) /\ u.in
    BY <1>3, <1>4, <1>5, <2>1
  <2>3. v.shown \in {u.shown, Append(u.shown, c)} /\ v \in View /\ v.cursor = c /\ v.in
    BY <1>8, <2>1, <2>2
  <2> QED BY ONLY <1>4, <2>1, <2>2, <2>3, RowShows
<1>10. view' = [view EXCEPT ![d] = v]
  BY <1>1, <1>6, <1>7 DEF Inv, Types
<1>11. PICK next : next = [s EXCEPT !.phase = IF s.task.op = "send" THEN "save" ELSE "welcome"]
  OBVIOUS
<1>12. next \in Section /\ SectionOK(d, next)'
  <2>1. next \in Section
    BY <1>11, SectionTypes DEF Phases
  <2>2. /\ next.phase = IF s.task.op = "send" THEN "save" ELSE "welcome"
        /\ next.task = s.task /\ next.at = s.at
    BY ONLY <1>3, <1>11 DEF Section
  <2> QED BY <1>2, <1>5, <2>1, <2>2 DEF SectionOK
<1>13. running' = [running EXCEPT ![d] = (running[d] \ {s}) \cup {next}]
  BY <1>1, <1>11 DEF Advance
<1>14. PICK b \in BOOLEAN : b = (strayed[d] \/ Canon(s.at - 1) # s.epoch)
  OBVIOUS
<1>15. strayed' = [strayed EXCEPT ![d] = b] /\ (strayed[d] => b)
  BY <1>1, <1>14 DEF Inv, Types
<1>16. ~b => v.epoch = Canon(v.cursor)
  <2>1. Canon(s.at) = log[s.at].tip
    BY <1>3, <1>5 DEF Canon
  <2>2. log[s.at].tip = IF log[s.at].kind = "commit" /\ log[s.at].epoch = Canon(s.at - 1)
                        THEN s.at ELSE Canon(s.at - 1)
    BY <1>5 DEF Inv, LogOK
  <2> QED BY <1>5, <1>8, <1>14, <2>1, <2>2
<1>17. /\ running' \in [Devices -> SUBSET Section] /\ view' \in [Devices -> View]
       /\ strayed' \in [Devices -> BOOLEAN]
       /\ DevOK(d)' /\ \A e \in Devices : e # d => Same(e)
  <2>1. view[d].cursor <= v.cursor /\ s.at <= v.cursor
    BY <1>3, <1>4, <1>5, <1>8
  <2> QED BY <1>2, <1>8, <1>9, <1>10, <1>12, <1>13, <1>15, <1>16, <2>1, Moves
<1>18. passed' \in [Devices -> SUBSET Nat]
  BY <1>1, <1>3, <1>4 DEF Inv, Types
<1>19. Types'
  BY <1>2, <1>17, <1>18 DEF Inv, Types
<1>20. WelcomesOK'
  BY <1>2 DEF Inv, WelcomesOK
<1> QED BY <1>2, <1>17, <1>19, <1>20, LogStays, Assemble

\* Who accepts a welcome has no commit of its own to read, and who accepts one
\* into the group's epoch for the first time is in step.
LEMMA BeginAcceptInv == ASSUME Inv, NEW d \in Devices, BeginAccept(d) PROVE Inv'
<1>1. /\ tasks' \in [Devices -> Seq(Task)] /\ running[d] = {}
      /\ Head(tasks[d]) \in Task /\ TaskOK(d, Head(tasks[d])) /\ Head(tasks[d]).op = "accept"
      /\ \A i \in 1..Len(tasks'[d]) : tasks'[d][i] \in Task /\ TaskOK(d, tasks'[d][i])
      /\ Take(d, "accept")
  BY QueueTake DEF BeginAccept
<1>2. UNCHANGED <<log, welcomes, package, ref, disk, posted, listed, asks, mishaps, passed>>
  BY DEF BeginAccept, coordinator, budget
<1>3. PICK t \in Task : /\ t = Head(tasks[d]) /\ t.op = "accept" /\ TaskOK(d, t)
                       /\ t.welcome \in Welcome /\ t.welcome.after <= Len(log)
  BY <1>1, TaskTypes DEF TaskOK
<1>4. PICK w \in Welcome : w = t.welcome /\ w.after <= Len(log)
  BY <1>3
<1>5. PICK s : s = Fresh(d, t, "save")
  OBVIOUS
<1>6. s \in Section /\ SectionOK(d, s) /\ SectionOK(d, s)'
  <2>1. s \in Section /\ s.phase = "save"
    BY <1>5, Typed DEF Inv, Fresh, Section, Phases, View
  <2> QED BY <2>1 DEF SectionOK
<1>7. WelcomesOK' /\ Len(log) \in Nat
  BY <1>2, Typed DEF Inv, WelcomesOK
<1>8. CASE UNCHANGED <<view, running, strayed, joined>>
  <2>1. /\ tasks' \in [Devices -> Seq(Task)] /\ running' \in [Devices -> SUBSET Section]
        /\ DevOK(d)' /\ \A e \in Devices : e # d => Same(e)
    BY <1>1, <1>2, <1>6, <1>8, Begin
  <2>2. Types'
    BY <1>2, <1>8, <2>1 DEF Inv, Types
  <2> QED BY <1>2, <1>7, <2>1, <2>2, LogStays, Assemble
<1>9. CASE /\ view' = [view EXCEPT ![d] = JoinedBy(view[d], w)] /\ Enter(d, s)
           /\ strayed' = [strayed EXCEPT ![d] = @ \/ view[d].in \/ Canon(w.after) # w.after]
           /\ joined' = [joined EXCEPT ![d] = w.after]
  <2>1. PICK u \in View : u = view[d] /\ RowOK(u)
    BY Typed DEF Inv, DevOK
  <2>2. PICK v : v = JoinedBy(u, w)
    OBVIOUS
  <2>3. /\ v \in View /\ v.in /\ v.epoch = w.after /\ v.shown = u.shown /\ w.after \in Nat
        /\ v.cursor = IF u.in THEN u.cursor ELSE w.after
    BY <2>1, <2>2 DEF JoinedBy, View, Welcome
  <2>4. RowOK(v) /\ u.cursor <= v.cursor /\ u.cursor \in Nat /\ v.cursor \in Nat
    <3>1. u.cursor \in Nat /\ u.shown \in Seq(Nat) /\ \A i \in 1..Len(u.shown) : u.shown[i] \in Nat
      BY ElementOfSeq DEF View
    <3>2. u.cursor <= v.cursor /\ v.cursor \in Nat /\ v.cursor <= Len(log)
      BY <1>4, <2>1, <2>3, <3>1 DEF RowOK
    <3> QED BY <2>1, <2>3, <3>1, <3>2 DEF RowOK
  <2>5. PICK b \in BOOLEAN : b = (strayed[d] \/ u.in \/ Canon(w.after) # w.after)
    OBVIOUS
  <2>6. /\ view' = [view EXCEPT ![d] = v] /\ strayed' = [strayed EXCEPT ![d] = b]
        /\ running' = [running EXCEPT ![d] = {s}]
    BY <1>1, <1>9, <2>1, <2>2, <2>5 DEF Inv, Types, Enter
  <2>7. /\ view' \in [Devices -> View] /\ view'[d] = v /\ running' \in [Devices -> SUBSET Section]
        /\ running'[d] = {s} /\ strayed' \in [Devices -> BOOLEAN] /\ strayed'[d] = b
        /\ \A e \in Devices : e # d => Same(e)
    BY <1>1, <1>2, <1>6, <2>3, <2>6 DEF Inv, Types, Take, Same
  <2>8. Types'
    <3>1. joined' \in [Devices -> Nat]
      BY <1>9, <2>3 DEF Inv, Types
    <3> QED BY <1>1, <1>2, <2>7, <3>1 DEF Inv, Types
  <2>9. RowOK(view[d])' /\ RowOK(disk[d])'
    <3>1. PICK x : x = disk[d] /\ RowOK(x)
      BY DEF Inv, DevOK
    <3>2. RowOK(v)' /\ RowOK(x)'
      BY <1>2, <2>4, <3>1 DEF RowOK
    <3> QED BY <1>2, <2>7, <3>1, <3>2 DEF RowOK
  <2>10. QueueOK(d)'
    <3>1. SUFFICES ASSUME NEW i \in 1..Len(tasks'[d]) PROVE TaskOK(d, tasks[d][i])'
      BY DEF QueueOK
    <3>2. PICK x \in Task : x = tasks'[d][i] /\ TaskOK(d, x)
      BY <1>1
    <3>3. x.op = "ingest" => x.from \in Nat
      BY TaskTypes
    <3>4. TaskOK(d, x)'
      BY <1>2, <2>1, <2>3, <2>4, <2>7, <3>2, <3>3 DEF TaskOK
    <3> QED BY <3>2, <3>4 DEF TaskOK
  <2>11. LockOK(d)' /\ PostedOK(d)'
    BY <1>2, <1>6, <2>7 DEF LockOK, SectionOK, Inv, DevOK, PostedOK
  <2>12. EpochOK(d)'
    <3>1. ASSUME ~b PROVE OwnRead(d)' /\ InStep(view[d])' /\ InStep(disk[d])'
      <4>1. ~strayed[d] /\ ~u.in /\ Canon(w.after) = w.after
        BY <2>5, <3>1
      <4>2. OwnRead(d) /\ InStep(disk[d])
        BY <4>1 DEF Inv, DevOK, EpochOK
      <4>3. InStep(view[d])' /\ InStep(disk[d])'
        BY <1>2, <2>3, <2>7, <4>1, <4>2 DEF InStep, Canon
      <4>4. u.cursor = 0
        BY <2>1, <4>1 DEF RowOK
      <4>5. \A c \in 1..Len(log) : ~(log[c].kind = "commit" /\ log[c].by[1] = d)
        BY <1>1, <1>7, <2>1, <4>2, <4>4 DEF OwnRead
      <4> QED BY <1>2, <4>3, <4>5 DEF OwnRead
    <3> QED BY <2>7, <3>1 DEF EpochOK
  <2>13. DevOK(d)'
    BY <2>9, <2>10, <2>11, <2>12 DEF DevOK
  <2> QED BY <1>2, <1>7, <2>7, <2>8, <2>13, LogStays, Assemble
<1> QED BY <1>3, <1>4, <1>5, <1>8, <1>9 DEF BeginAccept

\* What the next message makes of a row.
LEMMA ReadsOn ==
    ASSUME Inv, NEW d \in Devices, NEW v \in View, RowOK(v), v.in,
           NEW c \in 1..Len(log), v.cursor < c, NEW w,
           w = IF c \in posted[d] THEN [v EXCEPT !.cursor = c] ELSE Processed(v, c, <<d, v.leaf>>)
    PROVE  /\ w \in View /\ RowOK(w) /\ w.in /\ w.cursor = c
           /\ w.epoch = IF c \notin posted[d] /\ Opens(v, log[c], <<d, v.leaf>>) /\ log[c].kind = "commit"
                        THEN c ELSE v.epoch
<1>0. PICK k \in Nat : k = c /\ v.cursor < k /\ k <= Len(log)
  BY Typed DEF Inv
<1> USE <1>0
<1>1. /\ Len(log) \in Nat /\ log[c] \in Message /\ v \in View /\ RowOK(v)
      /\ v.shown \in Seq(Nat) /\ v.leaf \in Nat /\ v.sent \in Nat
  BY Typed DEF Inv, View
<1>2. PICK m \in Message : m = log[c]
  BY <1>1
<1>3. PICK seen \in Seq(Nat) : seen = Append(v.shown, c)
  BY <1>1, AppendProperties
<1>4. PICK last \in Nat : last = IF m.by = <<d, v.leaf>> THEN m.gen + 1 ELSE v.sent
  <2>1. m.gen + 1 \in Nat
    BY <1>2 DEF Message
  <2> QED BY <1>1, <2>1
<1>5. PICK used \in SUBSET (Leaf \X Nat) :
         used = IF m.by = <<d, v.leaf>> THEN v.used ELSE v.used \cup {<<m.by, m.gen>>}
  <2>1. <<m.by, m.gen>> \in Leaf \X Nat /\ v.used \in SUBSET (Leaf \X Nat)
    BY <1>2 DEF Message, View
  <2> QED BY <2>1
<1>6. CASE c \in posted[d] \/ ~Opens(v, m, <<d, v.leaf>>)
  <2>1. w = [v EXCEPT !.cursor = k]
    BY <1>2, <1>6 DEF Processed
  <2>2. w \in View /\ w.in /\ w.cursor = k /\ w.epoch = v.epoch /\ w.shown = v.shown
    BY <1>1, <2>1 DEF View
  <2>3. RowOK(w)
    BY ONLY <1>0, <1>1, <2>2, RowShows
  <2> QED BY <1>2, <1>6, <2>2, <2>3
<1>7. CASE c \notin posted[d] /\ Opens(v, m, <<d, v.leaf>>) /\ m.kind = "commit"
  <2>1. w = [v EXCEPT !.cursor = k, !.epoch = k, !.sent = 0, !.used = {}]
    BY <1>2, <1>7 DEF Processed
  <2>2. w \in View /\ w.in /\ w.cursor = k /\ w.epoch = k /\ w.shown = v.shown
    <3>1. PICK none \in SUBSET (Leaf \X Nat), zero \in Nat : none = {} /\ zero = 0
      OBVIOUS
    <3>2. w = [v EXCEPT !.cursor = k, !.epoch = k, !.sent = zero, !.used = none]
      BY <2>1, <3>1
    <3>3. w.in /\ w.cursor = k /\ w.epoch = k /\ w.shown = v.shown
      BY <1>1, <3>2 DEF View
    <3>4. w \in View
      BY <1>1, <3>2 DEF View
    <3> QED BY <3>3, <3>4
  <2>3. RowOK(w)
    BY ONLY <1>0, <1>1, <2>2, RowShows
  <2> QED BY <1>2, <1>7, <2>2, <2>3
<1>8. CASE c \notin posted[d] /\ Opens(v, m, <<d, v.leaf>>) /\ m.kind # "commit"
  <2>1. w = [v EXCEPT !.cursor = k, !.shown = seen, !.sent = last, !.used = used]
    BY <1>2, <1>3, <1>4, <1>5, <1>8 DEF Processed
  <2>2. w.in /\ w.cursor = k /\ w.epoch = v.epoch /\ w.shown = seen
    BY <1>1, <2>1 DEF View
  <2>3. w \in View
    BY <1>1, <2>1 DEF View
  <2>4. RowOK(w)
    BY ONLY <1>0, <1>1, <1>3, <2>2, <2>3, RowShows
  <2> QED BY <1>2, <1>8, <2>2, <2>3, <2>4
<1> QED BY <1>6, <1>7, <1>8

\* A message that is skipped has left the group's epoch where it was: a commit
\* of the device's own is not ahead of it, and one of another opens.
LEMMA IngestInv == ASSUME Inv, NEW d \in Devices, Ingest(d) PROVE Inv'
<1>1. PICK s \in running[d] :
         /\ s.phase \in {"clean", "dirty"} /\ s.at <= s.task.upto
         /\ IF Stale(d, s.at)
            THEN UNCHANGED view /\ Advance(d, s, [s EXCEPT !.at = s.at + 1])
            ELSE /\ view' = [view EXCEPT ![d] =
                                IF s.at \in posted[d] THEN [view[d] EXCEPT !.cursor = s.at]
                                ELSE Processed(view[d], s.at, <<d, view[d].leaf>>)]
                 /\ Advance(d, s, [s EXCEPT !.at = s.at + 1, !.phase = "dirty"])
  BY DEF Ingest
<1>2. UNCHANGED <<log, welcomes, package, ref, disk, posted, listed, tasks, asks, mishaps, strayed, passed, joined>>
  BY DEF Ingest, coordinator, budget, history
<1>3. /\ s \in Section /\ SectionOK(d, s) /\ s.at \in Nat /\ s.task \in Task
      /\ s.phase \in {"clean", "dirty"}
  BY <1>1, SectionTypes
<1>4. /\ s.task.op = "ingest" /\ s.task.upto <= Len(log) /\ s.task.upto \in Nat /\ 1 <= s.at
      /\ s.at <= view[d].cursor + 1 /\ view[d].in
  BY <1>3, TaskTypes DEF SectionOK
<1>5. PICK u \in View : u = view[d] /\ RowOK(u) /\ u.cursor \in Nat
  BY Typed DEF Inv, DevOK, View
<1>6. PICK n \in Nat : n = s.at + 1
  BY <1>3
<1>7. WelcomesOK' /\ Len(log) \in Nat
  BY <1>2, Typed DEF Inv, WelcomesOK
<1>8. CASE Stale(d, s.at)
  <2>1. PICK next : next = [s EXCEPT !.at = n]
    OBVIOUS
  <2>2. next \in Section /\ next.at = n /\ next.phase = s.phase /\ next.task = s.task
    <3>1. next \in Section
      BY <2>1, SectionTypes DEF Phases
    <3> QED BY ONLY <1>3, <2>1, <3>1 DEF Section
  <2>3. SectionOK(d, next)
    BY <1>3, <1>4, <1>5, <1>6, <1>8, <2>2 DEF SectionOK, Stale
  <2>4. view' = view /\ running' = [running EXCEPT ![d] = (running[d] \ {s}) \cup {next}]
    BY <1>1, <1>6, <1>8, <2>1 DEF Advance
  <2>5. /\ running' \in [Devices -> SUBSET Section] /\ DevOK(d)' /\ \A e \in Devices : e # d => Same(e)
    BY <1>2, <1>3, <2>2, <2>3, <2>4, Goes
  <2>6. Types'
    BY <1>2, <2>4, <2>5 DEF Inv, Types
  <2> QED BY <1>2, <1>7, <2>5, <2>6, LogStays, Assemble
<1>9. CASE ~Stale(d, s.at)
  <2>1. u.cursor < s.at /\ s.at = u.cursor + 1 /\ s.at \in 1..Len(log) /\ u.in
    BY <1>1, <1>3, <1>4, <1>5, <1>7, <1>9 DEF Stale
  <2>2. PICK v : v = IF s.at \in posted[d] THEN [u EXCEPT !.cursor = s.at]
                     ELSE Processed(u, s.at, <<d, u.leaf>>)
    OBVIOUS
  <2>3. /\ v \in View /\ RowOK(v) /\ v.in /\ v.cursor = s.at
        /\ v.epoch = IF /\ s.at \notin posted[d] /\ Opens(u, log[s.at], <<d, u.leaf>>)
                        /\ log[s.at].kind = "commit"
                     THEN s.at ELSE u.epoch
    BY <1>5, <2>1, <2>2, ReadsOn
  <2>4. PICK next : next = [s EXCEPT !.at = n, !.phase = "dirty"]
    OBVIOUS
  <2>5. next \in Section /\ next.at = n /\ next.phase = "dirty" /\ next.task = s.task
    <3>1. next \in Section
      BY <2>4, SectionTypes DEF Phases
    <3> QED BY ONLY <1>3, <2>4, <3>1 DEF Section
  <2>6. /\ view' = [view EXCEPT ![d] = v] /\ view'[d] = v
        /\ running' = [running EXCEPT ![d] = (running[d] \ {s}) \cup {next}]
    BY <1>1, <1>5, <1>6, <1>9, <2>2, <2>4 DEF Advance, Inv, Types
  <2>7. SectionOK(d, next)'
    BY <1>2, <1>3, <1>4, <1>6, <2>1, <2>3, <2>5, <2>6 DEF SectionOK
  <2>8. PICK b \in BOOLEAN : b = strayed[d]
    BY DEF Inv, Types
  <2>9. strayed' = [strayed EXCEPT ![d] = b]
    BY <1>2, <2>8 DEF Inv, Types
  <2>10. ~b => v.epoch = Canon(v.cursor)
    <3>1. SUFFICES ASSUME ~strayed[d] PROVE v.epoch = Canon(s.at)
      BY <2>3, <2>8
    <3>2. u.epoch = Canon(s.at - 1) /\ OwnRead(d)
      BY <1>5, <2>1, <3>1 DEF Inv, DevOK, EpochOK, InStep
    <3>3. /\ Canon(s.at) = log[s.at].tip
          /\ log[s.at].tip = IF log[s.at].kind = "commit" /\ log[s.at].epoch = Canon(s.at - 1)
                             THEN s.at ELSE Canon(s.at - 1)
      BY <1>3, <2>1 DEF Canon, Inv, LogOK
    <3>4. log[s.at].kind = "commit" => log[s.at].by[1] # d
      <4>1. \A r \in running[d] : r.phase # "sent"
        BY <1>3 DEF Inv, DevOK, LockOK
      <4> QED BY <1>5, <2>1, <3>2, <4>1 DEF OwnRead
    <3>5. log[s.at].kind = "commit" => s.at \notin posted[d] /\ log[s.at].by # <<d, u.leaf>>
      BY <3>4 DEF Inv, DevOK, PostedOK
    <3>6. log[s.at].kind = "commit" =>
             (Opens(u, log[s.at], <<d, u.leaf>>) <=> log[s.at].epoch = Canon(s.at - 1))
      BY <3>2, <3>5 DEF Opens
    <3> QED BY <2>3, <3>2, <3>3, <3>5, <3>6
  <2>11. /\ running' \in [Devices -> SUBSET Section] /\ view' \in [Devices -> View]
         /\ DevOK(d)' /\ \A e \in Devices : e # d => Same(e)
    <3>1. view[d].cursor <= v.cursor /\ (strayed[d] => b) /\ (s.phase = "sent" => s.at <= v.cursor)
      BY <1>3, <1>5, <2>1, <2>3, <2>8
    <3> QED BY <1>2, <2>3, <2>5, <2>6, <2>7, <2>9, <2>10, <3>1, Moves
  <2>12. Types'
    BY <1>2, <2>11 DEF Inv, Types
  <2> QED BY <1>2, <1>7, <2>11, <2>12, LogStays, Assemble
<1> QED BY <1>8, <1>9
-----------------------------------------------------------------------------
(* The theorems. *)

LEMMA InitInv == Init => Inv
<1> SUFFICES ASSUME Init PROVE Inv
  OBVIOUS
<1>1. /\ log = <<>> /\ Len(log) = 0 /\ log \in Seq(Message) /\ <<>> \in Seq(Task) /\ <<>> \in Seq(Nat)
  BY EmptySeq DEF Init
<1>2. Outside \in View /\ Created \in View
  BY <1>1 DEF Outside, Created, View
<1>3. \A v \in {Outside, Created} : RowOK(v) /\ InStep(v)
  BY <1>1, EmptySeq DEF Outside, Created, RowOK, InStep, Canon
<1>4. Types
  <2>1. view \in [Devices -> View] /\ disk \in [Devices -> View]
    BY <1>2 DEF Init
  <2>2. tasks \in [Devices -> Seq(Task)] /\ log \in Seq(Message)
    BY <1>1 DEF Init
  <2> QED BY <2>1, <2>2, CordnAssumption DEF Init, Types
<1>5. \A d \in Devices : /\ view[d] \in {Outside, Created} /\ disk[d] \in {Outside, Created}
                         /\ tasks[d] = <<>> /\ running[d] = {} /\ posted[d] = {}
  BY DEF Init
<1>6. \A d \in Devices : DevOK(d)
  <2> SUFFICES ASSUME NEW d \in Devices PROVE DevOK(d)
    OBVIOUS
  <2>1. RowOK(view[d]) /\ RowOK(disk[d]) /\ InStep(view[d]) /\ InStep(disk[d])
    BY <1>3, <1>5
  <2>2. Len(tasks[d]) = 0 /\ \A i : i \notin 1..0
    BY <1>1, <1>5
  <2>3. QueueOK(d) /\ LockOK(d) /\ PostedOK(d) /\ OwnRead(d)
    BY <1>1, <1>5, <2>2 DEF QueueOK, LockOK, PostedOK, OwnRead
  <2> QED BY <2>1, <2>3 DEF DevOK, EpochOK
<1>7. LogOK /\ WelcomesOK
  BY <1>1 DEF LogOK, WelcomesOK, Init
<1> QED BY <1>4, <1>6, <1>7 DEF Inv

LEMMA NextInv == Inv /\ [Next]_vars => Inv'
<1> SUFFICES ASSUME Inv, [Next]_vars PROVE Inv'
  OBVIOUS
<1>1. CASE UNCHANGED vars
  BY <1>1 DEF vars, Inv, Types, LogOK, Canon, WelcomesOK, DevOK, RowOK, QueueOK, TaskOK, LockOK,
              SectionOK, PostedOK, EpochOK, OwnRead, InStep
<1>2. ASSUME NEW d \in Devices, Ask(d) \/ Poll(d) \/ Fail(d) \/ Reload(d) PROVE Inv'
  BY <1>2, AskInv, PollInv, FailInv, ReloadInv
<1>3. ASSUME NEW d \in Devices, SectionStep(d) PROVE Inv'
  BY <1>3, BeginSendInv, BeginAddInv, BeginAcceptInv, BeginIngestInv, LandInv, AnswerInv,
     StoreWelcomeInv, SaveInv, AckInv, IngestInv, IngestedInv DEF SectionStep
<1> QED BY <1>1, <1>2, <1>3 DEF Next

LEMMA Invariance == Spec => []Inv
  BY InitInv, NextInv, PTL DEF Spec

\* Whatever the devices, people and bounds, the state of the clients and of the
\* coordinator keeps its types.
THEOREM TypeCorrect == Spec => []TypeOK
<1>1. Inv => TypeOK
  BY DEF Inv, TypeOK, DevOK, RowOK
<1> QED BY <1>1, Invariance, PTL

\* The state lock keeps epoch and fetchCursor together, in memory and on disk,
\* for any number of devices and steps: a device that did not lose the group's
\* epoch in one of the known ways never reads on past a commit it has not applied.
THEOREM EpochFollowsCursor == Spec => []KeepsUp
<1>1. Inv => KeepsUp
  BY DEF Inv, DevOK, EpochOK, KeepsUp
<1> QED BY <1>1, Invariance, PTL

\* Every chat of every device shows each message once and in the coordinator's
\* order, however polls, own posts, welcomes and reloads interleave.
THEOREM ChatInOrder == Spec => []ShownOnce
<1>1. Inv => ShownOnce
  BY DEF Inv, DevOK, RowOK, ShownOnce
<1> QED BY <1>1, Invariance, PTL

-------------------------------------------------------------------------------
(* What a client that keeps up has shown. *)

\* A text of another that d can open when it gets to it.
Due(d, c) == log[c].kind = "text" /\ log[c].by[1] # d /\ log[c].epoch = Canon(c) /\ ~Reused(c)

Shows(v, c) == \E i \in 1..Len(v.shown) : v.shown[i] = c

\* What was due to row v of d since it joined is shown, or one of its posts went past it.
ReadRow(d, v) ==
    v.in => \A c \in joined[d] + 1..v.cursor : Due(d, c) => c \in passed[d] \/ Shows(v, c)

\* A generation is used up by a text of the epoch that was read.
UsedRow(v) ==
    \A u \in v.used : \E b \in 1..v.cursor :
        log[b].kind = "text" /\ log[b].by = u[1] /\ log[b].gen = u[2] /\ log[b].epoch = v.epoch

DevReads(d) ==
    /\ disk[d].in => view[d].in
    /\ UsedRow(view[d]) /\ UsedRow(disk[d])
    /\ strayed[d] \/ (ReadRow(d, view[d]) /\ ReadRow(d, disk[d]))

Reads == \A d \in Devices : DevReads(d)

-------------------------------------------------------------------------------
(* What does not concern a row. *)

Longer == /\ Len(log') \in Nat /\ Len(log) <= Len(log')
          /\ \A c \in 1..Len(log) : log'[c] = log[c]

\* What was read of the log stays as it is.
LEMMA RowStays ==
    ASSUME Inv, Longer, NEW d \in Devices, NEW v \in View, RowOK(v),
           joined'[d] = joined[d], passed[d] \subseteq passed'[d]
    PROVE  /\ UsedRow(v) => UsedRow(v)'
           /\ ReadRow(d, v) => ReadRow(d, v)'
<1>1. Len(log) \in Nat /\ v.cursor \in Nat /\ v.cursor <= Len(log) /\ joined[d] \in Nat
  BY Typed DEF Inv, Types, View, RowOK
<1>2. \A c \in 1..v.cursor : c \in 1..Len(log) /\ log'[c] = log[c]
  BY <1>1 DEF Longer
<1>3. UsedRow(v) => UsedRow(v)'
  BY <1>2 DEF UsedRow
<1>4. ASSUME NEW c \in 1..v.cursor PROVE Due(d, c) <=> Due(d, c)'
  <2>1. log'[c] = log[c] /\ \A b \in 1..c - 1 : log'[b] = log[b]
    BY <1>1, <1>2
  <2>2. Canon(c)' = Canon(c)
    BY <2>1 DEF Canon
  <2>3. Reused(c)' <=> Reused(c)
    BY <2>1 DEF Reused
  <2> QED BY <2>1, <2>2, <2>3 DEF Due
<1>5. ReadRow(d, v) => ReadRow(d, v)'
  <2> SUFFICES ASSUME ReadRow(d, v), v.in, NEW c \in joined[d] + 1..v.cursor, Due(d, c)'
               PROVE  c \in passed'[d] \/ Shows(v, c)
    BY DEF ReadRow, Shows
  <2>1. c \in 1..v.cursor
    BY <1>1
  <2> QED BY <1>4, <2>1 DEF ReadRow
<1> QED BY <1>3, <1>5

\* A device whose rows are those it had, on disk or in memory.
LEMMA RowsStay ==
    ASSUME Inv, Longer, NEW d \in Devices, DevReads(d),
           view'[d] \in {view[d], disk[d]}, disk'[d] \in {view[d], disk[d]},
           disk'[d].in => view'[d].in,
           joined'[d] = joined[d], passed[d] \subseteq passed'[d], strayed[d] => strayed'[d]
    PROVE  DevReads(d)'
<1>1. PICK v \in View, w \in View : v = view[d] /\ w = disk[d] /\ RowOK(v) /\ RowOK(w)
  BY Typed DEF Inv, DevOK
<1>2. \A x \in {v, w} : UsedRow(x) /\ (strayed[d] \/ ReadRow(d, x))
  BY <1>1 DEF DevReads
<1>3. \A x \in {v, w} : UsedRow(x)' /\ (strayed'[d] \/ ReadRow(d, x)')
  <2>1. UsedRow(v)' /\ (strayed'[d] \/ ReadRow(d, v)')
    BY <1>1, <1>2, RowStays
  <2>2. UsedRow(w)' /\ (strayed'[d] \/ ReadRow(d, w)')
    BY <1>1, <1>2, RowStays
  <2> QED BY <2>1, <2>2
<1>4. PICK x \in {v, w}, y \in {v, w} : x = view'[d] /\ y = disk'[d]
  BY <1>1
<1>5. UsedRow(x)' /\ UsedRow(y)' /\ (strayed'[d] \/ (ReadRow(d, x)' /\ ReadRow(d, y)'))
  BY <1>3
<1> QED BY <1>4, <1>5 DEF DevReads, UsedRow, ReadRow

\* The row in memory of one device becomes v.
LEMMA RowMoves ==
    ASSUME Inv, Reads, NEW d \in Devices, NEW v \in View, view' = [view EXCEPT ![d] = v],
           UNCHANGED <<log, disk>>, disk[d].in => v.in, UsedRow(v),
           strayed'[d] \/ (ReadRow(d, v)' /\ ReadRow(d, disk[d])'),
           \A e \in Devices : e # d => /\ joined'[e] = joined[e] /\ passed'[e] = passed[e]
                                       /\ strayed'[e] = strayed[e]
    PROVE  Reads'
<1>1. Longer
  BY Typed DEF Inv, Longer
<1>2. view'[d] = v /\ \A e \in Devices : e # d => view'[e] = view[e]
  BY DEF Inv, Types
<1>3. \A e \in Devices : e # d => DevReads(e)'
  <2> SUFFICES ASSUME NEW e \in Devices, e # d PROVE DevReads(e)'
    OBVIOUS
  <2>1. view'[e] = view[e] /\ disk'[e] = disk[e]
    BY <1>2
  <2>2. DevReads(e) /\ (disk'[e].in => view'[e].in)
    BY <2>1 DEF Reads, DevReads
  <2> QED BY <1>1, <2>1, <2>2, RowsStay
<1>4. DevReads(d)'
  <2>1. UsedRow(v)' /\ UsedRow(disk[d])'
    BY DEF UsedRow, Reads, DevReads
  <2> QED BY <1>2, <2>1 DEF DevReads, UsedRow, ReadRow
<1> QED BY <1>3, <1>4 DEF Reads

-------------------------------------------------------------------------------
(* The steps. *)

\* All but the three that move a row in memory on.
LEMMA Others ==
    ASSUME Inv, Reads, NEW d \in Devices,
           \/ Ask(d) \/ Poll(d) \/ BeginSend(d) \/ BeginAdd(d) \/ BeginIngest(d) \/ Land(d)
           \/ StoreWelcome(d) \/ Save(d) \/ Ack(d) \/ Ingested(d) \/ Fail(d) \/ Reload(d)
    PROVE  Reads'
<1>1. joined' = joined /\ passed' = passed
  BY DEF Ask, Poll, BeginSend, BeginAdd, BeginIngest, Land, StoreWelcome, Save, Ack, Ingested, Fail, Reload, history
<1>2. Longer
  <2>1. log \in Seq(Message) /\ Len(log) \in Nat
    BY Typed DEF Inv, Types
  <2>2. CASE Land(d)
    <3>1. PICK m : log' = Append(log, m)
      BY <2>2 DEF Land
    <3>2. log \in Seq(Message \cup {m})
      BY <2>1, SeqMonotonic
    <3> QED BY <2>1, <3>1, <3>2, AppendProperties DEF Longer
  <2>3. CASE log' = log
    BY <2>1, <2>3 DEF Longer
  <2> QED BY <2>2, <2>3 DEF Ask, Poll, BeginSend, BeginAdd, BeginIngest, StoreWelcome, Save, Ack, Ingested, Fail,
                            Reload, coordinator
<1>3. \A e \in Devices : strayed[e] => strayed'[e]
  BY DEF Inv, Types, Ask, Poll, BeginSend, BeginAdd, BeginIngest, Land, StoreWelcome, Save, Ack, Ingested, Fail, Reload,
         history
<1>4. \/ view' = view /\ disk' = disk
      \/ view' = view /\ disk' = [disk EXCEPT ![d] = view[d]]
      \/ view' = [view EXCEPT ![d] = disk[d]] /\ disk' = disk
  BY DEF Ask, Poll, BeginSend, BeginAdd, BeginIngest, Land, StoreWelcome, Save, Ack, Ingested, Fail, Reload
<1>5. SUFFICES ASSUME NEW e \in Devices PROVE DevReads(e)'
  BY DEF Reads
<1>6. /\ view'[e] \in {view[e], disk[e]} /\ disk'[e] \in {view[e], disk[e]}
      /\ disk'[e].in => view'[e].in
  BY <1>4 DEF Inv, Types, Reads, DevReads
<1>7. DevReads(e)
  BY DEF Reads
<1> QED BY <1>1, <1>2, <1>3, <1>6, <1>7, RowsStay

\* An own post: what it goes past is counted as passed.
LEMMA AnswerReads == ASSUME Inv, Reads, NEW d \in Devices, Answer(d) PROVE Reads'
<1>1. PICK s \in running[d] :
         /\ s.phase = "sent"
         /\ IF s.task.op = "send"
            THEN view' = [view EXCEPT ![d].epoch = s.epoch, ![d].sent = s.gen + 1,
                                      ![d].cursor = AfterPost(view[d].cursor, s.at),
                                      ![d].shown = Append(view[d].shown, s.at)]
            ELSE view' = [view EXCEPT ![d].epoch = s.at, ![d].sent = 0, ![d].used = {},
                                      ![d].cursor = AfterPost(view[d].cursor, s.at)]
         /\ strayed' = [strayed EXCEPT ![d] = @ \/ Canon(s.at - 1) # s.epoch]
         /\ passed' = [passed EXCEPT ![d] = @ \cup (view[d].cursor + 1..s.at - 1)]
  BY DEF Answer
<1>2. UNCHANGED <<log, disk, joined>>
  BY DEF Answer, coordinator
<1>3. /\ SectionOK(d, s) /\ s.at \in Nat /\ s.gen \in Nat /\ s.epoch \in Nat
      /\ s.at \in 1..Len(log) /\ view[d].cursor < s.at /\ log[s.at].by[1] = d /\ s.epoch = view[d].epoch
      /\ view[d].in
  BY <1>1, SectionTypes DEF SectionOK
<1>4. PICK u \in View : u = view[d] /\ RowOK(u) /\ u.cursor \in Nat /\ u.shown \in Seq(Nat)
  BY Typed DEF Inv, DevOK, View
<1>5. PICK seen \in Seq(Nat) : seen = IF s.task.op = "send" THEN Append(u.shown, s.at) ELSE u.shown
  BY <1>3, <1>4, AppendProperties
<1>6. PICK v : v = IF s.task.op = "send"
                   THEN [u EXCEPT !.epoch = s.epoch, !.sent = s.gen + 1, !.cursor = s.at, !.shown = seen]
                   ELSE [u EXCEPT !.epoch = s.at, !.sent = 0, !.used = {}, !.cursor = s.at]
  OBVIOUS
<1>7. view' = [view EXCEPT ![d] = v]
  <2>1. AfterPost(u.cursor, s.at) = s.at
    BY <1>3, <1>4 DEF AfterPost
  <2>2. view \in [Devices -> View]
    BY DEF Inv, Types
  <2> QED BY <1>1, <1>4, <1>5, <1>6, <2>1, <2>2
<1>8. v \in View
  <2>1. CASE s.task.op = "send"
    <3>1. PICK n \in Nat : n = s.gen + 1
      BY <1>3
    <3>2. v = [u EXCEPT !.epoch = s.epoch, !.sent = n, !.cursor = s.at, !.shown = seen]
      BY <1>6, <2>1, <3>1
    <3> QED BY ONLY <1>3, <1>4, <1>5, <3>1, <3>2 DEF View
  <2>2. CASE s.task.op # "send"
    <3>1. PICK none \in SUBSET (Leaf \X Nat), zero \in Nat : none = {} /\ zero = 0
      OBVIOUS
    <3>2. v = [u EXCEPT !.epoch = s.at, !.sent = zero, !.used = none, !.cursor = s.at]
      BY <1>6, <2>2, <3>1
    <3> QED BY ONLY <1>3, <1>4, <3>1, <3>2 DEF View
  <2> QED BY <2>1, <2>2
<1>9. /\ v.in /\ v.cursor = s.at /\ v.shown = seen
      /\ v.used = {} \/ (v.used = u.used /\ v.epoch = u.epoch)
  BY <1>3, <1>4, <1>5, <1>6 DEF View
<1>10. UsedRow(v)
  BY <1>3, <1>4, <1>9 DEF UsedRow, Reads, DevReads
<1>11. /\ passed'[d] = passed[d] \cup (u.cursor + 1..s.at - 1) /\ (strayed[d] => strayed'[d])
       /\ \A e \in Devices : e # d => passed'[e] = passed[e] /\ strayed'[e] = strayed[e]
  BY <1>1, <1>4 DEF Inv, Types
<1>12. ASSUME ~strayed'[d] PROVE ReadRow(d, v)' /\ ReadRow(d, disk[d])'
  <2>1. ReadRow(d, u) /\ ReadRow(d, disk[d])
    BY <1>4, <1>11, <1>12 DEF Reads, DevReads
  <2>2. Longer /\ disk[d] \in View /\ RowOK(disk[d]) /\ joined[d] \in Nat
    BY <1>2, Typed DEF Longer, Inv, DevOK, Types
  <2>3. PICK w \in View : w = disk[d] /\ RowOK(w) /\ ReadRow(d, w)
    BY <2>1, <2>2
  <2>4. ReadRow(d, u)' /\ ReadRow(d, w)'
    BY <1>2, <1>4, <1>11, <2>1, <2>2, <2>3, RowStays
  <2>5. ReadRow(d, disk[d])'
    BY <1>2, <2>3, <2>4 DEF ReadRow
  <2>6. \A c : Shows(u, c) => Shows(v, c)
    <3>1. \A i \in 1..Len(u.shown) : i \in 1..Len(seen) /\ seen[i] = u.shown[i]
      BY <1>3, <1>4, <1>5, AppendProperties, LenProperties
    <3> QED BY <1>9, <3>1 DEF Shows
  <2>7. ReadRow(d, v)'
    <3> SUFFICES ASSUME NEW c \in joined[d] + 1..s.at, Due(d, c)'
                 PROVE  c \in passed'[d] \/ Shows(v, c)
      BY <1>2, <1>9 DEF ReadRow, Shows
    <3>1. CASE c <= u.cursor
      <4>1. c \in joined[d] + 1..u.cursor
        BY <1>4, <2>2, <3>1
      <4> QED BY <1>2, <1>3, <1>4, <2>4, <2>6, <4>1 DEF ReadRow, Shows
    <3>2. CASE ~(c <= u.cursor) /\ c # s.at
      BY <1>3, <1>4, <1>11, <2>2, <3>2
    <3>3. CASE c = s.at
      BY <1>2, <1>3, <3>3 DEF Due
    <3> QED BY <3>1, <3>2, <3>3
  <2> QED BY <2>5, <2>7
<1>13. disk[d].in => v.in
  BY <1>9
<1> QED BY ONLY Inv, Reads, <1>2, <1>7, <1>8, <1>10, <1>11, <1>12, <1>13, RowMoves

\* Nothing is due yet to a device that joins.
LEMMA BeginAcceptReads == ASSUME Inv, Reads, NEW d \in Devices, BeginAccept(d) PROVE Reads'
<1>1. PICK w \in Welcome :
         \/ UNCHANGED <<view, strayed, joined>>
         \/ /\ view' = [view EXCEPT ![d] = JoinedBy(view[d], w)]
            /\ strayed' = [strayed EXCEPT ![d] = @ \/ view[d].in \/ Canon(w.after) # w.after]
            /\ joined' = [joined EXCEPT ![d] = w.after]
  <2>1. Take(d, "accept") /\ Head(tasks[d]) \in Task /\ Head(tasks[d]).op = "accept"
    BY QueueTake DEF BeginAccept
  <2> QED BY <2>1, TaskTypes DEF BeginAccept
<1>2. UNCHANGED <<log, disk, passed>>
  BY DEF BeginAccept, coordinator
<1>3. CASE UNCHANGED <<view, strayed, joined>>
  BY <1>2, <1>3 DEF Reads, DevReads, UsedRow, ReadRow, Due, Shows, Reused, Canon
<1>4. CASE /\ view' = [view EXCEPT ![d] = JoinedBy(view[d], w)]
           /\ strayed' = [strayed EXCEPT ![d] = @ \/ view[d].in \/ Canon(w.after) # w.after]
           /\ joined' = [joined EXCEPT ![d] = w.after]
  <2>1. PICK u \in View : u = view[d]
    BY Typed DEF Inv
  <2>2. PICK v : v = JoinedBy(u, w)
    OBVIOUS
  <2>3. /\ v \in View /\ v.in /\ v.used = {} /\ w.after \in Nat
        /\ v.cursor = IF u.in THEN u.cursor ELSE w.after
    BY <2>1, <2>2 DEF JoinedBy, View, Welcome
  <2>4. view' = [view EXCEPT ![d] = v]
    BY <1>4, <2>1, <2>2
  <2>5. UsedRow(v)
    BY <2>3 DEF UsedRow
  <2>6. /\ strayed'[d] \/ ~u.in
        /\ joined'[d] = w.after
        /\ \A e \in Devices : e # d => /\ joined'[e] = joined[e] /\ passed'[e] = passed[e]
                                       /\ strayed'[e] = strayed[e]
    BY <1>2, <1>4, <2>1 DEF Inv, Types
  <2>7. ASSUME ~strayed'[d] PROVE ReadRow(d, v)' /\ ReadRow(d, disk[d])'
    <3>1. ~u.in /\ v.cursor = w.after /\ joined'[d] = w.after /\ w.after + 1..w.after = {}
      BY <2>3, <2>6, <2>7
    <3>2. ~disk[d].in
      BY <2>1, <3>1 DEF Reads, DevReads
    <3> QED BY <1>2, <3>1, <3>2 DEF ReadRow
  <2>8. disk[d].in => v.in
    BY <2>3
  <2> QED BY ONLY Inv, Reads, <1>2, <2>3, <2>4, <2>5, <2>6, <2>7, <2>8, RowMoves
<1> QED BY <1>1, <1>3, <1>4

\* The next message: a text that is due opens, since no earlier one of the epoch
\* took up its generation.
LEMMA IngestReads == ASSUME Inv, Reads, NEW d \in Devices, Ingest(d) PROVE Reads'
<1>1. PICK s \in running[d] :
         /\ s.phase \in {"clean", "dirty"} /\ s.at <= s.task.upto
         /\ \/ Stale(d, s.at) /\ UNCHANGED view
            \/ /\ ~Stale(d, s.at)
               /\ view' = [view EXCEPT ![d] = IF s.at \in posted[d] THEN [view[d] EXCEPT !.cursor = s.at]
                                              ELSE Processed(view[d], s.at, <<d, view[d].leaf>>)]
  BY DEF Ingest
<1>2. UNCHANGED <<log, disk, strayed, passed, joined>>
  BY DEF Ingest, coordinator, history
<1>3. CASE UNCHANGED view
  BY <1>2, <1>3 DEF Reads, DevReads, UsedRow, ReadRow, Due, Shows, Reused, Canon
<1>4. CASE /\ ~Stale(d, s.at)
           /\ view' = [view EXCEPT ![d] = IF s.at \in posted[d] THEN [view[d] EXCEPT !.cursor = s.at]
                                          ELSE Processed(view[d], s.at, <<d, view[d].leaf>>)]
  <2>1. PICK u \in View : u = view[d] /\ RowOK(u) /\ u.cursor \in Nat /\ u.shown \in Seq(Nat)
    BY Typed DEF Inv, DevOK, View
  <2>2. /\ s.at \in Nat /\ s.task.upto \in Nat /\ s.task.upto <= Len(log) /\ 1 <= s.at
        /\ s.at <= u.cursor + 1 /\ u.in /\ Len(log) \in Nat
    BY <1>1, <2>1, SectionTypes, TaskTypes, Typed DEF SectionOK, Inv
  <2>3. s.at = u.cursor + 1 /\ u.cursor < s.at /\ s.at \in 1..Len(log)
    BY <1>1, <1>4, <2>1, <2>2 DEF Stale
  <2>4. PICK m \in Message : m = log[s.at]
    BY <2>3, Typed DEF Inv
  <2>5. PICK v : v = IF s.at \in posted[d] THEN [u EXCEPT !.cursor = s.at] ELSE Processed(u, s.at, <<d, u.leaf>>)
    OBVIOUS
  <2>6. v \in View /\ v.in /\ v.cursor = s.at
    BY <2>1, <2>2, <2>3, <2>5, ReadsOn
  <2>7. view' = [view EXCEPT ![d] = v]
    BY <1>4, <2>1, <2>5
  <2> DEFINE own   == <<d, u.leaf>>
             taken == s.at \notin posted[d] /\ Opens(u, m, own) /\ m.kind = "text"
  <2>8. \/ /\ taken /\ v.shown = Append(u.shown, s.at) /\ v.epoch = u.epoch /\ m.epoch = u.epoch
           /\ v.used \in {u.used, u.used \cup {<<m.by, m.gen>>}}
        \/ /\ ~taken /\ v.shown = u.shown
           /\ v.used = {} \/ (v.used = u.used /\ v.epoch = u.epoch)
    <3>1. CASE s.at \in posted[d] \/ ~Opens(u, m, own)
      <4>1. v = [u EXCEPT !.cursor = s.at]
        BY <2>4, <2>5, <3>1 DEF Processed
      <4> QED BY <2>1, <3>1, <4>1 DEF View
    <3>2. CASE s.at \notin posted[d] /\ Opens(u, m, own) /\ m.kind = "commit"
      <4>1. v = [u EXCEPT !.cursor = s.at, !.epoch = s.at, !.sent = 0, !.used = {}]
        BY <2>4, <2>5, <3>2 DEF Processed
      <4> QED BY <2>1, <3>2, <4>1 DEF View
    <3>3. CASE taken
      <4>1. PICK n, used : /\ v = [u EXCEPT !.cursor = s.at, !.shown = Append(u.shown, s.at), !.sent = n, !.used = used]
                           /\ used = IF m.by = own THEN u.used ELSE u.used \cup {<<m.by, m.gen>>}
        BY <2>4, <2>5, <3>3 DEF Processed
      <4>2. m.epoch = u.epoch
        BY <3>3 DEF Opens
      <4> QED BY <2>1, <3>3, <4>1, <4>2 DEF View
    <3>4. m.kind \in {"text", "commit"}
      BY DEF Message
    <3> QED BY <3>1, <3>2, <3>3, <3>4
  <2>9. UsedRow(u)
    BY <2>1 DEF Reads, DevReads
  <2>10. UsedRow(v)
    <3> SUFFICES ASSUME NEW x \in v.used
                 PROVE  \E b \in 1..s.at : log[b].kind = "text" /\ log[b].by = x[1] /\ log[b].gen = x[2]
                                           /\ log[b].epoch = v.epoch
      BY <2>6 DEF UsedRow
    <3>1. CASE x \in u.used
      <4>1. v.epoch = u.epoch
        BY <2>8, <3>1
      <4>2. PICK b \in 1..u.cursor : log[b].kind = "text" /\ log[b].by = x[1] /\ log[b].gen = x[2] /\ log[b].epoch = u.epoch
        BY <2>9, <3>1 DEF UsedRow
      <4>3. b \in 1..s.at
        BY <2>1, <2>3
      <4> QED BY <4>1, <4>2, <4>3
    <3>2. CASE x \notin u.used
      <4>1. taken /\ x = <<m.by, m.gen>> /\ v.epoch = u.epoch /\ m.epoch = u.epoch
        BY <2>8, <3>2
      <4>2. s.at \in 1..s.at
        BY <2>2
      <4> QED BY <2>4, <4>1, <4>2
    <3> QED BY <3>1, <3>2
  <2>11. ASSUME ~strayed'[d] PROVE ReadRow(d, v)' /\ ReadRow(d, disk[d])'
    <3>1. ReadRow(d, u) /\ ReadRow(d, disk[d]) /\ joined[d] \in Nat /\ ~strayed[d]
      BY <1>2, <2>1, <2>11 DEF Reads, DevReads, Inv, Types
    <3>2. ReadRow(d, disk[d])'
      BY <1>2, <3>1 DEF ReadRow, Due, Shows, Reused, Canon
    <3>3. \A c : Shows(u, c) => Shows(v, c)
      <4>1. v.shown = u.shown \/ v.shown = Append(u.shown, s.at)
        BY <2>8
      <4>2. \A i \in 1..Len(u.shown) : i \in 1..Len(v.shown) /\ v.shown[i] = u.shown[i]
        BY <2>1, <2>2, <4>1, AppendProperties, LenProperties
      <4> QED BY <4>2 DEF Shows
    <3>4. ASSUME Due(d, s.at) PROVE Shows(v, s.at)
      <4>1. m.kind = "text" /\ m.by[1] # d /\ m.epoch = Canon(s.at) /\ ~Reused(s.at)
        BY <2>4, <3>4 DEF Due
      <4>2. s.at \notin posted[d] /\ m.by # own
        BY <2>4, <4>1 DEF Inv, DevOK, PostedOK
      <4>3. Canon(s.at) = Canon(s.at - 1)
        BY <2>3, <2>4, <4>1 DEF Canon, Inv, LogOK
      <4>4. u.epoch = Canon(s.at - 1)
        <5>1. InStep(u)
          BY <2>1, <3>1 DEF Inv, DevOK, EpochOK, InStep
        <5>2. s.at - 1 = u.cursor
          BY <2>1, <2>3
        <5> QED BY <2>2, <5>1, <5>2 DEF InStep
      <4>5. <<m.by, m.gen>> \notin u.used
        <5> SUFFICES ASSUME <<m.by, m.gen>> \in u.used PROVE FALSE
          OBVIOUS
        <5>1. PICK b \in 1..u.cursor : log[b].kind = "text" /\ log[b].by = m.by /\ log[b].gen = m.gen /\ log[b].epoch = u.epoch
          BY <2>9 DEF UsedRow
        <5>2. b \in 1..s.at - 1
          BY <2>1, <2>3
        <5> QED BY <2>4, <4>1, <4>3, <4>4, <5>1, <5>2 DEF Reused
      <4>6. taken
        BY <4>1, <4>2, <4>3, <4>4, <4>5 DEF Opens
      <4>7. v.shown = Append(u.shown, s.at) /\ Len(u.shown) + 1 \in 1..Len(v.shown) /\ v.shown[Len(u.shown) + 1] = s.at
        BY <2>1, <2>2, <2>8, <4>6, AppendProperties, LenProperties
      <4> QED BY <4>7 DEF Shows
    <3>5. \A c \in joined[d] + 1..s.at : Due(d, c) => c \in passed[d] \/ Shows(v, c)
      <4> SUFFICES ASSUME NEW c \in joined[d] + 1..s.at, Due(d, c) PROVE c \in passed[d] \/ Shows(v, c)
        OBVIOUS
      <4>1. CASE c = s.at
        BY <3>4, <4>1
      <4>2. CASE c # s.at
        <5>1. c \in joined[d] + 1..u.cursor
          BY <2>1, <2>3, <3>1, <4>2
        <5> QED BY <2>2, <3>1, <3>3, <5>1 DEF ReadRow
      <4> QED BY <4>1, <4>2
    <3> QED BY <1>2, <2>6, <3>2, <3>5 DEF ReadRow, Due, Shows, Reused, Canon
  <2>12. disk[d].in => v.in
    BY <2>6
  <2>13. \A e \in Devices : e # d => joined'[e] = joined[e] /\ passed'[e] = passed[e] /\ strayed'[e] = strayed[e]
    BY <1>2
  <2> QED BY ONLY Inv, Reads, <1>2, <2>6, <2>7, <2>10, <2>11, <2>12, <2>13, RowMoves
<1> QED BY <1>1, <1>3, <1>4

-------------------------------------------------------------------------------
(* The theorem. *)

LEMMA InitReads == Init => Reads
<1> SUFFICES ASSUME Init, NEW d \in Devices PROVE DevReads(d)
  BY DEF Reads
<1>1. \A v \in {Outside, Created} : v.used = {} /\ v.cursor = 0
  BY DEF Outside, Created
<1>2. view[d] \in {Outside, Created} /\ disk[d] = view[d] /\ joined[d] = 0
  BY DEF Init
<1>3. UsedRow(view[d]) /\ ReadRow(d, view[d])
  BY <1>1, <1>2 DEF UsedRow, ReadRow
<1> QED BY <1>2, <1>3 DEF DevReads

LEMMA NextReads == Inv /\ Reads /\ [Next]_vars => Reads'
<1> SUFFICES ASSUME Inv, Reads, [Next]_vars PROVE Reads'
  OBVIOUS
<1>1. CASE UNCHANGED vars
  BY <1>1 DEF vars, Reads, DevReads, UsedRow, ReadRow, Due, Shows, Reused, Canon
<1>2. CASE Next
  BY <1>2, Others, AnswerReads, BeginAcceptReads, IngestReads DEF Next, SectionStep
<1> QED BY <1>1, <1>2

\* A device that keeps up shows every text of the others it can open since it
\* joined, but for what its own posts moved it past: the lock, the skipping of what
\* does not open, polls and reloads lose nothing, for any devices and steps.
THEOREM TextsDelivered == Spec => []Delivered
<1>1. Spec => [](Inv /\ Reads)
  BY InitInv, InitReads, NextInv, NextReads, PTL DEF Spec
<1>2. Reads => Delivered
  BY DEF Reads, DevReads, ReadRow, Due, Shows, Delivered
<1> QED BY <1>1, <1>2, PTL

-----------------------------------------------------------------------------
(* What was read and saved is never taken back. *)

Continues(r, s) == Len(r) <= Len(s) /\ \A i \in 1..Len(r) : s[i] = r[i]

\* Row w comes after row v: it has read as far and still shows what v showed.
Forward(v, w) == v.cursor <= w.cursor /\ Continues(v.shown, w.shown) /\ (v.in => w.in)

\* The row on disk is one the row in memory has been through.
Behind == \A d \in Devices : Forward(disk[d], view[d])

LEMMA ForwardTrans ==
    ASSUME NEW u \in View, NEW v \in View, NEW w \in View, Forward(u, v), Forward(v, w)
    PROVE  Forward(u, w)
<1>1. /\ u.cursor \in Nat /\ v.cursor \in Nat /\ w.cursor \in Nat
      /\ Len(u.shown) \in Nat /\ Len(v.shown) \in Nat /\ Len(w.shown) \in Nat
  BY LenProperties DEF View
<1>2. Len(u.shown) <= Len(w.shown) /\ u.cursor <= w.cursor
  BY <1>1 DEF Forward, Continues
<1>3. ASSUME NEW i \in 1..Len(u.shown) PROVE w.shown[i] = u.shown[i]
  <2>1. i \in 1..Len(v.shown)
    BY <1>1 DEF Forward, Continues
  <2> QED BY <2>1 DEF Forward, Continues
<1> QED BY <1>2, <1>3 DEF Forward, Continues

LEMMA ForwardSame == ASSUME NEW v \in View PROVE Forward(v, v)
<1>1. v.cursor \in Nat /\ Len(v.shown) \in Nat
  BY LenProperties DEF View
<1> QED BY <1>1 DEF Forward, Continues

\* A row that reads up to cursor c and shows at most one more message.
LEMMA ForwardTo ==
    ASSUME NEW v \in View, NEW w, NEW c \in Nat, v.cursor <= w.cursor, v.in => w.in,
           w.shown \in {v.shown, Append(v.shown, c)}
    PROVE  Forward(v, w)
<1>1. v.shown \in Seq(Nat) /\ Len(v.shown) \in Nat
  BY LenProperties DEF View
<1>2. CASE w.shown = v.shown
  BY <1>1, <1>2 DEF Forward, Continues
<1>3. CASE w.shown = Append(v.shown, c)
  <2>1. Len(w.shown) = Len(v.shown) + 1 /\ \A i \in 1..Len(v.shown) : w.shown[i] = v.shown[i]
    BY <1>1, <1>3, AppendProperties
  <2> QED BY <1>1, <2>1 DEF Forward, Continues
<1> QED BY <1>2, <1>3

LEMMA AnswerForward ==
    ASSUME Inv, NEW d \in Devices, Answer(d)
    PROVE  Forward(view[d], view'[d]) /\ \A e \in Devices : e # d => view'[e] = view[e]
<1>1. PICK s \in running[d] :
         \/ view' = [view EXCEPT ![d].epoch = s.epoch, ![d].sent = s.gen + 1,
                                 ![d].cursor = AfterPost(view[d].cursor, s.at),
                                 ![d].shown = Append(view[d].shown, s.at)]
         \/ view' = [view EXCEPT ![d].epoch = s.at, ![d].sent = 0, ![d].used = {},
                                 ![d].cursor = AfterPost(view[d].cursor, s.at)]
  BY DEF Answer
<1>2. PICK u \in View : u = view[d] /\ u.cursor \in Nat
  BY Typed DEF Inv, View
<1>3. PICK at \in Nat : at = s.at
  BY SectionTypes
<1>4. PICK c \in Nat : c = AfterPost(u.cursor, at) /\ u.cursor <= c
  BY <1>2 DEF AfterPost
<1>5. ASSUME NEW w, view' = [view EXCEPT ![d] = w], w.cursor = c, w.in = u.in,
             w.shown \in {u.shown, Append(u.shown, at)}
      PROVE  Forward(view[d], view'[d]) /\ \A e \in Devices : e # d => view'[e] = view[e]
  <2>1. view'[d] = w /\ \A e \in Devices : e # d => view'[e] = view[e]
    BY <1>5 DEF Inv, Types
  <2>2. u.cursor <= w.cursor /\ (u.in => w.in)
    BY <1>4, <1>5
  <2>3. Forward(u, w)
    BY <1>5, <2>2, ForwardTo
  <2> QED BY <1>2, <2>1, <2>3
<1>6. CASE view' = [view EXCEPT ![d].epoch = s.epoch, ![d].sent = s.gen + 1,
                                ![d].cursor = AfterPost(view[d].cursor, s.at),
                                ![d].shown = Append(view[d].shown, s.at)]
  <2>1. PICK w : w = [u EXCEPT !.epoch = s.epoch, !.sent = s.gen + 1, !.cursor = c, !.shown = Append(u.shown, at)]
    OBVIOUS
  <2>2. w.cursor = c /\ w.in = u.in /\ w.shown = Append(u.shown, at)
    BY <2>1 DEF View
  <2>3. view' = [view EXCEPT ![d] = w]
    BY <1>2, <1>3, <1>4, <1>6, <2>1
  <2> QED BY <1>5, <2>2, <2>3
<1>7. CASE view' = [view EXCEPT ![d].epoch = s.at, ![d].sent = 0, ![d].used = {},
                                ![d].cursor = AfterPost(view[d].cursor, s.at)]
  <2>1. PICK w : w = [u EXCEPT !.epoch = at, !.sent = 0, !.used = {}, !.cursor = c]
    OBVIOUS
  <2>2. w.cursor = c /\ w.in = u.in /\ w.shown = u.shown
    BY <2>1 DEF View
  <2>3. view' = [view EXCEPT ![d] = w]
    BY <1>2, <1>3, <1>4, <1>7, <2>1
  <2> QED BY <1>5, <2>2, <2>3
<1> QED BY <1>1, <1>6, <1>7

LEMMA BeginAcceptForward ==
    ASSUME Inv, NEW d \in Devices, BeginAccept(d)
    PROVE  Forward(view[d], view'[d]) /\ \A e \in Devices : e # d => view'[e] = view[e]
<1>1. PICK u \in View : u = view[d] /\ RowOK(u) /\ u.cursor \in Nat
  BY Typed DEF Inv, DevOK, View
<1>2. PICK w \in Welcome : view' \in {view, [view EXCEPT ![d] = JoinedBy(u, w)]}
  <2>1. Head(tasks[d]) \in Task /\ Head(tasks[d]).op = "accept"
    BY QueueTake DEF BeginAccept
  <2>2. Head(tasks[d]).welcome \in Welcome
    BY <2>1, TaskTypes
  <2> QED BY <1>1, <2>2 DEF BeginAccept
<1>3. CASE view' = view
  BY <1>1, <1>3, ForwardSame
<1>4. CASE view' = [view EXCEPT ![d] = JoinedBy(u, w)]
  <2>1. view'[d] = JoinedBy(u, w) /\ \A e \in Devices : e # d => view'[e] = view[e]
    BY <1>4 DEF Inv, Types
  <2>2. /\ JoinedBy(u, w).shown = u.shown /\ JoinedBy(u, w).in
        /\ JoinedBy(u, w).cursor = IF u.in THEN u.cursor ELSE w.after
    BY DEF JoinedBy
  <2>3. u.cursor <= JoinedBy(u, w).cursor
    BY <1>1, <2>2 DEF RowOK, Welcome
  <2> QED BY <1>1, <2>1, <2>2, <2>3, ForwardTo
<1> QED BY <1>2, <1>3, <1>4

LEMMA IngestForward ==
    ASSUME Inv, NEW d \in Devices, Ingest(d)
    PROVE  Forward(view[d], view'[d]) /\ \A e \in Devices : e # d => view'[e] = view[e]
<1>1. PICK u \in View : u = view[d] /\ u.cursor \in Nat /\ u.in \in BOOLEAN /\ u.shown \in Seq(Nat)
  BY Typed DEF Inv, View
<1>2. PICK c \in Nat :
         \/ view' = view
         \/ u.cursor < c /\ view' = [view EXCEPT ![d] = [u EXCEPT !.cursor = c]]
         \/ u.cursor < c /\ view' = [view EXCEPT ![d] = Processed(u, c, <<d, u.leaf>>)]
  <2>1. PICK s \in running[d] :
           \/ view' = view
           \/ /\ ~Stale(d, s.at)
              /\ view' = [view EXCEPT ![d] = IF s.at \in posted[d] THEN [view[d] EXCEPT !.cursor = s.at]
                                             ELSE Processed(view[d], s.at, <<d, view[d].leaf>>)]
    BY DEF Ingest
  <2>2. s.at \in Nat
    BY SectionTypes
  <2> QED BY <1>1, <2>1, <2>2 DEF Stale
<1>3. CASE view' = view
  BY <1>1, <1>3, ForwardSame
<1>4. ASSUME NEW w, view' = [view EXCEPT ![d] = w], u.cursor < c, w.cursor = c, w.in = u.in,
             w.shown \in {u.shown, Append(u.shown, c)}
      PROVE  Forward(view[d], view'[d]) /\ \A e \in Devices : e # d => view'[e] = view[e]
  <2>1. view'[d] = w /\ \A e \in Devices : e # d => view'[e] = view[e]
    BY <1>4 DEF Inv, Types
  <2>2. u.cursor <= w.cursor /\ (u.in => w.in)
    BY <1>1, <1>4
  <2>3. Forward(u, w)
    BY <1>4, <2>2, ForwardTo
  <2> QED BY <1>1, <2>1, <2>3
<1>5. CASE u.cursor < c /\ view' = [view EXCEPT ![d] = [u EXCEPT !.cursor = c]]
  <2>1. PICK w : w = [u EXCEPT !.cursor = c]
    OBVIOUS
  <2>2. w.cursor = c /\ w.in = u.in /\ w.shown = u.shown
    BY <2>1 DEF View
  <2> QED BY <1>4, <1>5, <2>1, <2>2
<1>6. CASE u.cursor < c /\ view' = [view EXCEPT ![d] = Processed(u, c, <<d, u.leaf>>)]
  <2>1. PICK w : w = Processed(u, c, <<d, u.leaf>>)
    OBVIOUS
  <2>2. w.cursor = c /\ w.in = u.in /\ w.shown \in {u.shown, Append(u.shown, c)}
    BY <2>1 DEF Processed, View
  <2> QED BY <1>4, <1>6, <2>1, <2>2
<1> QED BY <1>2, <1>3, <1>5, <1>6

\* Only a save writes to the disk, and only a reload takes a row back to it.
LEMMA RowsForward ==
    ASSUME Inv, Behind, NEW d \in Devices, Ask(d) \/ Poll(d) \/ SectionStep(d) \/ Fail(d) \/ Reload(d)
    PROVE  \A e \in Devices : /\ disk'[e] \in {disk[e], view[e]}
                              /\ disk'[e] # disk[e] => view' = view
                              /\ \/ Forward(view[e], view'[e])
                                 \/ Reload(e) /\ view'[e] = disk[e] /\ disk' = disk
<1>1. \A e \in Devices : Forward(view[e], view[e])
  BY Typed, ForwardSame DEF Inv
<1>2. CASE Answer(d) \/ BeginAccept(d) \/ Ingest(d)
  <2>1. disk' = disk
    BY <1>2 DEF Answer, BeginAccept, Ingest
  <2> QED BY <1>1, <1>2, <2>1, AnswerForward, BeginAcceptForward, IngestForward
<1>3. CASE Save(d)
  <2>1. view' = view /\ disk' = [disk EXCEPT ![d] = view[d]]
    BY <1>3 DEF Save
  <2>2. \A e \in Devices : disk'[e] \in {disk[e], view[e]}
    BY <2>1 DEF Inv, Types
  <2> QED BY <1>1, <2>1, <2>2
<1>4. CASE Reload(d)
  <2>1. view' = [view EXCEPT ![d] = disk[d]] /\ disk' = disk
    BY <1>4 DEF Reload
  <2>2. \A e \in Devices : view'[e] = IF e = d THEN disk[e] ELSE view[e]
    BY <2>1 DEF Inv, Types
  <2> QED BY <1>1, <1>4, <2>1, <2>2
<1>5. CASE \/ Ask(d) \/ Poll(d) \/ Fail(d) \/ BeginSend(d) \/ BeginAdd(d) \/ BeginIngest(d)
           \/ Land(d) \/ StoreWelcome(d) \/ Ack(d) \/ Ingested(d)
  <2>1. view' = view /\ disk' = disk
    BY <1>5 DEF Ask, Poll, Fail, BeginSend, BeginAdd, BeginIngest, Land, StoreWelcome, Ack, Ingested
  <2> QED BY <1>1, <2>1
<1> QED BY <1>2, <1>3, <1>4, <1>5 DEF SectionStep

\* No poll, post, welcome or failure moves a cursor back, hides a message that
\* was shown, or forgets the group; a reload returns to what was saved, and
\* what was saved is never taken back.
OnlyForward ==
    [][\A d \in Devices : /\ Forward(view[d], view'[d]) \/ Reload(d)
                          /\ Forward(disk[d], disk'[d])]_vars

\* The row a reload starts from is one the client has been through, so that
\* nothing saved is lost however polls, own posts, failures and reloads interleave.
THEOREM NothingTakenBack == Spec => OnlyForward /\ []Behind
<1> DEFINE Kept == \A d \in Devices : /\ Forward(view[d], view'[d]) \/ Reload(d)
                                      /\ Forward(disk[d], disk'[d])
<1>1. Init => Behind
  <2> SUFFICES ASSUME Init, NEW d \in Devices PROVE Forward(disk[d], view[d])
    BY DEF Behind
  <2>1. disk[d] = view[d] /\ view[d] \in View
    BY InitInv, Typed DEF Init, Inv
  <2> QED BY <2>1, ForwardSame
<1>2. Inv /\ Behind /\ [Next]_vars => Behind' /\ [Kept]_vars
  <2> SUFFICES ASSUME Inv, Behind, [Next]_vars PROVE Behind' /\ [Kept]_vars
    OBVIOUS
  <2>1. CASE UNCHANGED vars
    BY <2>1 DEF vars, Behind
  <2>2. ASSUME NEW d \in Devices, Ask(d) \/ Poll(d) \/ SectionStep(d) \/ Fail(d) \/ Reload(d)
        PROVE  Behind' /\ Kept
    <3> SUFFICES ASSUME NEW e \in Devices
                 PROVE  /\ Forward(disk[e], view[e])' /\ (Forward(view[e], view'[e]) \/ Reload(e))
                        /\ Forward(disk[e], disk'[e])
      BY DEF Behind
    <3>1. /\ disk[e] \in View /\ view[e] \in View /\ disk'[e] \in View /\ view'[e] \in View
          /\ Forward(disk[e], view[e])
      BY <2>2, NextInv, Typed DEF Inv, Types, Next, Behind
    <3>2. /\ disk'[e] \in {disk[e], view[e]}
          /\ disk'[e] # disk[e] => view' = view
          /\ Forward(view[e], view'[e]) \/ (Reload(e) /\ view'[e] = disk[e] /\ disk' = disk)
      BY <2>2, RowsForward
    <3>3. Forward(disk[e], disk'[e])
      BY <3>1, <3>2, ForwardSame
    <3>4. Forward(disk'[e], view'[e])
      BY <3>1, <3>2, ForwardSame, ForwardTrans
    <3> QED BY <3>2, <3>3, <3>4
  <2> QED BY <2>1, <2>2 DEF Next
<1> QED BY <1>1, <1>2, Invariance, PTL DEF Spec, OnlyForward
=============================================================================
