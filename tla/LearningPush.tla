---------------------------- MODULE LearningPush ----------------------------
(***************************************************************************)
(* Reminders of one member and their delivery as web push to one device    *)
(* (server/learning_reminders.go, learning_push.go and                     *)
(* daily_devotion_reminder.go).                                            *)
(*                                                                         *)
(* Every server instance runs the same worker: each tick creates the       *)
(* reminders of a daily slot, fills the table of deliveries, reads the due *)
(* ones and sends them one by one. The instances share nothing but the     *)
(* database, and handlers of the member, of other senders and of the       *)
(* device's other account run in between. One SQL statement is one step.   *)
(* Recipients share no row but the slot's, so one of them is modelled; the *)
(* ID of a reminder is its place in the sequence of inserts.               *)
(***************************************************************************)
EXTENDS Naturals, Sequences, FiniteSets

CONSTANTS
    Instances,    \* server processes with a push worker
    Peers,        \* members who may remind this one, once a day each
    Super,        \* the super administrator, whose reminders are not limited
    Daily,        \* the sender of the daily reminder (the recipient in the code)
    Apple,        \* whether the device's endpoint is one of Apple's
    BatchLimit,   \* LIMIT of the query of due deliveries (20)
    MaxAttempts,  \* attempts of a delivery (3)
    MaxReminders, \* bound: a person sends one only while there are fewer
    MaxEvents     \* bound: requests, phases of the day and faults together

ASSUME ConstantsAssumption ==
    /\ Instances # {} /\ Super \notin Peers /\ Daily \notin Peers \cup {Super}
    /\ Apple \in BOOLEAN /\ {BatchLimit, MaxAttempts} \subseteq Nat \ {0}
    /\ {MaxReminders, MaxEvents} \subseteq Nat

VARIABLES
    time,       \* phases since the first midnight, four a day
    reminders,  \* learning_reminders
    runs,       \* daily_devotion_reminder_runs: the slots already done
    muted,      \* learning_reminder_preferences.muted
    after,      \* learning_reminder_preferences.apple_push_after_id
    active,     \* group_members.status of the recipient
    enabled,    \* the group is active and its daily notifications are on
    sub,        \* the row of the device in learning_push_subscriptions
    clock,      \* orders created_at of subscriptions and reminders
    deliveries, \* learning_push_deliveries
    worker,     \* local state of the instances' workers
    copies,     \* history: how often the device got each reminder
    unsaved,    \* history: how often it got one and the answer was not saved
    skipped,    \* history: slots at which the member was muted or inactive
    events      \* bound counter for MaxEvents

vars == <<time, reminders, runs, muted, after, active, enabled, sub, clock, deliveries,
          worker, copies, unsaved, skipped, events>>

reminderVars == <<reminders, copies, unsaved>>
memberVars   == <<muted, after, active, enabled>>

Event == events < MaxEvents /\ events' = events + 1

\* Phases: 0 night, 1 the minute from 7:30, 2 day, 3 the minute from 18:30.
Day(t) == t \div 4

devotionReminderDue(t) == t % 4 \in {1, 3}

NoSub == [id |-> 0, member |-> FALSE, since |-> 0]

NoItem == [id |-> 0, sub |-> 0, attempts |-> 0]

Idle == [pc |-> "idle", now |-> 0, batch |-> {}, item |-> NoItem]

Ids == 1..Len(reminders)

Init ==
    /\ time = 0 /\ reminders = <<>> /\ runs = {}
    /\ muted \in BOOLEAN /\ after = 0 /\ active = TRUE /\ enabled = TRUE
    /\ sub \in {NoSub, [id |-> 1, member |-> TRUE, since |-> 1]} /\ clock = 1 /\ deliveries = <<>>
    /\ worker = [w \in Instances |-> Idle]
    /\ copies = <<>> /\ unsaved = <<>> /\ skipped = {}
    /\ events = 0

\* present is history: whether the device was bound to the member at the insert.
Reminder(from, made, at) ==
    [from |-> from, made |-> made, at |-> at, read |-> FALSE, backlog |-> FALSE,
     present |-> sub.member]

Add(r) ==
    /\ reminders' = Append(reminders, r)
    /\ copies' = Append(copies, 0) /\ unsaved' = Append(unsaved, 0)

(***************************************************************************)
(* Handlers                                                                *)
(***************************************************************************)

\* created_at is taken before the day's content is loaded, so the device may be
\* bound between the two. The unique key holds one row of a peer a day.
handleCreateLearningReminder(from) ==
    /\ Event /\ active /\ Len(reminders) < MaxReminders
    /\ from = Super \/ \A i \in Ids : reminders[i].from # from \/ Day(reminders[i].made) # Day(time)
    /\ \E at \in {clock - 1, clock} : Add(Reminder(from, time, at))
    /\ UNCHANGED <<time, runs, memberVars, sub, clock, deliveries, worker, skipped>>

Reading(ids) ==
    /\ Event
    /\ reminders' = [i \in DOMAIN reminders |->
                        IF i \in ids THEN [reminders[i] EXCEPT !.read = TRUE] ELSE reminders[i]]
    /\ UNCHANGED <<time, runs, memberVars, sub, clock, deliveries, worker, copies, unsaved,
                   skipped>>

handleReadLearningReminder(i) == ~reminders[i].read /\ Reading({i})

handleReadAllLearningReminders(through) ==
    (\E i \in 1..through : ~reminders[i].read) /\ Reading(1..through)

\* Mutant: muted is assigned before the condition on it is evaluated.
Preference_Swapped(mute) ==
    /\ Event /\ active /\ muted # mute
    /\ muted' = mute /\ after' = after
    /\ reminders' = IF mute THEN reminders
                    ELSE [i \in DOMAIN reminders |-> [reminders[i] EXCEPT !.backlog = TRUE]]
    /\ UNCHANGED <<time, runs, active, enabled, sub, clock, deliveries, worker, copies, unsaved,
                   skipped>>

\* Unmuting takes the highest ID so far as the boundary of pushes to Apple.
handleLearningReminderPreference(mute) ==
    /\ Event /\ active /\ muted # mute
    /\ muted' = mute /\ after' = IF mute THEN after ELSE Len(reminders)
    /\ reminders' = IF mute THEN reminders
                    ELSE [i \in DOMAIN reminders |-> [reminders[i] EXCEPT !.backlog = TRUE]]
    /\ UNCHANGED <<time, runs, active, enabled, sub, clock, deliveries, worker, copies, unsaved,
                   skipped>>

\* Mutant: the row keeps its created_at when it moves to another account.
Bound_KeepsSince(member) ==
    IF sub = NoSub THEN [id |-> clock + 1, member |-> member, since |-> clock + 1]
    ELSE [sub EXCEPT !.member = member]

\* INSERT ... ON DUPLICATE KEY UPDATE on the endpoint: a row that moves between
\* accounts keeps its ID and starts anew.
Bound(member) ==
    IF sub = NoSub THEN [id |-> clock + 1, member |-> member, since |-> clock + 1]
    ELSE IF sub.member = member THEN sub
    ELSE [sub EXCEPT !.member = member, !.since = clock + 1]

\* The device is bound to this member or to the other account used on it.
handleLearningPushSubscribe(member) ==
    /\ Event /\ (member => active)
    /\ sub' = Bound(member) /\ clock' = clock + 1
    /\ UNCHANGED <<time, reminderVars, runs, memberVars, deliveries, worker, skipped>>

handleLearningPushUnsubscribe ==
    /\ Event /\ sub # NoSub /\ sub' = NoSub
    /\ UNCHANGED <<time, reminderVars, runs, memberVars, clock, deliveries, worker, skipped>>

\* Handlers of other components: membership and the group's settings.
ChangeMember ==
    /\ Event /\ active' = ~active
    /\ UNCHANGED <<time, reminderVars, runs, muted, after, enabled, sub, clock, deliveries, worker,
                   skipped>>

ChangeSettings ==
    /\ Event /\ enabled' = ~enabled
    /\ UNCHANGED <<time, reminderVars, runs, muted, after, active, sub, clock, deliveries, worker,
                   skipped>>

(***************************************************************************)
(* The daily slots                                                         *)
(***************************************************************************)

Step(w, pc) == worker' = [worker EXCEPT ![w].pc = pc]

\* deliverLearningPush comes next, whatever became of the slot.
Deliver(w) == worker' = [worker EXCEPT ![w] = [Idle EXCEPT !.pc = "fill"]]

\* The time of the tick, not of what follows, decides whether a slot is due.
Tick(w) ==
    /\ worker[w].pc = "idle"
    /\ IF devotionReminderDue(time)
       THEN worker' = [worker EXCEPT ![w].now = time, ![w].pc = "slot"]
       ELSE Deliver(w)
    /\ UNCHANGED <<time, reminderVars, runs, memberVars, sub, clock, deliveries, skipped, events>>

\* Mutant: the row of the slot is written without looking at the rows affected.
Claims_Always(w) == TRUE

\* INSERT IGNORE of the slot's row affects a row; it waits for an uncommitted one.
Claims(w) == worker[w].now \notin runs

BeginSlot(w) ==
    /\ worker[w].pc = "slot"
    /\ enabled => \A v \in Instances : worker[v].pc # "tx" \/ worker[v].now # worker[w].now
    /\ IF enabled /\ Claims(w) THEN Step(w, "tx") ELSE Deliver(w)
    /\ UNCHANGED <<time, reminderVars, runs, memberVars, sub, clock, deliveries, skipped, events>>

\* The slot's row and its reminders are committed together.
enqueueGroupDevotionReminder(w) ==
    /\ worker[w].pc = "tx"
    /\ runs' = runs \cup {worker[w].now}
    /\ IF active /\ ~muted
       THEN /\ \E at \in {clock - 1, clock} : Add(Reminder(Daily, worker[w].now, at))
            /\ UNCHANGED skipped
       ELSE skipped' = skipped \cup {worker[w].now} /\ UNCHANGED reminderVars
    /\ Deliver(w)
    /\ UNCHANGED <<time, memberVars, sub, clock, deliveries, events>>

(***************************************************************************)
(* deliverLearningPush                                                     *)
(***************************************************************************)

Recent(i) == ~reminders[i].read /\ reminders[i].made + 4 > time

Fill(w) ==
    LET eligible == {<<i, sub.id>> : i \in {j \in Ids : /\ Recent(j) /\ sub.member
                                                        /\ sub.since <= reminders[j].at}}
    IN  /\ worker[w].pc = "fill"
        /\ deliveries' = [d \in DOMAIN deliveries \cup eligible |->
                            IF d \in DOMAIN deliveries THEN deliveries[d]
                            ELSE [attempts |-> 0, due |-> TRUE, finished |-> FALSE]]
        /\ Step(w, "select")
        /\ UNCHANGED <<time, reminderVars, runs, memberVars, sub, clock, skipped, events>>

\* The conditions of the query that a reminder and its member must meet.
Wanted(i) ==
    /\ Recent(i) /\ sub.member /\ active /\ ~muted
    /\ reminders[i].from = Daily => enabled /\ Day(reminders[i].made) = Day(time)
    /\ Apple => i > after

DueItems ==
    {[id |-> d[1], sub |-> d[2], attempts |-> deliveries[d].attempts] : d \in
        {e \in DOMAIN deliveries : /\ e[2] = sub.id /\ Wanted(e[1])
                                   /\ ~deliveries[e].finished /\ deliveries[e].due
                                   /\ deliveries[e].attempts < MaxAttempts}}

\* The loop over the items that are left; after the last the pass has ended.
Loop(w, items) ==
    worker' = [worker EXCEPT ![w] = IF items = {} THEN Idle
                                    ELSE [Idle EXCEPT !.pc = "claim", !.batch = items]]

\* The newest reminders first, at most BatchLimit.
Select(w) ==
    /\ worker[w].pc = "select"
    /\ Loop(w, {x \in DueItems : Cardinality({y \in DueItems : y.id > x.id}) < BatchLimit})
    /\ UNCHANGED <<time, reminderVars, runs, memberVars, sub, clock, deliveries, skipped, events>>

Key(x) == <<x.id, x.sub>>

\* Mutant: the update does not compare the attempts that were read.
Claimable_AnyAttempt(x) == ~deliveries[Key(x)].finished /\ deliveries[Key(x)].due

\* Mutant: the update names the delivery and nothing else.
Claimable_Always(x) == TRUE

Claimable(x) ==
    LET d == deliveries[Key(x)] IN d.attempts = x.attempts /\ ~d.finished /\ d.due

\* Mutant: the claim counts the attempt and leaves next_attempt_at alone.
Claimed_StillDue(d) == [d EXCEPT !.attempts = @ + 1]

\* Mutant: the claim puts off the next attempt and does not count this one.
Claimed_Uncounted(d) == [d EXCEPT !.due = FALSE]

Claimed(d) == [d EXCEPT !.attempts = @ + 1, !.due = FALSE]

Claim(w) ==
    /\ worker[w].pc = "claim"
    /\ \E x \in worker[w].batch :
          /\ \A y \in worker[w].batch : y.id <= x.id
          /\ IF Claimable(x)
             THEN /\ worker' = [worker EXCEPT ![w].pc = "send", ![w].batch = @ \ {x}, ![w].item = x]
                  /\ deliveries' = [deliveries EXCEPT ![Key(x)] = Claimed(@)]
             ELSE Loop(w, worker[w].batch \ {x}) /\ UNCHANGED deliveries
    /\ UNCHANGED <<time, reminderVars, runs, memberVars, sub, clock, skipped, events>>

NextItem(w) == Loop(w, worker[w].batch)

\* The push service takes the message, refuses it, or says that the device is
\* gone: then only the binding that the batch was read under is removed.
Send(w) ==
    /\ worker[w].pc = "send"
    /\ \/ /\ Step(w, "accepted") /\ copies' = [copies EXCEPT ![worker[w].item.id] = @ + 1]
          /\ UNCHANGED sub
       \/ NextItem(w) /\ UNCHANGED <<copies, sub>>
       \/ /\ NextItem(w) /\ UNCHANGED copies
          /\ sub.id = worker[w].item.sub /\ sub.member /\ sub' = NoSub
    /\ UNCHANGED <<time, reminders, unsaved, runs, memberVars, clock, deliveries, skipped, events>>

\* The message arrives and its answer does not: a timeout.
SendTimesOut(w) ==
    /\ worker[w].pc = "send" /\ Event
    /\ copies' = [copies EXCEPT ![worker[w].item.id] = @ + 1]
    /\ unsaved' = [unsaved EXCEPT ![worker[w].item.id] = @ + 1]
    /\ NextItem(w)
    /\ UNCHANGED <<time, reminders, runs, memberVars, sub, clock, deliveries, skipped>>

Finish(w) ==
    /\ worker[w].pc = "accepted"
    /\ deliveries' = [deliveries EXCEPT ![Key(worker[w].item)].finished = TRUE]
    /\ NextItem(w)
    /\ UNCHANGED <<time, reminderVars, runs, memberVars, sub, clock, skipped, events>>

(***************************************************************************)
(* Faults and time                                                         *)
(***************************************************************************)

Unsaved(w) ==
    unsaved' = IF worker[w].pc = "accepted"
               THEN [unsaved EXCEPT ![worker[w].item.id] = @ + 1] ELSE unsaved

\* A kill, or a statement that fails and ends the pass. An open transaction is
\* rolled back; a failed one is followed by the delivery of the same tick.
Fail(w) ==
    /\ Event /\ worker[w].pc # "idle"
    /\ \/ worker' = [worker EXCEPT ![w] = Idle]
       \/ worker[w].pc \in {"slot", "tx"} /\ Deliver(w)
    /\ Unsaved(w)
    /\ UNCHANGED <<time, reminders, copies, runs, memberVars, sub, clock, deliveries, skipped>>

Sending(w) == worker[w].pc \in {"send", "accepted"}

\* next_attempt_at is a minute after the claim, a send takes ten seconds at most.
MinutePasses(d) ==
    /\ ~deliveries[d].due /\ ~deliveries[d].finished
    /\ \A w \in Instances : Sending(w) => Key(worker[w].item) # d
    /\ deliveries' = [deliveries EXCEPT ![d].due = TRUE]
    /\ UNCHANGED <<time, reminderVars, runs, memberVars, sub, clock, worker, skipped, events>>

TimePasses ==
    /\ Event /\ time' = time + 1
    /\ UNCHANGED <<reminderVars, runs, memberVars, sub, clock, deliveries, worker, skipped>>

-----------------------------------------------------------------------------
Handlers ==
    \/ \E from \in Peers \cup {Super} : handleCreateLearningReminder(from)
    \/ \E i \in Ids : handleReadLearningReminder(i)
    \/ \E i \in Ids : handleReadAllLearningReminders(i)
    \/ \E b \in BOOLEAN : handleLearningReminderPreference(b)
    \/ \E b \in BOOLEAN : handleLearningPushSubscribe(b)
    \/ handleLearningPushUnsubscribe
    \/ ChangeMember
    \/ ChangeSettings

WorkerStep(w) ==
    \/ Tick(w)
    \/ BeginSlot(w)
    \/ enqueueGroupDevotionReminder(w)
    \/ Fill(w)
    \/ Select(w)
    \/ Claim(w)
    \/ Send(w)
    \/ Finish(w)

Next ==
    \/ Handlers
    \/ \E w \in Instances : WorkerStep(w) \/ SendTimesOut(w) \/ Fail(w)
    \/ \E d \in DOMAIN deliveries : MinutePasses(d)
    \/ TimePasses

\* The workers run for ever and a minute passes; nobody has to call a handler.
Fairness ==
    /\ \A w \in Instances : WF_vars(WorkerStep(w))
    /\ WF_vars(\E d \in DOMAIN deliveries : MinutePasses(d))

Spec == Init /\ [][Next]_vars /\ Fairness

-----------------------------------------------------------------------------
ReminderType ==
    [from : Peers \cup {Super, Daily}, made : Nat, at : Nat, read : BOOLEAN, backlog : BOOLEAN,
     present : BOOLEAN]

Subscription == [id : Nat, member : BOOLEAN, since : Nat]

Delivery == [attempts : 0..MaxAttempts, due : BOOLEAN, finished : BOOLEAN]

ItemType == [id : Nat, sub : Nat, attempts : 0..(MaxAttempts - 1)]

WorkerLocal ==
    [pc : {"idle", "slot", "tx", "fill", "select", "claim", "send", "accepted"}, now : Nat,
     batch : SUBSET ItemType, item : ItemType]

\* Types of the state; a delivery has MaxAttempts attempts at most, however the
\* batches of the instances interleave.
TypeOK ==
    /\ time \in Nat /\ clock \in Nat \ {0} /\ events \in Nat
    /\ reminders \in Seq(ReminderType) /\ runs \subseteq Nat /\ skipped \subseteq Nat
    /\ muted \in BOOLEAN /\ after \in Nat /\ active \in BOOLEAN /\ enabled \in BOOLEAN
    /\ sub \in Subscription
    /\ DOMAIN deliveries \subseteq Nat \X Nat
    /\ \A d \in DOMAIN deliveries : deliveries[d] \in Delivery
    /\ worker \in [Instances -> WorkerLocal]
    /\ copies \in Seq(Nat) /\ Len(copies) = Len(reminders)
    /\ unsaved \in Seq(Nat) /\ Len(unsaved) = Len(reminders)

\* A slot that is recorded as done created exactly one reminder, or found the
\* member muted or inactive; no slot creates two, whichever instances reach it
\* and whenever they are killed (enqueueGroupDevotionReminder).
DailyOnce ==
    /\ \A i, j \in Ids : reminders[i].from = Daily /\ reminders[j].from = Daily
                            /\ reminders[i].made = reminders[j].made => i = j
    /\ \A s \in runs : s \in skipped
                         <=> ~\E i \in Ids : reminders[i].from = Daily /\ reminders[i].made = s
    /\ \A i \in Ids : reminders[i].from = Daily => reminders[i].made \in runs

\* Two instances never send the same delivery at the same time: the claim is
\* won by one of those that read it (learning_push.go, the UPDATE of the claim).
OneSender ==
    \A v, w \in Instances : v # w /\ Sending(v) /\ Sending(w)
                               => Key(worker[v].item) # Key(worker[w].item)

\* The device gets a reminder again only when an answer of an earlier copy was
\* lost or not saved.
CopiesExplained == \A i \in Ids : copies[i] <= unsaved[i] + 1

\* "Only subscriptions already present when it was sent are eligible, so
\* enrolling a device cannot replay old reminders" (learning_push.go:131).
NoReplay == \A i \in Ids : copies[i] > 0 => reminders[i].present

\* After unmuting, an Apple device is offered none of the reminders that were
\* there before (apple_push_after_id).
BacklogStays ==
    [][\A w \in Instances : \A x \in worker'[w].batch \ worker[w].batch :
          ~(Apple /\ reminders[x.id].backlog)]_vars

\* The push of a reminder that stays wanted ends: it is accepted or given up.
Settled(i) ==
    \E d \in DOMAIN deliveries : /\ d = <<i, sub.id>>
                                 /\ deliveries[d].finished \/ deliveries[d].attempts = MaxAttempts

PushesEnd ==
    \A i \in 1..MaxEvents :
        []<>(i \in Ids => ~Wanted(i) \/ sub.since > reminders[i].at \/ Settled(i))

\* What CHANGE-CONSTRAINTS.md:68 says of a push: not to a muted or inactive
\* member, and not of a reminder already read.
PushesAreWanted ==
    [][\A i \in Ids : copies'[i] > copies[i] => ~muted /\ active /\ ~reminders[i].read]_vars

-----------------------------------------------------------------------------
(* The inductive invariants behind the safety properties *)

\* An open transaction holds the row of a slot that is not done, alone.
DailyInv ==
    /\ DailyOnce /\ skipped \subseteq runs
    /\ \A w \in Instances : worker[w].pc = "tx" => worker[w].now \notin runs
    /\ \A v, w \in Instances :
          v # w /\ worker[v].pc = "tx" /\ worker[w].pc = "tx" => worker[v].now # worker[w].now

\* What a worker holds refers to deliveries, and these to reminders.
KeysInv ==
    /\ \A d \in DOMAIN deliveries : d[1] \in Ids
    /\ \A w \in Instances : \A x \in worker[w].batch : Key(x) \in DOMAIN deliveries
    /\ \A w \in Instances : Sending(w) => Key(worker[w].item) \in DOMAIN deliveries

\* A reminder that the binding of the device is old enough for, or that has a
\* delivery, met the device bound to the member.
PresentInv ==
    /\ sub.since <= clock /\ \A i \in Ids : reminders[i].at <= clock
    /\ sub.member => \A i \in Ids : sub.since <= reminders[i].at => reminders[i].present
    /\ \A d \in DOMAIN deliveries : reminders[d[1]].present

\* A delivery that is being sent is neither due nor finished.
SenderInv ==
    /\ OneSender
    /\ \A w \in Instances : Sending(w) => LET d == deliveries[Key(worker[w].item)]
                                          IN  ~d.due /\ ~d.finished

\* A reminder has deliveries to one row of the device only: a new row is
\* younger than every reminder that has one.
RowInv ==
    /\ \A d, e \in DOMAIN deliveries : d[1] = e[1] => d[2] = e[2]
    /\ sub.member => \A d \in DOMAIN deliveries : sub.id # d[2] => sub.since > reminders[d[1]].at

\* A copy whose answer is not lost is saved, or its worker is about to save it.
CountInv ==
    /\ \A i \in Ids : copies[i] > unsaved[i] =>
          \/ \E d \in DOMAIN deliveries : d[1] = i /\ deliveries[d].finished
          \/ \E w \in Instances : worker[w].pc = "accepted" /\ worker[w].item.id = i
    /\ CopiesExplained

ReplayInv == KeysInv /\ PresentInv /\ NoReplay

OnceInv == SenderInv /\ RowInv /\ CountInv
=============================================================================
