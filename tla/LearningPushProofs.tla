------------------------- MODULE LearningPushProofs -------------------------
(***************************************************************************)
(* Proofs about reminders and web push, for every number of instances,     *)
(* peers, reminders, attempts and events. DailyInv follows the open        *)
(* transactions of the slots, ReplayInv a delivery from the binding of the *)
(* device to the message, OnceInv from the claim to the saved answer.      *)
(***************************************************************************)
EXTENDS LearningPush, TLAPS

LEMMA IdleType == Idle \in WorkerLocal /\ NoItem \in ItemType /\ NoSub \in Subscription
BY ConstantsAssumption DEF Idle, WorkerLocal, NoItem, ItemType, NoSub, Subscription

\* The initial state is well typed.
LEMMA InitType == Init => TypeOK
<1> SUFFICES ASSUME Init PROVE TypeOK
  OBVIOUS
<1>1. sub \in Subscription
  <2>1. [id |-> 1, member |-> TRUE, since |-> 1] \in Subscription
    BY DEF Subscription
  <2> QED
    BY <2>1, IdleType DEF Init
<1>2. DOMAIN deliveries = {}
  BY DEF Init
<1>3. worker \in [Instances -> WorkerLocal]
  BY IdleType DEF Init
<1> QED
  BY <1>1, <1>2, <1>3 DEF Init, TypeOK

\* A function on 1..n is a sequence of length n.
LEMMA LenMap ==
    ASSUME NEW T, NEW n \in Nat, NEW g \in [1..n -> T]
    PROVE  g \in Seq(T) /\ Len(g) = n
OBVIOUS

LEMMA LenType ==
    TypeOK => Len(reminders) \in Nat /\ \A i \in 1..Len(reminders) : reminders[i] \in ReminderType
BY DEF TypeOK

\* What no handler changes of a reminder that is there.
SameReminder(i) ==
    /\ reminders'[i].from = reminders[i].from /\ reminders'[i].made = reminders[i].made
    /\ reminders'[i].at = reminders[i].at /\ reminders'[i].present = reminders[i].present

\* Marking a reminder as read or as backlog keeps the rest of it.
LEMMA Marked ==
    ASSUME NEW r \in ReminderType
    PROVE  LET read == [r EXCEPT !.read = TRUE]
               back == [r EXCEPT !.backlog = TRUE]
           IN  /\ read \in ReminderType /\ back \in ReminderType
               /\ r.from = read.from /\ r.made = read.made /\ r.at = read.at
               /\ r.present = read.present
               /\ r.from = back.from /\ r.made = back.made /\ r.at = back.at
               /\ r.present = back.present
BY DEF ReminderType

\* Marks leave the senders and the times of the reminders alone.
LEMMA ReadingShape ==
    ASSUME TypeOK, NEW ids, Reading(ids)
    PROVE  /\ reminders' \in Seq(ReminderType) /\ Len(reminders') = Len(reminders)
           /\ \A i \in Ids : SameReminder(i)
<1> DEFINE new(i) == IF i \in ids THEN [reminders[i] EXCEPT !.read = TRUE] ELSE reminders[i]
<1>1. \A i \in 1..Len(reminders) : new(i) \in ReminderType
  BY Marked, LenType
<1>2. reminders' = [i \in 1..Len(reminders) |-> new(i)]
  BY DEF TypeOK, Reading
<1>3. \A i \in Ids : SameReminder(i)
  BY <1>2, LenType, Marked DEF Ids, SameReminder
<1> HIDE DEF new
<1>4. reminders' \in [1..Len(reminders) -> ReminderType]
  BY <1>1, <1>2
<1> QED
  BY <1>3, <1>4, LenMap, LenType

LEMMA PreferenceShape ==
    ASSUME TypeOK, NEW mute \in BOOLEAN, handleLearningReminderPreference(mute)
    PROVE  /\ reminders' \in Seq(ReminderType) /\ Len(reminders') = Len(reminders)
           /\ \A i \in Ids : SameReminder(i)
<1> DEFINE new(i) == [reminders[i] EXCEPT !.backlog = TRUE]
<1>1. CASE mute
  BY <1>1 DEF handleLearningReminderPreference, SameReminder, TypeOK
<1>2. CASE ~mute
  <2>1. \A i \in 1..Len(reminders) : new(i) \in ReminderType
    BY Marked, LenType
  <2>2. reminders' = [i \in 1..Len(reminders) |-> new(i)]
    BY <1>2 DEF TypeOK, handleLearningReminderPreference
  <2>3. \A i \in Ids : SameReminder(i)
    BY <2>2, LenType, Marked DEF Ids, SameReminder
  <2> HIDE DEF new
  <2>4. reminders' \in [1..Len(reminders) -> ReminderType]
    BY <2>1, <2>2
  <2> QED
    BY <2>3, <2>4, LenMap, LenType
<1> QED
  BY <1>1, <1>2

LEMMA Rebound ==
    ASSUME NEW s \in Subscription, NEW m \in BOOLEAN, NEW c \in Nat
    PROVE  [s EXCEPT !.member = m, !.since = c] \in Subscription
BY DEF Subscription

\* What appending one reminder does to the three sequences.
LEMMA AddShape ==
    ASSUME TypeOK, NEW r \in ReminderType, Add(r)
    PROVE  /\ reminders' \in Seq(ReminderType) /\ Len(reminders') = Len(reminders) + 1
           /\ copies' \in Seq(Nat) /\ Len(copies') = Len(reminders')
           /\ unsaved' \in Seq(Nat) /\ Len(unsaved') = Len(reminders')
           /\ Len(reminders) \in Nat /\ Ids' = Ids \cup {Len(reminders) + 1}
           /\ \A i \in Ids : /\ reminders'[i] = reminders[i] /\ copies'[i] = copies[i]
                             /\ unsaved'[i] = unsaved[i] /\ i # Len(reminders) + 1
           /\ reminders'[Len(reminders) + 1] = r /\ copies'[Len(reminders) + 1] = 0
           /\ unsaved'[Len(reminders) + 1] = 0
BY DEF TypeOK, Add, Ids

LEMMA ReminderShape ==
    ASSUME TypeOK, NEW from \in Peers \cup {Super, Daily}, NEW made \in Nat,
           NEW at \in {clock - 1, clock}
    PROVE  /\ Reminder(from, made, at) \in ReminderType
           /\ at \in Nat /\ at <= clock
BY DEF TypeOK, Reminder, ReminderType, Subscription

LEMMA DeliverType == ASSUME TypeOK, NEW w \in Instances, Deliver(w)
                     PROVE  worker' \in [Instances -> WorkerLocal]
<1>1. [Idle EXCEPT !.pc = "fill"] \in WorkerLocal
  BY IdleType DEF WorkerLocal
<1> QED
  BY <1>1 DEF TypeOK, Deliver

LEMMA LoopType == ASSUME TypeOK, NEW w \in Instances, NEW items \in SUBSET ItemType, Loop(w, items)
                  PROVE  worker' \in [Instances -> WorkerLocal]
<1>1. [Idle EXCEPT !.pc = "claim", !.batch = items] \in WorkerLocal
  BY IdleType DEF WorkerLocal
<1> QED
  BY <1>1, IdleType DEF TypeOK, Loop

LEMMA StepType ==
    ASSUME TypeOK, NEW w \in Instances, NEW pc \in {"tx", "select", "accepted"}, Step(w, pc)
    PROVE  worker' \in [Instances -> WorkerLocal]
<1>1. [worker[w] EXCEPT !.pc = pc] \in WorkerLocal
  BY DEF TypeOK, WorkerLocal
<1> QED
  BY <1>1 DEF TypeOK, Step

LEMMA WorkerFields ==
    ASSUME TypeOK, NEW w \in Instances
    PROVE  /\ worker[w].batch \in SUBSET ItemType /\ worker[w].item \in ItemType
           /\ worker[w].now \in Nat
BY DEF TypeOK, WorkerLocal

LEMMA DueType == ASSUME TypeOK PROVE DueItems \in SUBSET ItemType
<1> SUFFICES ASSUME NEW d \in DOMAIN deliveries, deliveries[d].attempts < MaxAttempts
             PROVE  [id |-> d[1], sub |-> d[2], attempts |-> deliveries[d].attempts] \in ItemType
  BY DEF DueItems
<1>1. d[1] \in Nat /\ d[2] \in Nat
  BY DEF TypeOK
<1>2. deliveries[d].attempts \in 0..(MaxAttempts - 1)
  BY ConstantsAssumption DEF TypeOK, Delivery
<1> QED
  BY <1>1, <1>2 DEF ItemType

-----------------------------------------------------------------------------
(* Type correctness *)

LEMMA HandlerType == ASSUME TypeOK, Handlers PROVE TypeOK'
<1> USE DEF reminderVars, memberVars, Event
<1>1. ASSUME NEW from \in Peers \cup {Super}, handleCreateLearningReminder(from) PROVE TypeOK'
  <2>1. PICK at \in {clock - 1, clock} : Add(Reminder(from, time, at))
    BY <1>1 DEF handleCreateLearningReminder
  <2>2. Reminder(from, time, at) \in ReminderType
    BY ReminderShape DEF TypeOK
  <2>3. /\ reminders' \in Seq(ReminderType)
        /\ copies' \in Seq(Nat) /\ Len(copies') = Len(reminders')
        /\ unsaved' \in Seq(Nat) /\ Len(unsaved') = Len(reminders')
    BY <2>1, <2>2, AddShape
  <2> QED
    BY <1>1, <2>3 DEF handleCreateLearningReminder, TypeOK
<1>2. ASSUME NEW ids, Reading(ids) PROVE TypeOK'
  <2>1. reminders' \in Seq(ReminderType) /\ Len(reminders') = Len(reminders)
    BY <1>2, ReadingShape
  <2> QED
    BY <1>2, <2>1 DEF TypeOK, Reading
<1>3. ASSUME NEW mute \in BOOLEAN, handleLearningReminderPreference(mute) PROVE TypeOK'
  <2>1. after' \in Nat
    BY <1>3, LenType DEF TypeOK, handleLearningReminderPreference
  <2>2. reminders' \in Seq(ReminderType) /\ Len(reminders') = Len(reminders)
    BY <1>3, PreferenceShape
  <2> QED
    BY <1>3, <2>1, <2>2 DEF TypeOK, handleLearningReminderPreference
<1>4. ASSUME NEW member \in BOOLEAN, handleLearningPushSubscribe(member) PROVE TypeOK'
  <2>1. Bound(member) \in Subscription
    <3>1. [id |-> clock + 1, member |-> member, since |-> clock + 1] \in Subscription
      BY DEF TypeOK, Subscription
    <3>2. clock + 1 \in Nat /\ sub \in Subscription
      BY DEF TypeOK
    <3>3. [sub EXCEPT !.member = member, !.since = clock + 1] \in Subscription
      BY <3>2, Rebound
    <3> QED
      BY <3>1, <3>2, <3>3 DEF Bound
  <2> QED
    BY <1>4, <2>1 DEF TypeOK, handleLearningPushSubscribe
<1>5. ASSUME handleLearningPushUnsubscribe PROVE TypeOK'
  BY <1>5, IdleType DEF TypeOK, handleLearningPushUnsubscribe
<1>6. ASSUME ChangeMember PROVE TypeOK'
  BY <1>6 DEF TypeOK, ChangeMember
<1>7. ASSUME ChangeSettings PROVE TypeOK'
  BY <1>7 DEF TypeOK, ChangeSettings
<1> QED
  BY <1>1, <1>2, <1>3, <1>4, <1>5, <1>6, <1>7
  DEF Handlers, handleReadLearningReminder, handleReadAllLearningReminders

LEMMA SlotType ==
    ASSUME TypeOK, NEW w \in Instances,
           Tick(w) \/ BeginSlot(w) \/ enqueueGroupDevotionReminder(w)
    PROVE  TypeOK'
<1> USE DEF reminderVars, memberVars
<1>1. CASE Tick(w)
  <2>1. [worker[w] EXCEPT !.now = time, !.pc = "slot"] \in WorkerLocal
    BY DEF TypeOK, WorkerLocal
  <2>2. worker' \in [Instances -> WorkerLocal]
    BY <1>1, <2>1, DeliverType DEF Tick, TypeOK
  <2> QED
    BY <1>1, <2>2 DEF Tick, TypeOK
<1>2. CASE BeginSlot(w)
  <2>1. worker' \in [Instances -> WorkerLocal]
    BY <1>2, DeliverType, StepType DEF BeginSlot
  <2> QED
    BY <1>2, <2>1 DEF BeginSlot, TypeOK
<1>3. CASE enqueueGroupDevotionReminder(w)
  <2>1. worker' \in [Instances -> WorkerLocal] /\ worker[w].now \in Nat
    BY <1>3, DeliverType, WorkerFields DEF enqueueGroupDevotionReminder
  <2>2. CASE active /\ ~muted
    <3>1. PICK at \in {clock - 1, clock} : Add(Reminder(Daily, worker[w].now, at))
      BY <1>3, <2>2 DEF enqueueGroupDevotionReminder
    <3>2. Reminder(Daily, worker[w].now, at) \in ReminderType
      BY <2>1, ReminderShape
    <3> QED
      BY <1>3, <2>1, <2>2, <3>1, <3>2, AddShape DEF enqueueGroupDevotionReminder, TypeOK
  <2>3. CASE ~(active /\ ~muted)
    BY <1>3, <2>1, <2>3 DEF enqueueGroupDevotionReminder, TypeOK
  <2> QED
    BY <2>2, <2>3
<1> QED
  BY <1>1, <1>2, <1>3

LEMMA CountUp ==
    ASSUME NEW s \in Seq(Nat), NEW i
    PROVE  [s EXCEPT ![i] = s[i] + 1] \in Seq(Nat) /\ Len([s EXCEPT ![i] = s[i] + 1]) = Len(s)
<1> DEFINE up == [s EXCEPT ![i] = s[i] + 1]
           new(k) == IF k = i THEN s[i] + 1 ELSE s[k]
<1>1. Len(s) \in Nat /\ DOMAIN s = 1..Len(s) /\ \A k \in 1..Len(s) : s[k] \in Nat
  OBVIOUS
<1>2. up = [k \in 1..Len(s) |-> new(k)]
  BY <1>1
<1>3. \A k \in 1..Len(s) : new(k) \in Nat
  BY <1>1
<1> HIDE DEF up, new
<1>4. up \in [1..Len(s) -> Nat]
  BY <1>2, <1>3
<1>5. up \in Seq(Nat) /\ Len(up) = Len(s)
  BY <1>1, <1>4, LenMap
<1> QED
  BY <1>5 DEF up

LEMMA PushType ==
    ASSUME TypeOK, NEW w \in Instances,
           Fill(w) \/ Select(w) \/ Claim(w) \/ Send(w) \/ Finish(w)
    PROVE  TypeOK'
<1> USE DEF reminderVars, memberVars
<1>1. CASE Fill(w)
  <2> DEFINE eligible == {<<i, sub.id>> : i \in {j \in Ids : /\ Recent(j) /\ sub.member
                                                           /\ sub.since <= reminders[j].at}}
  <2>1. worker' \in [Instances -> WorkerLocal]
    BY <1>1, StepType DEF Fill
  <2>2. eligible \subseteq Nat \X Nat
    BY DEF TypeOK, Subscription, Ids
  <2>3. [attempts |-> 0, due |-> TRUE, finished |-> FALSE] \in Delivery
    BY ConstantsAssumption DEF Delivery
  <2>4. /\ DOMAIN deliveries' = DOMAIN deliveries \cup eligible
        /\ \A d \in DOMAIN deliveries' : deliveries'[d] \in Delivery
    BY <1>1, <2>3 DEF Fill, TypeOK
  <2> QED
    BY <1>1, <2>1, <2>2, <2>4 DEF Fill, TypeOK
<1>2. CASE Select(w)
  <2>1. worker' \in [Instances -> WorkerLocal]
    BY <1>2, DueType, LoopType DEF Select
  <2> QED
    BY <1>2, <2>1 DEF Select, TypeOK
<1>3. CASE Claim(w)
  <2>1. PICK x \in worker[w].batch :
            IF Claimable(x)
            THEN /\ worker' = [worker EXCEPT ![w].pc = "send", ![w].batch = @ \ {x}, ![w].item = x]
                 /\ deliveries' = [deliveries EXCEPT ![Key(x)] = Claimed(@)]
            ELSE Loop(w, worker[w].batch \ {x}) /\ UNCHANGED deliveries
    BY <1>3 DEF Claim
  <2>2. x \in ItemType /\ worker[w].batch \ {x} \in SUBSET ItemType
    BY WorkerFields
  <2>3. CASE Claimable(x)
    <3>1. [worker[w] EXCEPT !.pc = "send", !.batch = worker[w].batch \ {x}, !.item = x] \in WorkerLocal
      BY <2>2 DEF TypeOK, WorkerLocal
    <3>2. worker' \in [Instances -> WorkerLocal]
      BY <2>1, <2>3, <3>1 DEF TypeOK
    <3>3. ASSUME Key(x) \in DOMAIN deliveries PROVE Claimed(deliveries[Key(x)]) \in Delivery
      <4> DEFINE d == deliveries[Key(x)]
      <4>1. d \in Delivery
        BY <3>3 DEF TypeOK
      <4>2. d.attempts + 1 \in 0..MaxAttempts
        BY <2>2, <2>3, <4>1, ConstantsAssumption DEF Claimable, ItemType, Delivery
      <4> QED
        BY <4>1, <4>2 DEF Claimed, Delivery
    <3>4. /\ DOMAIN deliveries' = DOMAIN deliveries
          /\ \A d \in DOMAIN deliveries' : deliveries'[d] \in Delivery
      BY <2>1, <2>3, <3>3 DEF TypeOK
    <3> QED
      BY <1>3, <3>2, <3>4 DEF Claim, TypeOK
  <2>4. CASE ~Claimable(x)
    <3>1. worker' \in [Instances -> WorkerLocal]
      BY <2>1, <2>2, <2>4, LoopType
    <3> QED
      BY <1>3, <2>1, <2>4, <3>1 DEF Claim, TypeOK
  <2> QED
    BY <2>3, <2>4
<1>4. CASE Send(w)
  <2>1. worker' \in [Instances -> WorkerLocal]
    BY <1>4, StepType, LoopType, WorkerFields DEF Send, NextItem
  <2>2. copies' \in Seq(Nat) /\ Len(copies') = Len(copies)
    BY <1>4, CountUp DEF Send, TypeOK
  <2>3. sub' \in Subscription
    BY <1>4, IdleType DEF Send, TypeOK
  <2> QED
    BY <1>4, <2>1, <2>2, <2>3 DEF Send, TypeOK
<1>5. CASE Finish(w)
  <2>1. worker' \in [Instances -> WorkerLocal]
    BY <1>5, LoopType, WorkerFields DEF Finish, NextItem
  <2>2. ASSUME NEW d \in DOMAIN deliveries
        PROVE  [deliveries[d] EXCEPT !.finished = TRUE] \in Delivery
    BY DEF TypeOK, Delivery
  <2>3. /\ DOMAIN deliveries' = DOMAIN deliveries
        /\ \A d \in DOMAIN deliveries' : deliveries'[d] \in Delivery
    BY <1>5, <2>2 DEF Finish, TypeOK
  <2> QED
    BY <1>5, <2>1, <2>3 DEF Finish, TypeOK
<1> QED
  BY <1>1, <1>2, <1>3, <1>4, <1>5

LEMMA TypeStep == TypeOK /\ [Next]_vars => TypeOK'
<1> SUFFICES ASSUME TypeOK, [Next]_vars PROVE TypeOK'
  OBVIOUS
<1> USE DEF reminderVars, memberVars
<1>1. CASE Handlers
  BY <1>1, HandlerType
<1>2. ASSUME NEW w \in Instances, WorkerStep(w) PROVE TypeOK'
  BY <1>2, SlotType, PushType DEF WorkerStep
<1>3. ASSUME NEW w \in Instances, SendTimesOut(w) PROVE TypeOK'
  <2>1. worker' \in [Instances -> WorkerLocal]
    BY <1>3, LoopType, WorkerFields DEF SendTimesOut, NextItem
  <2>2. copies' \in Seq(Nat) /\ Len(copies') = Len(copies)
    BY <1>3, CountUp DEF SendTimesOut, TypeOK
  <2>3. unsaved' \in Seq(Nat) /\ Len(unsaved') = Len(unsaved)
    BY <1>3, CountUp DEF SendTimesOut, TypeOK
  <2>4. UNCHANGED <<time, reminders, runs, memberVars, sub, clock, deliveries, skipped>>
    BY <1>3 DEF SendTimesOut
  <2>5. events' \in Nat
    BY <1>3 DEF SendTimesOut, Event, TypeOK
  <2> QED
    BY <2>1, <2>2, <2>3, <2>4, <2>5 DEF TypeOK
<1>4. ASSUME NEW w \in Instances, Fail(w) PROVE TypeOK'
  <2>1. worker' \in [Instances -> WorkerLocal]
    BY <1>4, DeliverType, IdleType DEF Fail, TypeOK
  <2>2. unsaved' \in Seq(Nat) /\ Len(unsaved') = Len(unsaved)
    BY <1>4, CountUp DEF Fail, Unsaved, TypeOK
  <2> QED
    BY <1>4, <2>1, <2>2 DEF Fail, TypeOK, Event
<1>5. ASSUME NEW e \in DOMAIN deliveries, MinutePasses(e) PROVE TypeOK'
  <2>1. [deliveries[e] EXCEPT !.due = TRUE] \in Delivery
    BY DEF TypeOK, Delivery
  <2>2. /\ DOMAIN deliveries' = DOMAIN deliveries
        /\ \A d \in DOMAIN deliveries' : deliveries'[d] \in Delivery
    BY <1>5, <2>1 DEF MinutePasses, TypeOK
  <2> QED
    BY <1>5, <2>2 DEF MinutePasses, TypeOK
<1>6. CASE TimePasses
  BY <1>6 DEF TimePasses, TypeOK, Event
<1>7. CASE UNCHANGED vars
  BY <1>7 DEF vars, TypeOK
<1> QED
  BY <1>1, <1>2, <1>3, <1>4, <1>5, <1>6, <1>7 DEF Next

\* Every reachable state is well typed; in particular no delivery has more
\* than MaxAttempts attempts, whichever instances claim it from whichever
\* batches (the compare-and-set of deliverLearningPush).
THEOREM TypeCorrect == Spec => []TypeOK
<1>1. Init => TypeOK
  BY InitType
<1>2. TypeOK /\ [Next]_vars => TypeOK'
  BY TypeStep
<1> QED
  BY <1>1, <1>2, PTL DEF Spec

-----------------------------------------------------------------------------
(* The daily slots *)

\* No transaction is opened, and nothing changes what the slots have done.
TxKept ==
    \A v \in Instances :
        worker'[v].pc = "tx" => worker[v].pc = "tx" /\ worker'[v].now = worker[v].now

SlotsKept ==
    /\ runs' = runs /\ skipped' = skipped /\ Len(reminders') = Len(reminders)
    /\ \A i \in Ids : reminders'[i].from = reminders[i].from /\ reminders'[i].made = reminders[i].made

LEMMA DailyFrame == ASSUME TypeOK, DailyInv, TxKept, SlotsKept PROVE DailyInv'
<1>1. Ids' = Ids
  BY DEF Ids, SlotsKept
<1>2. DailyOnce'
  BY <1>1 DEF DailyOnce, DailyInv, SlotsKept
<1> QED
  BY <1>2 DEF DailyInv, SlotsKept, TxKept

\* A worker that goes on outside of a transaction opens none.
LEMMA TxAssign ==
    ASSUME TypeOK, NEW w \in Instances, NEW x, x.pc # "tx", worker' = [worker EXCEPT ![w] = x]
    PROVE  TxKept /\ \A v \in Instances : v # w => worker'[v] = worker[v]
BY DEF TypeOK, TxKept

LEMMA DeliverTx ==
    ASSUME TypeOK, NEW w \in Instances, Deliver(w)
    PROVE  TxKept /\ worker'[w].pc = "fill" /\ \A v \in Instances : v # w => worker'[v] = worker[v]
<1>1. [Idle EXCEPT !.pc = "fill"].pc = "fill"
  BY DEF Idle
<1> QED
  BY <1>1, TxAssign DEF Deliver, TypeOK

LEMMA LoopTx == ASSUME TypeOK, NEW w \in Instances, NEW items, Loop(w, items) PROVE TxKept
<1>1. Idle.pc # "tx" /\ [Idle EXCEPT !.pc = "claim", !.batch = items].pc # "tx"
  BY DEF Idle
<1> QED
  BY <1>1, TxAssign DEF Loop

LEMMA StepTx ==
    ASSUME TypeOK, NEW w \in Instances, NEW pc \in {"select", "accepted"}, Step(w, pc)
    PROVE  TxKept
BY DEF Step, TypeOK, TxKept, WorkerLocal

LEMMA HandlerDaily == ASSUME TypeOK, DailyInv, Handlers PROVE DailyInv'
<1> USE DEF reminderVars, memberVars, Event
<1>1. ASSUME NEW from \in Peers \cup {Super}, handleCreateLearningReminder(from) PROVE DailyInv'
  <2>1. PICK at \in {clock - 1, clock} : Add(Reminder(from, time, at))
    BY <1>1 DEF handleCreateLearningReminder
  <2>2. Reminder(from, time, at) \in ReminderType
    BY ReminderShape DEF TypeOK
  <2>3. Reminder(from, time, at).from # Daily
    BY ConstantsAssumption DEF Reminder
  <2> DEFINE n == Len(reminders) + 1
  <2>4. /\ Ids' = Ids \cup {n} /\ \A i \in Ids : reminders'[i] = reminders[i]
        /\ reminders'[n].from # Daily
    BY <2>1, <2>2, <2>3, AddShape
  <2>5. UNCHANGED <<runs, skipped, worker>>
    BY <1>1 DEF handleCreateLearningReminder
  <2> HIDE DEF n
  <2>6. DailyOnce'
    BY <2>4, <2>5 DEF DailyOnce, DailyInv
  <2> QED
    BY <2>5, <2>6 DEF DailyInv
<1>2. ASSUME NEW ids, Reading(ids) PROVE DailyInv'
  <2>1. SlotsKept
    BY <1>2, ReadingShape DEF SlotsKept, SameReminder, Reading
  <2> QED
    BY <1>2, <2>1, DailyFrame DEF Reading, TxKept
<1>3. ASSUME NEW mute \in BOOLEAN, handleLearningReminderPreference(mute) PROVE DailyInv'
  <2>1. SlotsKept
    BY <1>3, PreferenceShape DEF SlotsKept, SameReminder, handleLearningReminderPreference
  <2> QED
    BY <1>3, <2>1, DailyFrame DEF handleLearningReminderPreference, TxKept
<1>4. ASSUME UNCHANGED <<reminders, runs, skipped, worker>> PROVE DailyInv'
  BY <1>4, DailyFrame DEF SlotsKept, TxKept
<1> QED
  BY <1>1, <1>2, <1>3, <1>4
  DEF Handlers, handleReadLearningReminder, handleReadAllLearningReminders,
      handleLearningPushSubscribe, handleLearningPushUnsubscribe, ChangeMember, ChangeSettings

LEMMA BeginDaily == ASSUME TypeOK, DailyInv, NEW w \in Instances, BeginSlot(w) PROVE DailyInv'
<1>1. SlotsKept
  BY DEF BeginSlot, SlotsKept, reminderVars
<1>2. CASE Deliver(w)
  BY <1>1, <1>2, DailyFrame, DeliverTx
<1>3. CASE enabled /\ Claims(w) /\ Step(w, "tx")
  <2>1. /\ worker'[w].pc = "tx" /\ worker'[w].now = worker[w].now
        /\ \A v \in Instances : v # w => worker'[v] = worker[v]
    BY <1>3 DEF TypeOK, WorkerLocal, Step
  <2>2. worker[w].now \notin runs
    BY <1>3 DEF Claims
  <2>3. \A v \in Instances : worker[v].pc # "tx" \/ worker[v].now # worker[w].now
    BY <1>3 DEF BeginSlot
  <2>4. DailyOnce' /\ runs' = runs /\ skipped' = skipped
    BY DEF BeginSlot, DailyInv, DailyOnce, Ids, reminderVars
  <2> QED
    BY <2>1, <2>2, <2>3, <2>4 DEF DailyInv
<1> QED
  BY <1>2, <1>3 DEF BeginSlot

LEMMA SlotDaily ==
    ASSUME TypeOK, DailyInv, NEW w \in Instances, enqueueGroupDevotionReminder(w) PROVE DailyInv'
<1> DEFINE s == worker[w].now
<1>1. /\ runs' = runs \cup {s} /\ s \notin runs /\ worker[w].pc = "tx"
  BY DEF enqueueGroupDevotionReminder, DailyInv
<1>2. /\ worker'[w].pc = "fill" /\ \A v \in Instances : v # w => worker'[v] = worker[v]
  BY DeliverTx DEF enqueueGroupDevotionReminder
<1>3. \A v \in Instances : worker'[v].pc = "tx" =>
          v # w /\ worker[v].pc = "tx" /\ worker'[v].now = worker[v].now /\ worker[v].now # s
  BY <1>1, <1>2 DEF DailyInv
<1>4. \A i \in Ids : reminders[i].from = Daily => reminders[i].made # s
  BY <1>1 DEF DailyInv, DailyOnce
<1>5. DailyOnce' /\ skipped' \subseteq runs'
  <2>1. CASE active /\ ~muted
    <3>1. PICK at \in {clock - 1, clock} : Add(Reminder(Daily, s, at))
      BY <2>1 DEF enqueueGroupDevotionReminder
    <3>2. Reminder(Daily, s, at) \in ReminderType
      BY WorkerFields, ReminderShape
    <3>3. Reminder(Daily, s, at).from = Daily /\ Reminder(Daily, s, at).made = s
      BY DEF Reminder
    <3> DEFINE n == Len(reminders) + 1
    <3>4. /\ Ids' = Ids \cup {n} /\ \A i \in Ids : reminders'[i] = reminders[i]
          /\ reminders'[n].from = Daily /\ reminders'[n].made = s
      BY <3>1, <3>2, <3>3, AddShape
    <3>5. skipped' = skipped
      BY <2>1 DEF enqueueGroupDevotionReminder
    <3> HIDE DEF n, s
    <3> QED
      BY <1>1, <1>4, <3>4, <3>5 DEF DailyInv, DailyOnce
  <2>2. CASE ~(active /\ ~muted)
    <3>1. skipped' = skipped \cup {s} /\ reminders' = reminders
      BY <2>2 DEF enqueueGroupDevotionReminder, reminderVars
    <3> HIDE DEF s
    <3> QED
      BY <1>1, <1>4, <3>1 DEF DailyInv, DailyOnce, Ids
  <2> QED
    BY <2>1, <2>2
<1> QED
  BY <1>1, <1>3, <1>5 DEF DailyInv

LEMMA DailyStep == TypeOK /\ DailyInv /\ [Next]_vars => DailyInv'
<1> SUFFICES ASSUME TypeOK, DailyInv, [Next]_vars PROVE DailyInv'
  OBVIOUS
<1> USE DEF reminderVars, memberVars
<1>1. CASE Handlers
  BY <1>1, HandlerDaily
<1>2. ASSUME NEW w \in Instances, BeginSlot(w) \/ enqueueGroupDevotionReminder(w) PROVE DailyInv'
  BY <1>2, BeginDaily, SlotDaily
<1>3. ASSUME NEW w \in Instances, Tick(w) PROVE DailyInv'
  <2>1. TxKept
    BY <1>3, DeliverTx DEF Tick, TypeOK, WorkerLocal, TxKept
  <2> QED
    BY <1>3, <2>1, DailyFrame DEF Tick, SlotsKept
<1>4. ASSUME NEW w \in Instances, Fill(w) \/ Select(w) \/ Send(w) \/ Finish(w) \/ SendTimesOut(w)
      PROVE  DailyInv'
  <2>1. TxKept
    BY <1>4, StepTx, LoopTx DEF Fill, Select, Send, Finish, SendTimesOut, NextItem
  <2>2. UNCHANGED <<reminders, runs, skipped>>
    BY <1>4 DEF Fill, Select, Send, Finish, SendTimesOut
  <2> QED
    BY <2>1, <2>2, DailyFrame DEF SlotsKept
<1>5. ASSUME NEW w \in Instances, Claim(w) PROVE DailyInv'
  <2>1. TxKept
    BY <1>5, LoopTx DEF Claim, TypeOK, WorkerLocal, TxKept
  <2> QED
    BY <1>5, <2>1, DailyFrame DEF Claim, SlotsKept
<1>6. ASSUME NEW w \in Instances, Fail(w) PROVE DailyInv'
  <2>1. Idle.pc # "tx"
    BY DEF Idle
  <2>2. TxKept
    BY <1>6, <2>1, DeliverTx, TxAssign DEF Fail
  <2> QED
    BY <1>6, <2>2, DailyFrame DEF Fail, SlotsKept
<1>7. ASSUME UNCHANGED <<reminders, runs, skipped, worker>> PROVE DailyInv'
  BY <1>7, DailyFrame DEF SlotsKept, TxKept
<1> QED
  BY <1>1, <1>2, <1>3, <1>4, <1>5, <1>6, <1>7
  DEF Next, WorkerStep, MinutePasses, TimePasses, vars

\* DailyOnce holds in every reachable state: a slot that is done created one
\* reminder or found the member muted or inactive, and no slot creates two,
\* for any number of instances and of kills (enqueueGroupDevotionReminder).
THEOREM DailyOnceCorrect == Spec => []DailyOnce
<1>1. Init => DailyInv
  <2>1. ASSUME Init PROVE Ids = {} /\ \A w \in Instances : worker[w].pc # "tx"
    BY <2>1 DEF Init, Ids, Idle
  <2> QED
    BY <2>1 DEF Init, DailyInv, DailyOnce
<1>2. TypeOK /\ DailyInv /\ [Next]_vars => DailyInv'
  BY DailyStep
<1>3. DailyInv => DailyOnce
  BY DEF DailyInv
<1> QED
  BY <1>1, <1>2, <1>3, TypeCorrect, PTL DEF Spec

-----------------------------------------------------------------------------
(* Which reminders the device gets *)

Others(w) == \A v \in Instances : v # w => worker'[v] = worker[v]

\* A worker that takes nothing into its batch and begins no sending.
Calm(v) ==
    /\ worker'[v].batch \subseteq worker[v].batch
    /\ Sending(v)' => worker'[v].pc = worker[v].pc /\ worker'[v].item = worker[v].item

AllCalm == \A v \in Instances : Calm(v)

RemindersKept == Ids' = Ids /\ \A i \in Ids : SameReminder(i)

\* The clock and the binding of the device after a step that keeps PresentInv.
BindingKept ==
    /\ clock <= clock' /\ sub'.since <= clock'
    /\ sub'.member => \A i \in Ids : sub'.since <= reminders[i].at => reminders[i].present

CopiesKept == \A i \in Ids : copies'[i] > 0 => copies[i] > 0 \/ reminders[i].present

LEMMA AtType == TypeOK => \A i \in Ids : reminders[i].at \in Nat
BY LenType DEF Ids, ReminderType

LEMMA Moves ==
    ASSUME TypeOK, NEW w \in Instances, NEW x, worker' = [worker EXCEPT ![w] = x]
    PROVE  worker'[w] = x /\ Others(w)
BY DEF TypeOK, Others

LEMMA DeliverMoves ==
    ASSUME TypeOK, NEW w \in Instances, Deliver(w)
    PROVE  worker'[w].pc = "fill" /\ worker'[w].batch = {} /\ Others(w)
<1>1. /\ [Idle EXCEPT !.pc = "fill"].pc = "fill"
      /\ [Idle EXCEPT !.pc = "fill"].batch = {}
  BY DEF Idle
<1> QED
  BY <1>1, Moves DEF Deliver

LEMMA LoopMoves ==
    ASSUME TypeOK, NEW w \in Instances, NEW items, Loop(w, items)
    PROVE  worker'[w].pc \in {"idle", "claim"} /\ worker'[w].batch = items /\ Others(w)
<1>1. /\ [Idle EXCEPT !.pc = "claim", !.batch = items].pc = "claim"
      /\ [Idle EXCEPT !.pc = "claim", !.batch = items].batch = items
      /\ Idle.pc = "idle" /\ Idle.batch = {}
  BY DEF Idle
<1> QED
  BY <1>1, Moves DEF Loop

LEMMA StepMoves ==
    ASSUME TypeOK, NEW w \in Instances, NEW pc, Step(w, pc)
    PROVE  /\ worker'[w].pc = pc /\ worker'[w].batch = worker[w].batch
           /\ worker'[w].item = worker[w].item /\ Others(w)
BY DEF TypeOK, WorkerLocal, Step, Others

LEMMA OneCalm ==
    ASSUME NEW w \in Instances, Others(w), Calm(w) PROVE AllCalm
BY DEF Others, Calm, AllCalm, Sending

LEMMA QuietCalm ==
    ASSUME NEW w \in Instances, Others(w), worker'[w].pc \notin {"send", "accepted"},
           worker'[w].batch \subseteq worker[w].batch
    PROVE  AllCalm
BY OneCalm DEF Calm, Sending

\* The steps of a worker that are calm.
LEMMA WorkerCalm ==
    ASSUME TypeOK, NEW w \in Instances,
           \/ Tick(w) \/ BeginSlot(w) \/ enqueueGroupDevotionReminder(w) \/ Fill(w)
           \/ Finish(w) \/ SendTimesOut(w) \/ Fail(w)
    PROVE  AllCalm /\ Others(w) /\ worker'[w].pc \notin {"send", "accepted"}
<1>1. CASE Deliver(w)
  BY <1>1, DeliverMoves, QuietCalm
<1>2. CASE worker' = [worker EXCEPT ![w].now = time, ![w].pc = "slot"]
  <2>1. Others(w) /\ worker'[w].pc = "slot" /\ worker'[w].batch = worker[w].batch
    BY <1>2 DEF TypeOK, WorkerLocal, Others
  <2> QED
    BY <2>1, QuietCalm
<1>3. CASE Step(w, "tx") \/ Step(w, "select")
  BY <1>3, StepMoves, QuietCalm
<1>4. CASE NextItem(w)
  BY <1>4, LoopMoves, QuietCalm DEF NextItem
<1>5. CASE worker' = [worker EXCEPT ![w] = Idle]
  <2>1. Idle.pc = "idle" /\ Idle.batch = {}
    BY DEF Idle
  <2> QED
    BY <1>5, <2>1, Moves, QuietCalm
<1> QED
  BY <1>1, <1>2, <1>3, <1>4, <1>5
  DEF Tick, BeginSlot, enqueueGroupDevotionReminder, Fill, Finish, SendTimesOut, Fail

LEMMA KeysFrame ==
    ASSUME TypeOK, KeysInv, AllCalm, Ids \subseteq Ids',
           DOMAIN deliveries' = DOMAIN deliveries
    PROVE  KeysInv'
BY DEF KeysInv, AllCalm, Calm, Sending, Key

LEMMA ReplayFrame ==
    ASSUME TypeOK, TypeOK', ReplayInv, RemindersKept, BindingKept, AllCalm, CopiesKept,
           DOMAIN deliveries' = DOMAIN deliveries
    PROVE  ReplayInv'
<1>1. KeysInv'
  BY KeysFrame DEF ReplayInv, RemindersKept
<1>2. /\ \A i \in Ids : reminders[i].at \in Nat
      /\ clock \in Nat /\ clock' \in Nat
  BY AtType DEF TypeOK
<1>3. \A i \in Ids : reminders'[i].at <= clock'
  BY <1>2 DEF ReplayInv, PresentInv, RemindersKept, SameReminder, BindingKept
<1>4. PresentInv'
  BY <1>3 DEF ReplayInv, PresentInv, KeysInv, RemindersKept, SameReminder, BindingKept
<1>5. NoReplay'
  BY DEF ReplayInv, NoReplay, RemindersKept, SameReminder, CopiesKept
<1> QED
  BY <1>1, <1>4, <1>5 DEF ReplayInv

\* A step that leaves reminders, binding, clock and copies alone.
LEMMA ReplaySame ==
    ASSUME TypeOK, TypeOK', ReplayInv, AllCalm, UNCHANGED <<reminders, sub, clock, copies>>,
           DOMAIN deliveries' = DOMAIN deliveries
    PROVE  ReplayInv'
<1>1. RemindersKept /\ CopiesKept
  BY DEF RemindersKept, SameReminder, CopiesKept, Ids
<1>2. BindingKept
  BY DEF BindingKept, ReplayInv, PresentInv, TypeOK
<1> QED
  BY <1>1, <1>2, ReplayFrame

LEMMA ReplayAdd ==
    ASSUME TypeOK, TypeOK', ReplayInv, AllCalm, UNCHANGED <<sub, clock, deliveries>>,
           NEW from \in Peers \cup {Super, Daily}, NEW made \in Nat,
           NEW at \in {clock - 1, clock}, Add(Reminder(from, made, at))
    PROVE  ReplayInv'
<1> DEFINE n == Len(reminders) + 1
           r == Reminder(from, made, at)
<1>1. r \in ReminderType /\ at <= clock
  BY ReminderShape
<1>2. r.at = at /\ r.present = sub.member
  BY DEF Reminder
<1>3. /\ Ids' = Ids \cup {n} /\ \A i \in Ids : reminders'[i] = reminders[i] /\ copies'[i] = copies[i]
      /\ reminders'[n] = r /\ copies'[n] = 0
  BY <1>1, AddShape
<1> HIDE DEF n, r
<1>4. KeysInv'
  BY <1>3, KeysFrame DEF ReplayInv
<1>5. PresentInv'
  BY <1>1, <1>2, <1>3 DEF ReplayInv, PresentInv, KeysInv
<1>6. NoReplay'
  BY <1>3 DEF ReplayInv, NoReplay
<1> QED
  BY <1>4, <1>5, <1>6 DEF ReplayInv

LEMMA ReplayUnbind ==
    ASSUME TypeOK, TypeOK', ReplayInv, AllCalm, UNCHANGED <<reminders, clock, copies, deliveries>>,
           sub' = NoSub
    PROVE  ReplayInv'
<1>1. RemindersKept /\ CopiesKept
  BY DEF RemindersKept, SameReminder, CopiesKept, Ids
<1>2. BindingKept
  BY DEF BindingKept, NoSub, TypeOK
<1> QED
  BY <1>1, <1>2, ReplayFrame

LEMMA SameCalm == UNCHANGED worker => AllCalm
BY DEF AllCalm, Calm, Sending

LEMMA HandlerReplay == ASSUME TypeOK, TypeOK', ReplayInv, Handlers PROVE ReplayInv'
<1> USE DEF reminderVars, memberVars, Event
<1>1. ASSUME NEW from \in Peers \cup {Super}, handleCreateLearningReminder(from) PROVE ReplayInv'
  <2>1. PICK at \in {clock - 1, clock} : Add(Reminder(from, time, at))
    BY <1>1 DEF handleCreateLearningReminder
  <2>2. UNCHANGED <<sub, clock, deliveries, worker>> /\ time \in Nat
    BY <1>1 DEF handleCreateLearningReminder, TypeOK
  <2> QED
    BY <2>1, <2>2, SameCalm, ReplayAdd
<1>2. ASSUME NEW ids, Reading(ids) PROVE ReplayInv'
  <2>1. UNCHANGED <<sub, clock, deliveries, worker, copies>>
    BY <1>2 DEF Reading
  <2>2. RemindersKept
    BY <1>2, ReadingShape DEF RemindersKept, Ids
  <2> QED
    BY <2>1, <2>2, SameCalm, ReplayFrame
    DEF BindingKept, CopiesKept, ReplayInv, PresentInv, TypeOK
<1>3. ASSUME NEW mute \in BOOLEAN, handleLearningReminderPreference(mute) PROVE ReplayInv'
  <2>1. UNCHANGED <<sub, clock, deliveries, worker, copies>>
    BY <1>3 DEF handleLearningReminderPreference
  <2>2. RemindersKept
    BY <1>3, PreferenceShape DEF RemindersKept, Ids
  <2> QED
    BY <2>1, <2>2, SameCalm, ReplayFrame
    DEF BindingKept, CopiesKept, ReplayInv, PresentInv, TypeOK
<1>4. ASSUME NEW member \in BOOLEAN, handleLearningPushSubscribe(member) PROVE ReplayInv'
  <2>1. UNCHANGED <<reminders, deliveries, worker, copies>> /\ sub' = Bound(member) /\ clock' = clock + 1
    BY <1>4 DEF handleLearningPushSubscribe
  <2>2. sub' = sub \/ sub'.since = clock + 1
    BY <2>1 DEF Bound, TypeOK, Subscription
  <2>3. /\ sub \in Subscription /\ sub.since \in Nat /\ clock \in Nat
        /\ \A i \in Ids : reminders[i].at \in Nat
    BY AtType DEF TypeOK, Subscription
  <2>4. BindingKept
    BY <2>1, <2>2, <2>3 DEF BindingKept, ReplayInv, PresentInv
  <2> QED
    BY <2>1, <2>4, SameCalm, ReplayFrame DEF RemindersKept, CopiesKept, SameReminder, Ids
<1>5. ASSUME handleLearningPushUnsubscribe PROVE ReplayInv'
  <2>1. UNCHANGED <<reminders, clock, deliveries, worker, copies>> /\ sub' = NoSub
    BY <1>5 DEF handleLearningPushUnsubscribe
  <2> QED
    BY <2>1, SameCalm, ReplayUnbind
<1>6. ASSUME ChangeMember \/ ChangeSettings PROVE ReplayInv'
  BY <1>6, SameCalm, ReplaySame DEF ChangeMember, ChangeSettings
<1> QED
  BY <1>1, <1>2, <1>3, <1>4, <1>5, <1>6
  DEF Handlers, handleReadLearningReminder, handleReadAllLearningReminders

\* A worker that starts to send, or whose message is accepted.
LEMMA KeysSend ==
    ASSUME TypeOK, KeysInv, NEW w \in Instances, Others(w), Ids' = Ids,
           DOMAIN deliveries' = DOMAIN deliveries,
           worker'[w].batch \subseteq worker[w].batch,
           \/ worker'[w].item \in worker[w].batch
           \/ Sending(w) /\ worker'[w].item = worker[w].item
    PROVE  KeysInv'
BY DEF KeysInv, Others, Sending, Key

LEMMA FillReplay ==
    ASSUME TypeOK, TypeOK', ReplayInv, NEW w \in Instances, Fill(w) PROVE ReplayInv'
<1> USE DEF reminderVars, memberVars
<1>1. /\ \A d \in DOMAIN deliveries' :
            d \in DOMAIN deliveries \/ (d[1] \in Ids /\ reminders[d[1]].present)
      /\ DOMAIN deliveries \subseteq DOMAIN deliveries'
  BY DEF Fill, ReplayInv, PresentInv
<1>2. UNCHANGED <<reminders, sub, clock, copies>> /\ Ids' = Ids /\ AllCalm
  BY WorkerCalm DEF Fill, Ids
<1>3. KeysInv'
  BY <1>1, <1>2 DEF ReplayInv, KeysInv, AllCalm, Calm, Sending, Key
<1> QED
  BY <1>1, <1>2, <1>3 DEF ReplayInv, PresentInv, NoReplay

LEMMA SelectReplay ==
    ASSUME TypeOK, TypeOK', ReplayInv, NEW w \in Instances, Select(w) PROVE ReplayInv'
<1> USE DEF reminderVars, memberVars
<1>1. UNCHANGED <<reminders, sub, clock, copies, deliveries>> /\ Ids' = Ids
  BY DEF Select, Ids
<1>2. /\ Others(w) /\ worker'[w].pc \in {"idle", "claim"} /\ worker'[w].batch \subseteq DueItems
  <2> DEFINE items == {x \in DueItems : Cardinality({y \in DueItems : y.id > x.id}) < BatchLimit}
  <2>1. Loop(w, items)
    BY DEF Select
  <2>2. items \subseteq DueItems
    OBVIOUS
  <2> HIDE DEF items
  <2> QED
    BY <2>1, <2>2, LoopMoves
<1>3. \A x \in DueItems : Key(x) \in DOMAIN deliveries
  <2> SUFFICES ASSUME NEW d \in DOMAIN deliveries PROVE <<d[1], d[2]>> = d
    BY DEF DueItems, Key
  <2> QED
    BY DEF TypeOK
<1>4. KeysInv'
  BY <1>1, <1>2, <1>3 DEF ReplayInv, KeysInv, Others, Sending, Key
<1> QED
  BY <1>1, <1>4 DEF ReplayInv, PresentInv, NoReplay

LEMMA ClaimReplay ==
    ASSUME TypeOK, TypeOK', ReplayInv, NEW w \in Instances, Claim(w) PROVE ReplayInv'
<1> USE DEF reminderVars, memberVars
<1>1. UNCHANGED <<reminders, sub, clock, copies>> /\ DOMAIN deliveries' = DOMAIN deliveries
  BY DEF Claim
<1>2. PICK x \in worker[w].batch :
          \/ worker' = [worker EXCEPT ![w].pc = "send", ![w].batch = @ \ {x}, ![w].item = x]
          \/ Loop(w, worker[w].batch \ {x})
  BY DEF Claim
<1>3. CASE Loop(w, worker[w].batch \ {x})
  BY <1>1, <1>3, LoopMoves, QuietCalm, ReplaySame
<1>4. CASE worker' = [worker EXCEPT ![w].pc = "send", ![w].batch = @ \ {x}, ![w].item = x]
  <2>1. worker'[w].batch = worker[w].batch \ {x} /\ worker'[w].item = x /\ Others(w)
    BY <1>4 DEF TypeOK, WorkerLocal, Others
  <2>2. KeysInv'
    BY <1>1, <2>1, KeysSend DEF ReplayInv, Ids
  <2> QED
    BY <1>1, <2>2 DEF ReplayInv, PresentInv, NoReplay, Ids
<1> QED
  BY <1>2, <1>3, <1>4

\* What a message that arrives does to the counts.
LEMMA Copied ==
    ASSUME TypeOK, KeysInv, NEW w \in Instances, Sending(w)
    PROVE  LET i == worker[w].item.id
           IN  /\ i \in Ids /\ Key(worker[w].item) \in DOMAIN deliveries
               /\ Key(worker[w].item)[1] = i
               /\ \A s \in {copies, unsaved} : \A j \in Ids :
                    /\ s[j] \in Nat
                    /\ [s EXCEPT ![i] = @ + 1][j] = IF j = i THEN s[j] + 1 ELSE s[j]
<1>1. Key(worker[w].item) \in DOMAIN deliveries /\ Key(worker[w].item)[1] = worker[w].item.id
  BY DEF KeysInv, Key
<1>2. worker[w].item.id \in Ids
  BY <1>1 DEF KeysInv
<1>3. \A s \in {copies, unsaved} : DOMAIN s = Ids /\ \A j \in Ids : s[j] \in Nat
  BY DEF TypeOK, Ids
<1> QED
  BY <1>1, <1>2, <1>3

LEMMA ArrivesReplay ==
    ASSUME TypeOK, TypeOK', ReplayInv, NEW w \in Instances, Sending(w), Others(w), KeysInv',
           copies' = [copies EXCEPT ![worker[w].item.id] = @ + 1],
           UNCHANGED <<reminders, sub, clock, deliveries>>
    PROVE  ReplayInv'
<1> DEFINE k == worker[w].item.id
<1>1. k \in Ids /\ Key(worker[w].item) \in DOMAIN deliveries /\ Key(worker[w].item)[1] = k
  BY Copied DEF ReplayInv
<1>2. reminders[k].present
  BY <1>1 DEF ReplayInv, PresentInv
<1>3. \A j \in Ids : j # k => copies'[j] = copies[j]
  BY Copied DEF ReplayInv
<1>4. NoReplay'
  BY <1>2, <1>3 DEF NoReplay, ReplayInv, Ids
<1> QED
  BY <1>4 DEF ReplayInv, PresentInv, Ids

LEMMA SendReplay ==
    ASSUME TypeOK, TypeOK', ReplayInv, NEW w \in Instances, Send(w) \/ SendTimesOut(w) PROVE ReplayInv'
<1> USE DEF reminderVars, memberVars
<1>1. Sending(w) /\ UNCHANGED <<reminders, clock, deliveries>>
  BY DEF Send, SendTimesOut, Sending
<1>2. CASE Step(w, "accepted") /\ copies' = [copies EXCEPT ![worker[w].item.id] = @ + 1] /\ sub' = sub
  <2>1. Others(w) /\ worker'[w].batch = worker[w].batch /\ worker'[w].item = worker[w].item
    BY <1>2, StepMoves
  <2>2. KeysInv'
    BY <1>1, <2>1, KeysSend DEF ReplayInv, Ids
  <2> QED
    BY <1>1, <1>2, <2>1, <2>2, ArrivesReplay
<1>3. CASE NextItem(w) /\ UNCHANGED <<copies, sub>>
  BY <1>1, <1>3, LoopMoves, QuietCalm, ReplaySame DEF NextItem
<1>4. CASE NextItem(w) /\ copies' = copies /\ sub' = NoSub
  BY <1>1, <1>4, LoopMoves, QuietCalm, ReplayUnbind DEF NextItem
<1>5. CASE SendTimesOut(w)
  <2>1. AllCalm /\ Others(w)
    BY <1>5, WorkerCalm
  <2>2. KeysInv'
    BY <1>1, <2>1, KeysFrame DEF ReplayInv, Ids
  <2> QED
    BY <1>1, <1>5, <2>1, <2>2, ArrivesReplay DEF SendTimesOut
<1> QED
  BY <1>2, <1>3, <1>4, <1>5 DEF Send

LEMMA ReplayStep == TypeOK /\ TypeOK' /\ ReplayInv /\ [Next]_vars => ReplayInv'
<1> SUFFICES ASSUME TypeOK, TypeOK', ReplayInv, [Next]_vars PROVE ReplayInv'
  OBVIOUS
<1> USE DEF reminderVars, memberVars
<1>1. CASE Handlers
  BY <1>1, HandlerReplay
<1>2. ASSUME NEW w \in Instances, Tick(w) \/ BeginSlot(w) \/ Finish(w) \/ Fail(w) PROVE ReplayInv'
  <2>1. AllCalm
    BY <1>2, WorkerCalm
  <2>2. UNCHANGED <<reminders, sub, clock, copies>> /\ DOMAIN deliveries' = DOMAIN deliveries
    BY <1>2 DEF Tick, BeginSlot, Finish, Fail
  <2> QED
    BY <2>1, <2>2, ReplaySame
<1>3. ASSUME NEW w \in Instances, enqueueGroupDevotionReminder(w) PROVE ReplayInv'
  <2>1. AllCalm /\ worker[w].now \in Nat
    BY <1>3, WorkerCalm, WorkerFields
  <2>2. UNCHANGED <<sub, clock, deliveries>>
    BY <1>3 DEF enqueueGroupDevotionReminder
  <2>3. CASE active /\ ~muted
    <3>1. PICK at \in {clock - 1, clock} : Add(Reminder(Daily, worker[w].now, at))
      BY <1>3, <2>3 DEF enqueueGroupDevotionReminder
    <3> QED
      BY <2>1, <2>2, <3>1, ReplayAdd
  <2>4. CASE ~(active /\ ~muted)
    BY <1>3, <2>1, <2>2, <2>4, ReplaySame DEF enqueueGroupDevotionReminder
  <2> QED
    BY <2>3, <2>4
<1>4. ASSUME NEW w \in Instances,
             Fill(w) \/ Select(w) \/ Claim(w) \/ Send(w) \/ SendTimesOut(w)
      PROVE  ReplayInv'
  BY <1>4, FillReplay, SelectReplay, ClaimReplay, SendReplay
<1>5. ASSUME NEW e \in DOMAIN deliveries, MinutePasses(e) PROVE ReplayInv'
  <2>1. UNCHANGED <<reminders, sub, clock, copies, worker>> /\ DOMAIN deliveries' = DOMAIN deliveries
    BY <1>5 DEF MinutePasses
  <2> QED
    BY <2>1, SameCalm, ReplaySame
<1>6. ASSUME UNCHANGED <<reminders, sub, clock, copies, worker, deliveries>> PROVE ReplayInv'
  BY <1>6, SameCalm, ReplaySame
<1> QED
  BY <1>1, <1>2, <1>3, <1>4, <1>5, <1>6 DEF Next, WorkerStep, TimePasses, vars

LEMMA ReplayAlways == Spec => []ReplayInv
<1>1. Init => ReplayInv
  <2>1. ASSUME Init
        PROVE  /\ Ids = {} /\ DOMAIN deliveries = {} /\ sub.since <= clock
               /\ \A w \in Instances : worker[w].batch = {} /\ ~Sending(w)
    BY <2>1 DEF Init, Ids, Idle, Sending, NoSub
  <2> QED
    BY <2>1 DEF ReplayInv, KeysInv, PresentInv, NoReplay
<1>2. TypeOK /\ TypeOK' /\ ReplayInv /\ [Next]_vars => ReplayInv'
  BY ReplayStep
<1> QED
  BY <1>1, <1>2, TypeCorrect, PTL DEF Spec

\* A device gets only reminders that were sent while it was bound to the
\* member: neither enrolling it, moving it between two accounts, nor retries
\* that began under an earlier binding replay an old one (learning_push.go).
THEOREM NoReplayCorrect == Spec => []NoReplay
<1>1. ReplayInv => NoReplay
  BY DEF ReplayInv
<1> QED
  BY <1>1, ReplayAlways, PTL

-----------------------------------------------------------------------------
(* How often the device gets a reminder *)

SendingKept ==
    \A v \in Instances : Sending(v)' => Sending(v) /\ worker'[v].item = worker[v].item

AcceptedKept ==
    \A v \in Instances :
        worker[v].pc = "accepted" => worker'[v].pc = "accepted" /\ worker'[v].item = worker[v].item

LEMMA CalmSending == AllCalm => SendingKept
BY DEF AllCalm, Calm, SendingKept, Sending

LEMMA OthersAccepted ==
    ASSUME NEW w \in Instances, Others(w), worker[w].pc # "accepted" PROVE AcceptedKept
BY DEF Others, AcceptedKept

LEMMA SenderFrame ==
    ASSUME TypeOK, KeysInv, SenderInv, SendingKept,
           \A d \in DOMAIN deliveries : deliveries'[d] = deliveries[d]
    PROVE  SenderInv'
<1>1. OneSender'
  BY DEF SenderInv, OneSender, SendingKept, Key
<1>2. ASSUME NEW w \in Instances, Sending(w)'
      PROVE  LET d == deliveries'[Key(worker'[w].item)] IN ~d.due /\ ~d.finished
  <2>1. Sending(w) /\ worker'[w].item = worker[w].item
    BY <1>2 DEF SendingKept
  <2>2. Key(worker[w].item) \in DOMAIN deliveries
    BY <2>1 DEF KeysInv
  <2> QED
    BY <2>1, <2>2 DEF SenderInv, Key
<1> QED
  BY <1>1, <1>2 DEF SenderInv, Key

LEMMA RowFrame ==
    ASSUME TypeOK, KeysInv, RowInv, DOMAIN deliveries' = DOMAIN deliveries,
           sub' \in {sub, NoSub}, \A i \in Ids : reminders'[i].at = reminders[i].at
    PROVE  RowInv'
<1>1. ~NoSub.member
  BY DEF NoSub
<1> QED
  BY <1>1 DEF RowInv, KeysInv

LEMMA CountFrame ==
    ASSUME TypeOK, CountInv, AcceptedKept,
           \A d \in DOMAIN deliveries : /\ d \in DOMAIN deliveries'
                                        /\ deliveries[d].finished => deliveries'[d].finished,
           \A i \in Ids' : /\ copies'[i] <= unsaved'[i] + 1
                           /\ copies'[i] > unsaved'[i] => i \in Ids /\ copies[i] > unsaved[i]
    PROVE  CountInv'
<1>1. CopiesExplained'
  BY DEF CopiesExplained
<1>2. ASSUME NEW i \in Ids', copies'[i] > unsaved'[i]
      PROVE  \/ \E d \in DOMAIN deliveries' : d[1] = i /\ deliveries'[d].finished
             \/ \E w \in Instances : worker'[w].pc = "accepted" /\ worker'[w].item.id = i
  <2>1. i \in Ids /\ copies[i] > unsaved[i]
    BY <1>2
  <2>2. CASE \E d \in DOMAIN deliveries : d[1] = i /\ deliveries[d].finished
    BY <2>2
  <2>3. CASE \E w \in Instances : worker[w].pc = "accepted" /\ worker[w].item.id = i
    BY <2>3 DEF AcceptedKept
  <2> QED
    BY <2>1, <2>2, <2>3 DEF CountInv
<1> QED
  BY <1>1, <1>2 DEF CountInv

\* A step that leaves the deliveries and the counts alone.
LEMMA OnceSame ==
    ASSUME TypeOK, KeysInv, OnceInv, SendingKept, AcceptedKept, sub' \in {sub, NoSub},
           UNCHANGED <<deliveries, copies, unsaved>>,
           Ids' = Ids, \A i \in Ids : reminders'[i].at = reminders[i].at
    PROVE  OnceInv'
<1>1. SenderInv'
  BY SenderFrame DEF OnceInv
<1>2. RowInv'
  BY RowFrame DEF OnceInv
<1>3. CountInv'
  BY CountFrame DEF OnceInv, CountInv, CopiesExplained
<1> QED
  BY <1>1, <1>2, <1>3 DEF OnceInv

LEMMA OnceAdd ==
    ASSUME TypeOK, KeysInv, OnceInv, SendingKept, AcceptedKept, UNCHANGED <<sub, deliveries>>,
           NEW r \in ReminderType, Add(r)
    PROVE  OnceInv'
<1> DEFINE n == Len(reminders) + 1
<1>1. /\ Ids' = Ids \cup {n} /\ copies'[n] = 0 /\ unsaved'[n] = 0
      /\ \A i \in Ids : /\ reminders'[i] = reminders[i] /\ copies'[i] = copies[i]
                        /\ unsaved'[i] = unsaved[i]
  BY AddShape
<1> HIDE DEF n
<1>2. SenderInv'
  BY SenderFrame DEF OnceInv
<1>3. RowInv'
  BY <1>1, RowFrame DEF OnceInv
<1>4. \A i \in Ids' : /\ copies'[i] <= unsaved'[i] + 1
                      /\ copies'[i] > unsaved'[i] => i \in Ids /\ copies[i] > unsaved[i]
  BY <1>1 DEF OnceInv, CountInv, CopiesExplained
<1>5. CountInv'
  BY <1>4, CountFrame DEF OnceInv
<1> QED
  BY <1>2, <1>3, <1>5 DEF OnceInv

LEMMA SameWorkers == UNCHANGED worker => SendingKept /\ AcceptedKept
BY DEF SendingKept, AcceptedKept, Sending

LEMMA SubscribeOnce ==
    ASSUME TypeOK, ReplayInv, OnceInv, NEW member \in BOOLEAN, handleLearningPushSubscribe(member)
    PROVE  OnceInv'
<1>1. /\ UNCHANGED <<reminders, deliveries, worker, copies, unsaved>>
      /\ sub' = Bound(member) /\ clock' = clock + 1
  BY DEF handleLearningPushSubscribe, reminderVars, memberVars
<1>2. CASE sub' = sub
  BY <1>1, <1>2, OnceSame, SameWorkers DEF ReplayInv, Ids
<1>3. CASE sub' # sub
  <2>1. sub'.since = clock + 1
    BY <1>1, <1>3 DEF Bound, TypeOK, Subscription
  <2>2. \A d \in DOMAIN deliveries : sub'.since > reminders[d[1]].at
    <3> TAKE d \in DOMAIN deliveries
    <3>1. d[1] \in Ids
      BY DEF ReplayInv, KeysInv
    <3>2. reminders[d[1]].at <= clock /\ reminders[d[1]].at \in Nat /\ clock \in Nat
      BY <3>1, AtType DEF ReplayInv, PresentInv, TypeOK
    <3> QED
      BY <2>1, <3>2
  <2>3. RowInv'
    BY <1>1, <2>2 DEF OnceInv, RowInv
  <2>4. SenderInv'
    BY <1>1, SenderFrame, SameWorkers DEF OnceInv, ReplayInv
  <2>5. CountInv'
    BY <1>1 DEF OnceInv, CountInv, CopiesExplained, Ids
  <2> QED
    BY <2>3, <2>4, <2>5 DEF OnceInv
<1> QED
  BY <1>2, <1>3

LEMMA HandlerOnce == ASSUME TypeOK, ReplayInv, OnceInv, Handlers PROVE OnceInv'
<1> USE DEF reminderVars, memberVars, Event
<1> KeysInv
  BY DEF ReplayInv
<1>1. ASSUME NEW from \in Peers \cup {Super}, handleCreateLearningReminder(from) PROVE OnceInv'
  <2>1. PICK at \in {clock - 1, clock} : Add(Reminder(from, time, at))
    BY <1>1 DEF handleCreateLearningReminder
  <2>2. Reminder(from, time, at) \in ReminderType
    BY ReminderShape DEF TypeOK
  <2>3. UNCHANGED <<sub, deliveries, worker>>
    BY <1>1 DEF handleCreateLearningReminder
  <2> QED
    BY <2>1, <2>2, <2>3, OnceAdd, SameWorkers
<1>2. ASSUME NEW ids, Reading(ids) PROVE OnceInv'
  <2>1. UNCHANGED <<sub, deliveries, worker, copies, unsaved>>
    BY <1>2 DEF Reading
  <2>2. Ids' = Ids /\ \A i \in Ids : reminders'[i].at = reminders[i].at
    BY <1>2, ReadingShape DEF SameReminder, Ids
  <2> QED
    BY <2>1, <2>2, OnceSame, SameWorkers
<1>3. ASSUME NEW mute \in BOOLEAN, handleLearningReminderPreference(mute) PROVE OnceInv'
  <2>1. UNCHANGED <<sub, deliveries, worker, copies, unsaved>>
    BY <1>3 DEF handleLearningReminderPreference
  <2>2. Ids' = Ids /\ \A i \in Ids : reminders'[i].at = reminders[i].at
    BY <1>3, PreferenceShape DEF SameReminder, Ids
  <2> QED
    BY <2>1, <2>2, OnceSame, SameWorkers
<1>4. ASSUME NEW member \in BOOLEAN, handleLearningPushSubscribe(member) PROVE OnceInv'
  BY <1>4, SubscribeOnce
<1>5. ASSUME handleLearningPushUnsubscribe \/ ChangeMember \/ ChangeSettings PROVE OnceInv'
  <2>1. /\ UNCHANGED <<reminders, deliveries, worker, copies, unsaved>>
        /\ sub' \in {sub, NoSub}
    BY <1>5 DEF handleLearningPushUnsubscribe, ChangeMember, ChangeSettings
  <2> QED
    BY <2>1, OnceSame, SameWorkers DEF Ids
<1> QED
  BY <1>1, <1>2, <1>3, <1>4, <1>5
  DEF Handlers, handleReadLearningReminder, handleReadAllLearningReminders

LEMMA FillOnce == ASSUME TypeOK, ReplayInv, OnceInv, NEW w \in Instances, Fill(w) PROVE OnceInv'
<1> USE DEF reminderVars, memberVars
<1> KeysInv
  BY DEF ReplayInv
<1>1. /\ SendingKept /\ AcceptedKept /\ Ids' = Ids
      /\ UNCHANGED <<reminders, sub, copies, unsaved>>
  BY WorkerCalm, CalmSending, OthersAccepted DEF Fill, Ids
<1>2. /\ \A d \in DOMAIN deliveries : d \in DOMAIN deliveries' /\ deliveries'[d] = deliveries[d]
      /\ \A d \in DOMAIN deliveries' : d \notin DOMAIN deliveries =>
            d[2] = sub.id /\ sub.member /\ d[1] \in Ids /\ sub.since <= reminders[d[1]].at
  BY DEF Fill
<1>3. SenderInv'
  BY <1>1, <1>2, SenderFrame DEF OnceInv
<1>4. CountInv'
  BY <1>1, <1>2, CountFrame DEF OnceInv, CountInv, CopiesExplained
<1>5. RowInv'
  <2>1. ASSUME NEW d \in DOMAIN deliveries', sub.member, sub.id # d[2]
        PROVE  d \in DOMAIN deliveries /\ sub.since > reminders[d[1]].at
    BY <1>2, <2>1 DEF OnceInv, RowInv
  <2>2. ASSUME NEW d \in DOMAIN deliveries', NEW e \in DOMAIN deliveries',
               d[1] = e[1], d \notin DOMAIN deliveries
        PROVE  d[2] = e[2]
    <3>1. sub.since \in Nat /\ reminders[d[1]].at \in Nat
      BY <1>2, <2>2, AtType DEF TypeOK, Subscription
    <3> QED
      BY <1>2, <2>1, <2>2, <3>1
  <2>3. ASSUME NEW d \in DOMAIN deliveries', NEW e \in DOMAIN deliveries', d[1] = e[1]
        PROVE  d[2] = e[2]
    BY <2>2, <2>3 DEF OnceInv, RowInv
  <2> QED
    BY <1>1, <2>1, <2>3 DEF RowInv
<1> QED
  BY <1>3, <1>4, <1>5 DEF OnceInv

LEMMA SelectOnce == ASSUME TypeOK, ReplayInv, OnceInv, NEW w \in Instances, Select(w) PROVE OnceInv'
<1>1. UNCHANGED <<reminders, sub, deliveries, copies, unsaved>> /\ worker[w].pc = "select" /\ Ids' = Ids
  BY DEF Select, Ids, reminderVars
<1>2. Others(w) /\ worker'[w].pc \in {"idle", "claim"}
  BY LoopMoves DEF Select
<1>3. SendingKept /\ AcceptedKept
  BY <1>1, <1>2, OthersAccepted DEF SendingKept, Sending, Others
<1> QED
  BY <1>1, <1>3, OnceSame DEF ReplayInv

LEMMA ClaimOnce == ASSUME TypeOK, ReplayInv, OnceInv, NEW w \in Instances, Claim(w) PROVE OnceInv'
<1> USE DEF reminderVars, memberVars
<1>1. UNCHANGED <<reminders, sub, copies, unsaved>> /\ worker[w].pc = "claim" /\ Ids' = Ids
  BY DEF Claim, Ids
<1>2. PICK x \in worker[w].batch :
          \/ /\ Claimable(x)
             /\ worker' = [worker EXCEPT ![w].pc = "send", ![w].batch = @ \ {x}, ![w].item = x]
             /\ deliveries' = [deliveries EXCEPT ![Key(x)] = Claimed(@)]
          \/ Loop(w, worker[w].batch \ {x}) /\ UNCHANGED deliveries
  BY DEF Claim
<1>3. CASE Loop(w, worker[w].batch \ {x}) /\ UNCHANGED deliveries
  <2>1. Others(w) /\ worker'[w].pc \in {"idle", "claim"}
    BY <1>3, LoopMoves
  <2>2. SendingKept /\ AcceptedKept
    BY <1>1, <2>1, OthersAccepted DEF SendingKept, Sending, Others
  <2> QED
    BY <1>1, <1>3, <2>2, OnceSame DEF ReplayInv
<1>4. CASE /\ Claimable(x)
           /\ worker' = [worker EXCEPT ![w].pc = "send", ![w].batch = @ \ {x}, ![w].item = x]
           /\ deliveries' = [deliveries EXCEPT ![Key(x)] = Claimed(@)]
  <2>1. worker'[w].pc = "send" /\ worker'[w].item = x /\ Others(w)
    BY <1>4 DEF TypeOK, WorkerLocal, Others
  <2>2. Key(x) \in DOMAIN deliveries
    BY DEF ReplayInv, KeysInv
  <2>3. deliveries[Key(x)].due /\ ~deliveries[Key(x)].finished
    BY <1>4 DEF Claimable
  <2>4. ~Claimed(deliveries[Key(x)]).due /\ ~Claimed(deliveries[Key(x)]).finished
    <3>1. deliveries[Key(x)] \in Delivery
      BY <2>2 DEF TypeOK
    <3> QED
      BY <2>3, <3>1 DEF Claimed, Delivery
  <2>5. /\ DOMAIN deliveries' = DOMAIN deliveries
        /\ deliveries'[Key(x)] = Claimed(deliveries[Key(x)])
        /\ \A d \in DOMAIN deliveries : d # Key(x) => deliveries'[d] = deliveries[d]
    BY <1>4, <2>2
  <2>6. ASSUME NEW v \in Instances, v # w, Sending(v)'
        PROVE  /\ Sending(v) /\ worker'[v] = worker[v]
               /\ Key(worker[v].item) \in DOMAIN deliveries /\ Key(worker[v].item) # Key(x)
    <3>1. Sending(v) /\ worker'[v] = worker[v]
      BY <2>1, <2>6 DEF Others, Sending
    <3> QED
      BY <2>3, <3>1 DEF OnceInv, SenderInv, ReplayInv, KeysInv
  <2>7. OneSender'
    BY <2>1, <2>6 DEF OnceInv, SenderInv, OneSender, Key
  <2>8. ASSUME NEW v \in Instances, Sending(v)'
        PROVE  LET d == deliveries'[Key(worker'[v].item)] IN ~d.due /\ ~d.finished
    BY <2>1, <2>4, <2>5, <2>6, <2>8 DEF OnceInv, SenderInv
  <2>9. SenderInv'
    BY <2>7, <2>8 DEF SenderInv, Key
  <2>10. RowInv'
    BY <1>1, <2>5, RowFrame DEF OnceInv, ReplayInv
  <2>11. CountInv'
    BY <1>1, <2>1, <2>3, <2>5, CountFrame, OthersAccepted DEF OnceInv, CountInv, CopiesExplained
  <2> QED
    BY <2>9, <2>10, <2>11 DEF OnceInv
<1> QED
  BY <1>2, <1>3, <1>4

\* A message that is about to arrive finds no copy that is not accounted for.
LEMMA FirstCopy ==
    ASSUME TypeOK, ReplayInv, OnceInv, NEW w \in Instances, worker[w].pc = "send"
    PROVE  ~(copies[worker[w].item.id] > unsaved[worker[w].item.id])
<1> DEFINE k == worker[w].item.id
<1>1. /\ Sending(w) /\ Key(worker[w].item) \in DOMAIN deliveries /\ k \in Ids
      /\ Key(worker[w].item)[1] = k
  BY Copied DEF Sending, ReplayInv
<1>2. ASSUME NEW d \in DOMAIN deliveries, d[1] = k PROVE d = Key(worker[w].item)
  <2>1. d[2] = Key(worker[w].item)[2]
    BY <1>1, <1>2 DEF OnceInv, RowInv
  <2>2. d = <<d[1], d[2]>>
    BY DEF TypeOK
  <2> QED
    BY <1>1, <1>2, <2>1, <2>2 DEF Key
<1>3. ~\E d \in DOMAIN deliveries : d[1] = k /\ deliveries[d].finished
  BY <1>1, <1>2 DEF OnceInv, SenderInv
<1>4. ~\E v \in Instances : worker[v].pc = "accepted" /\ worker[v].item.id = k
  <2> SUFFICES ASSUME NEW v \in Instances, worker[v].pc = "accepted", worker[v].item.id = k
               PROVE  FALSE
    OBVIOUS
  <2>1. /\ v # w /\ Sending(v) /\ Key(worker[v].item) \in DOMAIN deliveries
        /\ Key(worker[v].item)[1] = k
    BY Copied DEF Sending, ReplayInv
  <2> QED
    BY <1>1, <1>2, <2>1 DEF OnceInv, SenderInv, OneSender
<1> QED
  BY <1>1, <1>3, <1>4 DEF OnceInv, CountInv

LEMMA SendOnce ==
    ASSUME TypeOK, ReplayInv, OnceInv, NEW w \in Instances, Send(w) PROVE OnceInv'
<1> USE DEF reminderVars, memberVars
<1> KeysInv
  BY DEF ReplayInv
<1> DEFINE k == worker[w].item.id
<1>1. /\ Sending(w) /\ worker[w].pc = "send" /\ UNCHANGED <<reminders, deliveries, unsaved>>
      /\ Ids' = Ids
  BY DEF Send, Sending, Ids
<1>2. CASE Step(w, "accepted") /\ copies' = [copies EXCEPT ![k] = @ + 1] /\ sub' = sub
  <2>1. Others(w) /\ worker'[w].item = worker[w].item /\ worker'[w].pc = "accepted"
    BY <1>2, StepMoves
  <2>2. SendingKept /\ AcceptedKept
    BY <1>1, <2>1, OthersAccepted DEF SendingKept, Sending, Others
  <2>3. SenderInv' /\ RowInv'
    BY <1>1, <1>2, <2>2, SenderFrame, RowFrame DEF OnceInv
  <2>4. \A j \in Ids : /\ copies[j] \in Nat /\ unsaved[j] \in Nat
                       /\ copies'[j] = IF j = k THEN copies[j] + 1 ELSE copies[j]
    BY <1>1, <1>2, Copied
  <2>5. k \in Ids /\ ~(copies[k] > unsaved[k])
    BY <1>1, FirstCopy, Copied
  <2>6. CopiesExplained'
    BY <1>1, <2>4, <2>5 DEF OnceInv, CountInv, CopiesExplained
  <2>7. ASSUME NEW i \in Ids, copies'[i] > unsaved'[i]
        PROVE  \/ \E d \in DOMAIN deliveries' : d[1] = i /\ deliveries'[d].finished
               \/ \E v \in Instances : worker'[v].pc = "accepted" /\ worker'[v].item.id = i
    <3>1. CASE i = k
      BY <2>1, <3>1
    <3>2. CASE i # k
      <4>1. copies[i] > unsaved[i]
        BY <1>1, <2>4, <2>7, <3>2
      <4> QED
        BY <1>1, <2>2, <4>1 DEF OnceInv, CountInv, AcceptedKept
    <3> QED
      BY <3>1, <3>2
  <2>8. CountInv'
    BY <1>1, <2>6, <2>7 DEF CountInv
  <2> QED
    BY <2>3, <2>8 DEF OnceInv
<1>3. CASE NextItem(w) /\ copies' = copies /\ sub' \in {sub, NoSub}
  <2>1. Others(w) /\ worker'[w].pc \in {"idle", "claim"}
    BY <1>3, LoopMoves DEF NextItem
  <2>2. SendingKept /\ AcceptedKept
    BY <1>1, <2>1, OthersAccepted DEF SendingKept, Sending, Others
  <2> QED
    BY <1>1, <1>3, <2>2, OnceSame
<1> QED
  BY <1>2, <1>3 DEF Send

LEMMA TimeoutOnce ==
    ASSUME TypeOK, ReplayInv, OnceInv, NEW w \in Instances, SendTimesOut(w) PROVE OnceInv'
<1> USE DEF reminderVars, memberVars
<1> KeysInv
  BY DEF ReplayInv
<1> DEFINE k == worker[w].item.id
<1>1. /\ Sending(w) /\ worker[w].pc = "send" /\ UNCHANGED <<reminders, deliveries, sub>> /\ Ids' = Ids
      /\ copies' = [copies EXCEPT ![k] = @ + 1] /\ unsaved' = [unsaved EXCEPT ![k] = @ + 1]
  BY DEF SendTimesOut, Sending, Ids
<1>2. SendingKept /\ AcceptedKept
  BY <1>1, WorkerCalm, CalmSending, OthersAccepted
<1>3. SenderInv' /\ RowInv'
  BY <1>1, <1>2, SenderFrame, RowFrame DEF OnceInv
<1>4. \A j \in Ids : /\ copies[j] \in Nat /\ unsaved[j] \in Nat
                     /\ copies'[j] = IF j = k THEN copies[j] + 1 ELSE copies[j]
                     /\ unsaved'[j] = IF j = k THEN unsaved[j] + 1 ELSE unsaved[j]
  BY <1>1, Copied
<1>5. \A j \in Ids : copies[j] <= unsaved[j] + 1
  BY DEF OnceInv, CountInv, CopiesExplained
<1>6. \A j \in Ids : /\ copies'[j] <= unsaved'[j] + 1
                     /\ copies'[j] > unsaved'[j] => copies[j] > unsaved[j]
  BY <1>4, <1>5
<1>7. CountInv'
  BY <1>1, <1>2, <1>6, CountFrame DEF OnceInv
<1> QED
  BY <1>3, <1>7 DEF OnceInv

LEMMA FinishOnce ==
    ASSUME TypeOK, ReplayInv, OnceInv, NEW w \in Instances, Finish(w) PROVE OnceInv'
<1> USE DEF reminderVars, memberVars
<1> KeysInv
  BY DEF ReplayInv
<1> DEFINE key == Key(worker[w].item)
<1>1. /\ Sending(w) /\ UNCHANGED <<reminders, copies, unsaved, sub>> /\ Ids' = Ids
      /\ key \in DOMAIN deliveries /\ key[1] = worker[w].item.id
  BY Copied DEF Finish, Sending, Ids
<1>2. SendingKept /\ Others(w) /\ ~Sending(w)'
  BY WorkerCalm, CalmSending DEF Sending
<1>3. /\ DOMAIN deliveries' = DOMAIN deliveries /\ deliveries'[key].finished
      /\ \A d \in DOMAIN deliveries : d # key => deliveries'[d] = deliveries[d]
  <2>1. deliveries[key] \in Delivery
    BY <1>1 DEF TypeOK
  <2> QED
    BY <1>1, <2>1 DEF Finish, Delivery
<1>4. OneSender'
  BY <1>2 DEF OnceInv, SenderInv, OneSender, SendingKept, Key
<1>5. ASSUME NEW v \in Instances, Sending(v)'
      PROVE  LET d == deliveries'[Key(worker'[v].item)] IN ~d.due /\ ~d.finished
  <2>1. v # w /\ Sending(v) /\ worker'[v].item = worker[v].item
    BY <1>2, <1>5 DEF SendingKept
  <2>2. Key(worker[v].item) # key /\ Key(worker[v].item) \in DOMAIN deliveries
    BY <1>1, <2>1 DEF OnceInv, SenderInv, OneSender, KeysInv
  <2> QED
    BY <1>3, <2>1, <2>2 DEF OnceInv, SenderInv
<1>6. SenderInv'
  BY <1>4, <1>5 DEF SenderInv, Key
<1>7. RowInv'
  BY <1>1, <1>3, RowFrame DEF OnceInv
<1>8. ASSUME NEW i \in Ids, copies[i] > unsaved[i]
      PROVE  \/ \E d \in DOMAIN deliveries' : d[1] = i /\ deliveries'[d].finished
             \/ \E v \in Instances : worker'[v].pc = "accepted" /\ worker'[v].item.id = i
  <2>1. CASE \E d \in DOMAIN deliveries : d[1] = i /\ deliveries[d].finished
    BY <1>3, <2>1
  <2>2. CASE i = worker[w].item.id
    BY <1>1, <1>3, <2>2
  <2>3. CASE \E v \in Instances : v # w /\ worker[v].pc = "accepted" /\ worker[v].item.id = i
    BY <1>2, <2>3 DEF Others
  <2> QED
    BY <1>8, <2>1, <2>2, <2>3 DEF OnceInv, CountInv
<1>9. CountInv'
  BY <1>1, <1>8 DEF OnceInv, CountInv, CopiesExplained
<1> QED
  BY <1>6, <1>7, <1>9 DEF OnceInv

LEMMA FailOnce ==
    ASSUME TypeOK, ReplayInv, OnceInv, NEW w \in Instances, Fail(w) PROVE OnceInv'
<1> USE DEF reminderVars, memberVars
<1> KeysInv
  BY DEF ReplayInv
<1> DEFINE k == worker[w].item.id
<1>1. UNCHANGED <<reminders, copies, deliveries, sub>> /\ Ids' = Ids
  BY DEF Fail, Ids
<1>2. SendingKept /\ Others(w)
  BY WorkerCalm, CalmSending
<1>3. CASE worker[w].pc # "accepted"
  <2>1. unsaved' = unsaved
    BY <1>3 DEF Fail, Unsaved
  <2> QED
    BY <1>1, <1>2, <1>3, <2>1, OnceSame, OthersAccepted
<1>4. CASE worker[w].pc = "accepted"
  <2>1. SenderInv' /\ RowInv'
    BY <1>1, <1>2, SenderFrame, RowFrame DEF OnceInv
  <2>2. unsaved' = [unsaved EXCEPT ![k] = @ + 1] /\ Sending(w)
    BY <1>4 DEF Fail, Unsaved, Sending
  <2>3. \A j \in Ids : /\ copies[j] \in Nat /\ unsaved[j] \in Nat
                       /\ unsaved'[j] = IF j = k THEN unsaved[j] + 1 ELSE unsaved[j]
    BY <2>2, Copied
  <2>4. \A j \in Ids : copies[j] <= unsaved[j] + 1
    BY DEF OnceInv, CountInv, CopiesExplained
  <2>5. \A j \in Ids : /\ copies[j] <= unsaved'[j] + 1
                       /\ copies[j] > unsaved'[j] => j # k /\ copies[j] > unsaved[j]
    BY <2>3, <2>4
  <2>6. ASSUME NEW i \in Ids, copies[i] > unsaved'[i]
        PROVE  \/ \E d \in DOMAIN deliveries : d[1] = i /\ deliveries[d].finished
               \/ \E v \in Instances : worker'[v].pc = "accepted" /\ worker'[v].item.id = i
    <3>1. i # k /\ copies[i] > unsaved[i]
      BY <2>5, <2>6
    <3> QED
      BY <1>2, <3>1 DEF OnceInv, CountInv, Others
  <2>7. CountInv'
    BY <1>1, <2>5, <2>6 DEF CountInv, CopiesExplained
  <2> QED
    BY <2>1, <2>7 DEF OnceInv
<1> QED
  BY <1>3, <1>4

LEMMA MinuteOnce ==
    ASSUME TypeOK, ReplayInv, OnceInv, NEW e \in DOMAIN deliveries, MinutePasses(e) PROVE OnceInv'
<1> USE DEF reminderVars, memberVars
<1> KeysInv
  BY DEF ReplayInv
<1>1. UNCHANGED <<reminders, copies, unsaved, sub, worker>> /\ Ids' = Ids
  BY DEF MinutePasses, Ids
<1>2. /\ DOMAIN deliveries' = DOMAIN deliveries
      /\ deliveries'[e].finished = deliveries[e].finished
      /\ \A d \in DOMAIN deliveries : d # e => deliveries'[d] = deliveries[d]
  <2>1. deliveries[e] \in Delivery
    BY DEF TypeOK
  <2> QED
    BY <2>1 DEF MinutePasses, Delivery
<1>3. ASSUME NEW v \in Instances, Sending(v)
      PROVE  LET d == deliveries'[Key(worker[v].item)] IN ~d.due /\ ~d.finished
  <2>1. Key(worker[v].item) # e /\ Key(worker[v].item) \in DOMAIN deliveries
    BY <1>3 DEF MinutePasses, KeysInv
  <2> QED
    BY <1>2, <1>3, <2>1 DEF OnceInv, SenderInv
<1>4. SenderInv'
  BY <1>1, <1>3 DEF OnceInv, SenderInv, OneSender, Sending, Key
<1>5. RowInv'
  BY <1>1, <1>2, RowFrame DEF OnceInv
<1>6. CountInv'
  BY <1>1, <1>2, CountFrame, SameWorkers DEF OnceInv, CountInv, CopiesExplained
<1> QED
  BY <1>4, <1>5, <1>6 DEF OnceInv

LEMMA OnceStep == TypeOK /\ ReplayInv /\ OnceInv /\ [Next]_vars => OnceInv'
<1> SUFFICES ASSUME TypeOK, ReplayInv, OnceInv, [Next]_vars PROVE OnceInv'
  OBVIOUS
<1> USE DEF reminderVars, memberVars
<1> KeysInv
  BY DEF ReplayInv
<1>1. CASE Handlers
  BY <1>1, HandlerOnce
<1>2. ASSUME NEW w \in Instances, Tick(w) \/ BeginSlot(w) PROVE OnceInv'
  <2>1. UNCHANGED <<reminders, sub, deliveries, copies, unsaved>> /\ Ids' = Ids
    BY <1>2 DEF Tick, BeginSlot, Ids
  <2>2. SendingKept /\ AcceptedKept
    BY <1>2, WorkerCalm, CalmSending, OthersAccepted DEF Tick, BeginSlot
  <2> QED
    BY <2>1, <2>2, OnceSame
<1>3. ASSUME NEW w \in Instances, enqueueGroupDevotionReminder(w) PROVE OnceInv'
  <2>1. SendingKept /\ AcceptedKept /\ worker[w].now \in Nat
    BY <1>3, WorkerCalm, CalmSending, OthersAccepted, WorkerFields DEF enqueueGroupDevotionReminder
  <2>2. UNCHANGED <<sub, deliveries>>
    BY <1>3 DEF enqueueGroupDevotionReminder
  <2>3. CASE active /\ ~muted
    <3>1. PICK at \in {clock - 1, clock} : Add(Reminder(Daily, worker[w].now, at))
      BY <1>3, <2>3 DEF enqueueGroupDevotionReminder
    <3>2. Reminder(Daily, worker[w].now, at) \in ReminderType
      BY <2>1, ReminderShape
    <3> QED
      BY <2>1, <2>2, <3>1, <3>2, OnceAdd
  <2>4. CASE ~(active /\ ~muted)
    <3>1. UNCHANGED <<reminders, copies, unsaved>> /\ Ids' = Ids
      BY <1>3, <2>4 DEF enqueueGroupDevotionReminder, Ids
    <3> QED
      BY <2>1, <2>2, <3>1, OnceSame
  <2> QED
    BY <2>3, <2>4
<1>4. ASSUME NEW w \in Instances,
             \/ Fill(w) \/ Select(w) \/ Claim(w) \/ Send(w) \/ Finish(w)
             \/ SendTimesOut(w) \/ Fail(w)
      PROVE  OnceInv'
  BY <1>4, FillOnce, SelectOnce, ClaimOnce, SendOnce, FinishOnce, TimeoutOnce, FailOnce
<1>5. ASSUME NEW e \in DOMAIN deliveries, MinutePasses(e) PROVE OnceInv'
  BY <1>5, MinuteOnce
<1>6. ASSUME UNCHANGED <<reminders, sub, copies, unsaved, worker, deliveries>> PROVE OnceInv'
  BY <1>6, SameWorkers, OnceSame DEF Ids
<1> QED
  BY <1>1, <1>2, <1>3, <1>4, <1>5, <1>6 DEF Next, WorkerStep, TimePasses, vars

LEMMA OnceAlways == Spec => []OnceInv
<1>1. Init => OnceInv
  <2>1. ASSUME Init
        PROVE  Ids = {} /\ DOMAIN deliveries = {} /\ \A w \in Instances : ~Sending(w)
    BY <2>1 DEF Init, Ids, Idle, Sending
  <2> QED
    BY <2>1 DEF OnceInv, SenderInv, OneSender, RowInv, CountInv, CopiesExplained
<1>2. TypeOK /\ ReplayInv /\ OnceInv /\ [Next]_vars => OnceInv'
  BY OnceStep
<1> QED
  BY <1>1, <1>2, TypeCorrect, ReplayAlways, PTL DEF Spec

\* No two instances send the same delivery at the same time, however many
\* read it in their batches (the UPDATE of the claim in learning_push.go).
THEOREM OneSenderCorrect == Spec => []OneSender
<1>1. OnceInv => OneSender
  BY DEF OnceInv, SenderInv
<1> QED
  BY <1>1, OnceAlways, PTL

\* The device gets a reminder once, and once more for every answer that was
\* lost or not saved: concurrent workers, retries, new bindings of the device
\* and kills add nothing to that.
THEOREM CopiesExplainedCorrect == Spec => []CopiesExplained
<1>1. OnceInv => CopiesExplained
  BY DEF OnceInv, CountInv
<1> QED
  BY <1>1, OnceAlways, PTL
=============================================================================
