---------------------------- MODULE DeliveryQueue ----------------------------
(***************************************************************************)
(* The durable notification queue of one chat and one topic                *)
(* (notification/queue.go and sent_state.go, with the summaries of         *)
(* mysql_repository.go): job files in pending, completed and failed, the   *)
(* last-sent file, and the worker that sends one message part per tick.    *)
(*                                                                         *)
(* The worker's steps are the points between which the process can be      *)
(* killed or another goroutine can take Queue.mu.  A summary is the set of *)
(* check-ins it lists; the text, the marker of the newest entry and the    *)
(* split into parts are left out, and every summary has the same number of *)
(* parts.  Chats and topics have files of their own and do not interact    *)
(* here.  Who may rebind a chat during a send is the subject of            *)
(* BindingLease, so Bind and Unbind are single steps.                      *)
(***************************************************************************)
EXTENDS Integers, FiniteSets

CONSTANTS
    Records,      \* bound: check-in record IDs 1..n
    Parts,        \* message parts of a summary
    MaxAttempts,  \* 5 in the code
    MaxDay,       \* bound: days
    MaxRequests,  \* bound: requests of administrators
    MaxFaults,    \* bound: faults
    FaultKinds,   \* which faults happen: "kill", "cancel", "write", "answer"
    InOrder       \* check-ins commit in the order of their record IDs

ASSUME ConstantsAssumption ==
    /\ Records \subseteq Nat \ {0} /\ IsFiniteSet(Records)
    /\ Parts \in Nat \ {0} /\ MaxAttempts \in Nat \ {0}
    /\ MaxDay \in Nat /\ MaxRequests \in Nat /\ MaxFaults \in Nat
    /\ FaultKinds \subseteq {"kill", "cancel", "write", "answer"} /\ InOrder \in BOOLEAN

Initial == 0                        \* the job of the initial summary
Names   == Records \cup {Initial}   \* file names sort in this order
Days    == 0..MaxDay
NoDay   == -1

VARIABLES
    pending,   \* job files waiting: name -> job
    completed, \* names in completed/
    failed,    \* names in failed/
    last,      \* the last-sent file
    worker,    \* local state of Queue.Run
    checkins,  \* record -> day it was made, NoDay while there is none
    deleted,   \* records withdrawn
    toEnqueue, \* committed check-ins whose handler has not enqueued yet
    on,        \* the topic's switch in the group's settings
    bound,     \* the chat is bound to the group
    wake,      \* WakeInitial under way: "none", "rearm" or "enqueue"
    day,       \* the date
    requests,  \* bound counter for MaxRequests
    faults,    \* bound counter for MaxFaults
    saves,     \* history: saved configurations
    owed,      \* history: the last of them whose wake returned
    served,    \* history: the last of them an archived initial job had read
    accepted,  \* history: how often the chat got each part of a job's body
    shown      \* history: the summary the chat received last

world   == <<checkins, deleted, toEnqueue, on, bound, wake, day, requests, saves, owed>>
history == <<served, accepted, shown>>
vars    == <<pending, completed, failed, last, worker, world, faults, history>>

Job == [status : {"pending", "sent", "skipped", "failed"}, content : SUBSET Records,
        period : Days \cup {NoDay}, next : 0..Parts, attempts : 0..MaxAttempts,
        error : BOOLEAN, waiting : BOOLEAN, refresh : BOOLEAN, asOf : Nat]

\* resetInitialJob, and enqueue's new job.
NewJob == [status |-> "pending", content |-> {}, period |-> NoDay, next |-> 0, attempts |-> 0,
           error |-> FALSE, waiting |-> FALSE, refresh |-> FALSE, asOf |-> 0]

\* job.Messages is set: the body is frozen.
Frozen(j) == j.period # NoDay

WorkerPcs == {"idle", "enabled", "snapshot", "needs", "freeze", "send", "answer", "save",
              "record", "finalize"}

\* item is the worker's copy of the job, now the day of the tick, seen what was
\* committed then, fresh whether this tick took the snapshot.
WorkerLocal == [pc : WorkerPcs, name : Names, item : Job, now : Days, seen : SUBSET Records,
                fresh : BOOLEAN, answer : {"none", "ok", "retry", "refused"}]

IdleWorker == [pc |-> "idle", name |-> Initial, item |-> NewJob, now |-> 0, seen |-> {},
               fresh |-> FALSE, answer |-> "none"]

NoSummary == [period |-> NoDay, content |-> {}, covered |-> 0]

Init ==
    /\ pending = [n \in {} |-> NewJob] /\ completed = {} /\ failed = {} /\ last = NoSummary
    /\ worker = IdleWorker
    /\ checkins = [r \in Records |-> NoDay] /\ deleted = {} /\ toEnqueue = {}
    /\ on = TRUE /\ bound = FALSE /\ wake = "none" /\ day = 0 /\ requests = 0 /\ faults = 0
    /\ saves = 0 /\ owed = 0 /\ served = 0
    /\ accepted = [n \in Names |-> [p \in 1..Parts |-> 0]]
    /\ shown = [period |-> NoDay, content |-> {}]

Highest(S) == IF S = {} THEN 0 ELSE CHOOSE m \in S : \A x \in S : x <= m

Larger(m, n) == IF m > n THEN m ELSE n

Committed == {r \in Records : checkins[r] # NoDay}

Fault(kind) ==
    /\ kind \in FaultKinds /\ faults < MaxFaults
    /\ faults' = faults + 1

-----------------------------------------------------------------------------
(* Requests: check-ins, settings, bindings *)

Request == requests < MaxRequests /\ requests' = requests + 1

\* enqueue: a name that exists in any of the three directories is kept.
WithJob(n) ==
    IF n \in DOMAIN pending \cup completed \cup failed THEN pending
    ELSE [m \in DOMAIN pending \cup {n} |-> IF m = n THEN NewJob ELSE pending[m]]

\* A member's check-in is committed.  IDs are given out at the INSERT, so
\* concurrent transactions may commit in another order.
CommitCheckin(r) ==
    /\ checkins[r] = NoDay
    /\ InOrder => \A q \in Records : q < r => checkins[q] # NoDay
    /\ checkins' = [checkins EXCEPT ![r] = day]
    /\ toEnqueue' = toEnqueue \cup {r}
    /\ UNCHANGED <<pending, completed, failed, last, worker, deleted, on, bound, wake, day,
                   requests, faults, saves, owed, history>>

\* Queue.Enqueue by the handler of the check-in.
Enqueue(r) ==
    /\ r \in toEnqueue
    /\ toEnqueue' = toEnqueue \ {r}
    /\ pending' = IF bound THEN WithJob(r) ELSE pending
    /\ UNCHANGED <<completed, failed, last, worker, checkins, deleted, on, bound, wake, day,
                   requests, faults, saves, owed, history>>

DeleteCheckin(r) ==
    /\ Request /\ r \in Committed \ deleted
    /\ deleted' = deleted \cup {r}
    /\ UNCHANGED <<pending, completed, failed, last, worker, checkins, toEnqueue, on, bound, wake,
                   day, faults, saves, owed, history>>

\* handleAdminSaveLearningConfig commits, then calls WakeInitial.
SaveConfig ==
    /\ Request /\ wake = "none"
    /\ on' \in BOOLEAN /\ saves' = saves + 1 /\ wake' = "rearm"
    /\ UNCHANGED <<pending, completed, failed, last, worker, checkins, deleted, toEnqueue, bound,
                   day, faults, owed, history>>

\* A pending job is marked for refresh and freed of its backoff; an archived
\* one goes back to pending with everything reset.
rearmInitial ==
    IF Initial \in DOMAIN pending
    THEN /\ pending' = [pending EXCEPT ![Initial].refresh = TRUE,
                                       ![Initial].waiting = @ /\ pending[Initial].status # "pending"]
         /\ UNCHANGED <<completed, failed>>
    ELSE IF Initial \in completed \cup failed
         THEN /\ pending' = [m \in DOMAIN pending \cup {Initial} |->
                                IF m = Initial THEN NewJob ELSE pending[m]]
              /\ completed' = completed \ {Initial}
              /\ failed' = IF Initial \in completed THEN failed ELSE failed \ {Initial}
         ELSE UNCHANGED <<pending, completed, failed>>

\* WakeInitial has no targets to visit when the chat is not bound; an error is
\* logged and the rest of the wake is not done.
WakeInitial ==
    /\ wake = "rearm"
    /\ \/ /\ bound /\ rearmInitial
          /\ wake' = "enqueue" /\ UNCHANGED faults
       \/ /\ ~bound
          /\ wake' = "none" /\ UNCHANGED <<pending, completed, failed, faults>>
       \/ /\ bound /\ Fault("write")
          /\ wake' = "none" /\ UNCHANGED <<pending, completed, failed>>
    /\ UNCHANGED <<last, worker, checkins, deleted, toEnqueue, on, bound, day, requests, saves,
                   owed, history>>

EnqueueAfterWake ==
    /\ wake = "enqueue"
    /\ wake' = "none" /\ owed' = saves /\ pending' = WithJob(Initial)
    /\ UNCHANGED <<completed, failed, last, worker, checkins, deleted, toEnqueue, on, bound, day,
                   requests, faults, saves, history>>

\* Manager.assign publishes the binding and enqueues the initial job.
Bind ==
    /\ ~bound /\ bound' = TRUE
    /\ pending' = WithJob(Initial)
    /\ UNCHANGED <<completed, failed, last, worker, checkins, deleted, toEnqueue, on, wake, day,
                   requests, faults, saves, owed, history>>

Unbind ==
    /\ Request /\ bound /\ bound' = FALSE
    /\ UNCHANGED <<pending, completed, failed, last, worker, checkins, deleted, toEnqueue, on, wake,
                   day, faults, saves, owed, history>>

ClearFailed ==
    /\ Request /\ failed # {} /\ failed' = {}
    /\ UNCHANGED <<pending, completed, last, worker, checkins, deleted, toEnqueue, on, bound, wake,
                   day, faults, saves, owed, history>>

Midnight ==
    /\ day < MaxDay /\ day' = day + 1
    /\ UNCHANGED <<pending, completed, failed, last, worker, checkins, deleted, toEnqueue, on, bound,
                   wake, requests, faults, saves, owed, history>>

-----------------------------------------------------------------------------
(* The worker *)

Head == CHOOSE n \in DOMAIN pending : \A m \in DOMAIN pending : n <= m

Blocked(j) == j.status = "pending" /\ j.waiting

\* processNext archives an outdated job wherever it is reached; a refresh that
\* is asked for keeps an initial job alive.
Expired(j) == j.status = "pending" /\ ~j.refresh /\ Frozen(j) /\ day > j.period

\* NextTry has come.
BackoffEnds(n) ==
    /\ n \in DOMAIN pending /\ pending[n].waiting
    /\ pending' = [pending EXCEPT ![n].waiting = FALSE]
    /\ UNCHANGED <<completed, failed, last, worker, world, faults, history>>

\* The worker goes on with its copy of the job.
At(pc, item) == worker' = [worker EXCEPT !.pc = pc, !.item = item]

Skip(item) == At("save", [item EXCEPT !.status = "skipped", !.error = TRUE])

\* Mutant: attempts are not counted.
Retry_Uncounted(item) ==
    At("save", [item EXCEPT !.error = TRUE, !.waiting = TRUE, !.status = "pending"])

\* Mutant: one attempt too many.
Retry_OneMore(item) ==
    LET n == item.attempts + 1 IN
    At("save", [item EXCEPT !.attempts = n, !.error = TRUE, !.waiting = n <= MaxAttempts,
                            !.status = IF n <= MaxAttempts THEN "pending" ELSE "failed"])

\* A step failed in a way that is worth another attempt.
Retry(item) ==
    LET n == item.attempts + 1 IN
    At("save", [item EXCEPT !.attempts = n, !.error = TRUE, !.waiting = n < MaxAttempts,
                            !.status = IF n < MaxAttempts THEN "pending" ELSE "failed"])

SkipExpired(n) ==
    /\ worker.pc = "idle" /\ n \in DOMAIN pending /\ Expired(pending[n])
    /\ n = Head \/ Blocked(pending[Head])
    /\ worker' = [IdleWorker EXCEPT !.pc = "save", !.name = n,
                    !.item = [pending[n] EXCEPT !.status = "skipped", !.error = TRUE]]
    /\ UNCHANGED <<pending, completed, failed, last, world, faults, history>>

\* What prepareInitialRefresh makes of a job that is about to be processed: a
\* refresh resets it unless parts of it are out.
Prepared(n) ==
    LET j == pending[n] IN
    IF n # Initial \/ j.next # 0 THEN j
    ELSE IF j.refresh \/ ~Frozen(j)
         THEN [(IF j.refresh THEN NewJob ELSE j) EXCEPT !.asOf = saves]
         ELSE j

\* process of the first file: a job that was decided but not archived is
\* finished, any other is prepared and goes on if the chat is still bound.
process ==
    /\ worker.pc = "idle" /\ DOMAIN pending # {}
    /\ LET n == Head
           w == [IdleWorker EXCEPT !.name = n, !.now = day, !.seen = Committed] IN
       /\ ~Expired(pending[n]) /\ ~Blocked(pending[n])
       /\ IF pending[n].status # "pending"
          THEN /\ worker' = [w EXCEPT !.item = pending[n],
                               !.pc = IF pending[n].status = "sent" THEN "save" ELSE "finalize"]
               /\ UNCHANGED <<pending, faults>>
          ELSE \/ /\ pending' = [pending EXCEPT ![n] = Prepared(n)]
                  /\ UNCHANGED faults
                  /\ worker' = IF bound THEN [w EXCEPT !.pc = "enabled", !.item = Prepared(n)]
                               ELSE [w EXCEPT !.pc = "save", !.item =
                                       [Prepared(n) EXCEPT !.status = "skipped", !.error = TRUE]]
               \/ /\ pending[n].refresh /\ pending[n].next = 0 /\ Fault("write")
                  /\ UNCHANGED <<pending, worker>>
    /\ UNCHANGED <<completed, failed, last, world, history>>

\* CheckinSource.Enabled: a withdrawn check-in and a topic that is switched
\* off end the job; the query may fail.
Enabled ==
    /\ worker.pc = "enabled"
    /\ \/ IF ~on \/ worker.name \in deleted THEN Skip(worker.item)
          ELSE At(IF Frozen(worker.item) THEN "needs" ELSE "snapshot", worker.item)
       \/ Retry(worker.item)
    /\ UNCHANGED <<pending, completed, failed, last, world, faults, history>>

\* CheckinSource.Snapshot.  The initial summary takes the check-ins of the day
\* up to the instant of the tick, an event those of its own day up to its ID.
Summaries ==
    LET listed(d) == {r \in Committed \ deleted : checkins[r] = d} IN
    IF worker.name = Initial
    THEN {[period |-> worker.now, content |-> listed(worker.now) \ late] :
             late \in SUBSET (listed(worker.now) \ worker.seen)}
    ELSE {[period |-> checkins[worker.name],
           content |-> {r \in listed(checkins[worker.name]) : r <= worker.name}]}

Snapshot ==
    /\ worker.pc = "snapshot"
    /\ \/ /\ worker.name \in deleted /\ Skip(worker.item)
       \/ /\ worker.name \notin deleted
          /\ \E s \in Summaries :
                worker' = [worker EXCEPT !.pc = "needs", !.fresh = TRUE,
                             !.item.period = s.period, !.item.content = s.content]
       \/ Retry(worker.item)
    /\ UNCHANGED <<pending, completed, failed, last, world, faults, history>>

\* stateFromJob.
Covered(n, j) == Larger(Highest(j.content), n)

\* Mutant: the coverage of the last summary is not looked at.
NeedsSend_ContentOnly(n, j) ==
    \/ last.period = NoDay
    \/ last.period = j.period /\ last.content # j.content
    \/ last.period # NoDay /\ last.period < j.period

\* sentStateStore.NeedsSend
NeedsSend(n, j) ==
    \/ last.period = NoDay
    \/ last.period = j.period /\ (n = Initial \/ n > last.covered) /\ last.content # j.content
    \/ last.period # NoDay /\ last.period < j.period

\* After a body is frozen: it may be out of date by now.
Proceed(item) ==
    IF worker.now > item.period THEN Skip(item)
    ELSE IF item.next = Parts THEN At("save", [item EXCEPT !.status = "sent"])
    ELSE At("send", item)

\* Identical content widens the coverage it already has.  A read error undoes
\* a fresh snapshot.
CheckNeedsSend ==
    LET j == worker.item IN
    /\ worker.pc = "needs"
    /\ \/ /\ NeedsSend(worker.name, j)
          /\ IF worker.fresh THEN At("freeze", j) ELSE Proceed(j)
          /\ UNCHANGED <<last, faults>>
       \/ /\ ~NeedsSend(worker.name, j) /\ Skip(j) /\ UNCHANGED faults
          /\ last' = IF /\ last.period = j.period /\ last.content = j.content
                        /\ worker.name = Initial \/ worker.name > last.covered
                     THEN [last EXCEPT !.covered = Larger(@, Covered(worker.name, j))]
                     ELSE last
       \/ /\ Fault("write") /\ UNCHANGED last
          /\ Retry(IF worker.fresh THEN [j EXCEPT !.period = NoDay, !.content = {}] ELSE j)
    /\ UNCHANGED <<pending, completed, failed, world, history>>

\* mergeInitialRefresh: what WakeInitial wrote meanwhile is kept.
Merged(item) ==
    [item EXCEPT !.refresh = @ \/ (worker.name = Initial /\ pending[worker.name].refresh)]

Written(j) == [pending EXCEPT ![worker.name] = j]

Stop == worker' = IdleWorker

\* saveJob before the first external call of a body.
freeze ==
    /\ worker.pc = "freeze"
    /\ \/ /\ pending' = Written(Merged(worker.item)) /\ Proceed(Merged(worker.item))
          /\ accepted' = [accepted EXCEPT ![worker.name] = [p \in 1..Parts |-> 0]]
          /\ UNCHANGED faults
       \/ Fault("write") /\ Stop /\ UNCHANGED <<pending, accepted>>
    /\ UNCHANGED <<completed, failed, last, world, served, shown>>

\* SendText under the lease of the target; an answer can be lost after the
\* chat has the message.
SendText ==
    LET part == worker.item.next + 1
        delivered == /\ accepted' = [accepted EXCEPT ![worker.name][part] = @ + 1]
                     /\ shown' = IF part < Parts THEN shown
                                 ELSE [period |-> worker.item.period,
                                       content |-> worker.item.content]
        got(a) == worker' = [worker EXCEPT !.pc = "answer", !.answer = a] IN
    /\ worker.pc = "send"
    /\ \/ bound /\ got("ok") /\ delivered /\ UNCHANGED faults
       \/ bound /\ got("retry") /\ delivered /\ Fault("answer")
       \/ bound /\ (got("retry") \/ got("refused")) /\ UNCHANGED <<accepted, shown, faults>>
       \/ ~bound /\ Skip(worker.item) /\ UNCHANGED <<accepted, shown, faults>>
    /\ UNCHANGED <<pending, completed, failed, last, world, served>>

\* Mutant: the part that was sent is not counted.
Answered_SamePart ==
    LET j == worker.item IN
    /\ worker.pc = "answer"
    /\ \/ worker.answer = "ok" /\
             At("save", [j EXCEPT !.error = FALSE, !.attempts = @ + 1,
                           !.status = IF j.next + 1 = Parts THEN "sent" ELSE "pending"])
       \/ worker.answer = "retry" /\ Retry(j)
       \/ worker.answer = "refused" /\
             At("save", [j EXCEPT !.status = "failed", !.error = TRUE, !.attempts = @ + 1])
    /\ UNCHANGED <<pending, completed, failed, last, world, faults, history>>

\* Mutant: the job counts as sent one part early.
Answered_OneEarly ==
    LET j == worker.item IN
    /\ worker.pc = "answer"
    /\ \/ worker.answer = "ok" /\
             At("save", [j EXCEPT !.next = @ + 1, !.error = FALSE, !.attempts = @ + 1,
                           !.status = IF j.next + 2 >= Parts THEN "sent" ELSE "pending"])
       \/ worker.answer = "retry" /\ Retry(j)
       \/ worker.answer = "refused" /\
             At("save", [j EXCEPT !.status = "failed", !.error = TRUE, !.attempts = @ + 1])
    /\ UNCHANGED <<pending, completed, failed, last, world, faults, history>>

\* The outcome of a send is put into the job.
Answered ==
    LET j == worker.item IN
    /\ worker.pc = "answer"
    /\ \/ worker.answer = "ok" /\
             At("save", [j EXCEPT !.next = @ + 1, !.error = FALSE, !.attempts = @ + 1,
                           !.status = IF j.next + 1 = Parts THEN "sent" ELSE "pending"])
       \/ worker.answer = "retry" /\ Retry(j)
       \/ worker.answer = "refused" /\
             At("save", [j EXCEPT !.status = "failed", !.error = TRUE, !.attempts = @ + 1])
    /\ UNCHANGED <<pending, completed, failed, last, world, faults, history>>

\* finish, first durable step: saveJob.
finish ==
    LET j == Merged([worker.item EXCEPT !.attempts = IF worker.item.error THEN @ ELSE 0]) IN
    /\ worker.pc = "save"
    /\ \/ /\ pending' = Written(j) /\ UNCHANGED faults
          /\ IF j.status = "pending" THEN Stop
             ELSE At(IF j.status = "sent" THEN "record" ELSE "finalize", j)
       \/ Fault("write") /\ Stop /\ UNCHANGED pending
    /\ UNCHANGED <<completed, failed, last, world, history>>

\* Mutant: the coverage of the period is not carried over.
Record_OwnCoverage ==
    LET j == worker.item IN
    /\ worker.pc = "record"
    /\ last' = [period |-> j.period, content |-> j.content, covered |-> Covered(worker.name, j)]
    /\ At("finalize", j)
    /\ UNCHANGED <<pending, completed, failed, world, faults, history>>

\* finish, second durable step: sentStateStore.Record keeps the wider coverage
\* of the same period.
Record ==
    LET j == worker.item
        covered == Covered(worker.name, j) IN
    /\ worker.pc = "record"
    /\ \/ /\ last' = [period |-> j.period, content |-> j.content,
                      covered |-> IF last.period = j.period THEN Larger(covered, last.covered)
                                  ELSE covered]
          /\ At("finalize", j) /\ UNCHANGED faults
       \/ Fault("write") /\ Stop /\ UNCHANGED last
    /\ UNCHANGED <<pending, completed, failed, world, history>>

Archived(j) ==
    LET n == worker.name IN
    /\ pending' = [m \in DOMAIN pending \ {n} |-> pending[m]]
    /\ completed' = IF j.status = "failed" THEN completed ELSE completed \cup {n}
    /\ failed' = IF j.status = "failed" THEN failed \cup {n} ELSE failed
    /\ served' = IF n = Initial THEN Larger(served, j.asOf) ELSE served

\* Mutant: a wake during the last durable steps is archived with the job.
finalize_NoMerge ==
    /\ worker.pc = "finalize" /\ Stop
    /\ IF worker.item.refresh
       THEN pending' = Written(NewJob) /\ UNCHANGED <<completed, failed, served>>
       ELSE Archived(worker.item)
    /\ UNCHANGED <<last, world, faults, accepted, shown>>

\* finish, last durable step: the file is renamed, or starts over when a
\* refresh was asked for.
finalize ==
    LET j == Merged(worker.item) IN
    /\ worker.pc = "finalize" /\ Stop
    /\ \/ /\ j.refresh /\ pending' = Written(NewJob)
          /\ UNCHANGED <<completed, failed, served, faults>>
       \/ ~j.refresh /\ Archived(j) /\ UNCHANGED faults
       \/ Fault("write") /\ UNCHANGED <<pending, completed, failed, served>>
    /\ UNCHANGED <<last, world, accepted, shown>>

-----------------------------------------------------------------------------
(* Faults of the process *)

\* The process is killed and starts again: handlers under way are gone, and
\* startup enqueues the initial job of a bound chat.
Kill ==
    /\ Fault("kill")
    /\ worker' = IdleWorker /\ toEnqueue' = {} /\ wake' = "none"
    /\ pending' = IF bound THEN WithJob(Initial) ELSE pending
    /\ UNCHANGED <<completed, failed, last, checkins, deleted, on, bound, day, requests, saves,
                   owed, history>>

\* The robot is removed during a query or a send and registered again: process
\* drops the outcome of a cancelled step without saving it.
Cancel ==
    /\ Fault("cancel") /\ worker.pc \in {"enabled", "snapshot", "answer"}
    /\ Stop
    /\ UNCHANGED <<pending, completed, failed, last, world, history>>

WorkerStep ==
    \/ process \/ Enabled \/ Snapshot \/ CheckNeedsSend \/ freeze \/ SendText \/ Answered
    \/ finish \/ Record \/ finalize
    \/ \E n \in Names : SkipExpired(n)

Next ==
    \/ \E r \in Records : CommitCheckin(r) \/ Enqueue(r) \/ DeleteCheckin(r)
    \/ SaveConfig \/ WakeInitial \/ EnqueueAfterWake \/ Bind \/ Unbind \/ ClearFailed
    \/ Midnight \/ Kill \/ Cancel
    \/ WorkerStep \/ \E n \in Names : BackoffEnds(n)

\* The ticker wakes the worker every second and a backoff lasts at most five
\* minutes.
Fairness == WF_vars(WorkerStep) /\ \A n \in Names : WF_vars(BackoffEnds(n))

Spec == Init /\ [][Next]_vars /\ Fairness

-----------------------------------------------------------------------------
(* Properties *)

\* Every variable keeps its type.
TypeOK ==
    /\ DOMAIN pending \subseteq Names /\ \A n \in DOMAIN pending : pending[n] \in Job
    /\ completed \subseteq Names /\ failed \subseteq Names
    /\ last \in [period : Days \cup {NoDay}, content : SUBSET Records, covered : Nat]
    /\ worker \in WorkerLocal
    /\ checkins \in [Records -> Days \cup {NoDay}] /\ deleted \subseteq Records
    /\ toEnqueue \subseteq Records /\ on \in BOOLEAN /\ bound \in BOOLEAN
    /\ wake \in {"none", "rearm", "enqueue"} /\ day \in Days
    /\ requests \in Nat /\ faults \in Nat /\ saves \in Nat /\ owed \in Nat /\ served \in Nat
    /\ accepted \in [Names -> [1..Parts -> Nat]]
    /\ shown \in [period : Days \cup {NoDay}, content : SUBSET Records]

\* A configuration change whose WakeInitial has returned is not lost: until an
\* initial job that read the change is archived, the pending initial job is
\* still to read it, is marked for refresh, or has read it.
RefreshNotLost ==
    served < owed =>
        /\ Initial \in DOMAIN pending
        /\ LET j == pending[Initial] IN j.refresh \/ ~Frozen(j) \/ j.asOf >= owed

\* A job counts as sent only when the chat has every part of its body, and a
\* part is out only after the parts before it, whatever crashed in between.
SentWasDelivered ==
    \A n \in DOMAIN pending :
        /\ pending[n].status = "sent" => \A p \in 1..Parts : accepted[n][p] > 0
        /\ Frozen(pending[n]) => \A p \in 1..pending[n].next : accepted[n][p] > 0

\* The chat gets a part of a body again only if a fault kept the worker from
\* saving that it was delivered: one more copy for each fault at most.
DuplicatesNeedFaults == \A n \in Names : \A p \in 1..Parts : accepted[n][p] <= 1 + faults

\* Within a period the last-sent coverage never shrinks, whichever jobs are
\* recorded in whichever order.
CoverageGrows == [][last'.period = last.period => last'.covered >= last.covered]_last

\* Every queued check-in event leaves the pending queue: sent, skipped or
\* failed.
EventsSettle == \A r \in Records : r \in DOMAIN pending ~> r \notin DOMAIN pending

\* After a restart nothing the chat already has is sent again.
NoResend == \A n \in Names : \A p \in 1..Parts : accepted[n][p] <= 1

\* A later summary of a period lists everything the one before it listed,
\* apart from check-ins that were withdrawn: a delayed or retried event never
\* takes the chat back.
SummariesDoNotRegress ==
    [][shown'.period = shown.period => shown.content \subseteq shown'.content \cup deleted]_shown
=============================================================================
