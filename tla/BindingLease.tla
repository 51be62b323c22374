---------------------------- MODULE BindingLease ----------------------------
(***************************************************************************)
(* Binding chats to study groups while the delivery worker is sending      *)
(* (notification/manager.go, bindings.go and the target half of queue.go). *)
(*                                                                         *)
(* Three locks interact: Manager.mu (one binding change at a time), the    *)
(* read-write lease of each target (held shared around one external send,  *)
(* exclusively while a change of that target is published) and Queue.mu,   *)
(* whose critical sections never block and are atomic steps here.          *)
(* Jobs are reduced to the group and the target they are for; what a job   *)
(* goes through otherwise is the subject of DeliveryQueue.                 *)
(***************************************************************************)
EXTENDS Integers, FiniteSets

CONSTANTS
    Targets,    \* chats the robot is a member of
    Groups,     \* study groups
    NoGroup,    \* group ID 0: not bound
    Any,        \* Assign: no expected group
    Admins,     \* request goroutines that change bindings
    Worker,     \* the goroutine of Queue.Run
    Nobody,     \* holder of a free mutex
    MaxChanges  \* bound: requests to change a binding

Owner == Groups \cup {NoGroup}

ASSUME ConstantsAssumption ==
    /\ NoGroup \notin Groups /\ Any \notin Owner
    /\ Worker \notin Admins /\ Nobody \notin Admins \cup {Worker}
    /\ Targets # {} /\ Groups # {} /\ MaxChanges \in Nat

VARIABLES
    disk,      \* bindings.json: target -> group
    store,     \* BindingStore.bindings
    published, \* Queue.targets, as target -> group
    version,   \* Queue.targetVersions
    wlock,     \* exclusive side of every target lease
    mu,        \* holder of Manager.mu
    closed,    \* Manager.closed
    admin,     \* local state of the request goroutines
    worker,    \* local state of the worker
    jobs,      \* pending jobs, as <<group, target>>
    changes,   \* bound counter for MaxChanges
    epoch      \* history: how often the group published for a target changed

vars == <<disk, store, published, version, wlock, mu, closed, admin, worker, jobs,
          changes, epoch>>

Procs == Admins \cup {Worker}

AdminLocal ==
    [pc : {"idle", "lock", "store", "set", "leases", "initial"}, target : Targets,
     group : Owner, expected : Owner \cup {Any}, changed : SUBSET Targets]

\* ver is the target version the send was prepared under, sent the epoch then.
WorkerLocal ==
    [pc : {"idle", "prepared", "leased", "sending", "muted", "store", "set", "leases"},
     target : Targets, group : Groups, ver : Nat, sent : Nat, changed : SUBSET Targets]

SomeTarget == CHOOSE t \in Targets : TRUE
IdleAdmin  == [pc |-> "idle", target |-> SomeTarget, group |-> NoGroup, expected |-> Any,
               changed |-> {}]
IdleWorker == [pc |-> "idle", target |-> SomeTarget, group |-> CHOOSE g \in Groups : TRUE,
               ver |-> 0, sent |-> 0, changed |-> {}]

\* Queue.targetVersions right after NewQueue: 1 for every bound target.
FreshVersions(bindings) == [t \in Targets |-> IF bindings[t] = NoGroup THEN 0 ELSE 1]

Init ==
    /\ disk \in [Targets -> Owner]
    /\ store = disk /\ published = disk /\ version = FreshVersions(disk)
    /\ wlock = [t \in Targets |-> "free"] /\ mu = Nobody /\ closed = FALSE
    /\ admin = [a \in Admins |-> IdleAdmin] /\ worker = IdleWorker
    /\ jobs = {} /\ changes = 0 /\ epoch = [t \in Targets |-> 0]

\* Mutant: the lease is kept until the muted binding is removed.
ReadLocked_UntilUnbound(t) ==
    worker.pc \in {"leased", "sending", "muted", "store", "set", "leases"} /\ worker.target = t

\* The shared side of a lease: acquireTargetLease returns RUnlock, and process
\* calls it as soon as SendText returns.
ReadLocked(t) == worker.pc \in {"leased", "sending"} /\ worker.target = t

changedTargets(previous, next) == {t \in Targets : previous[t] # next[t]}

-----------------------------------------------------------------------------
(* Manager.assign *)

Request(a) ==
    /\ admin[a].pc = "idle" /\ changes < MaxChanges
    /\ changes' = changes + 1
    /\ \E t \in Targets, g \in Owner, e \in Owner \cup {Any} :
          admin' = [admin EXCEPT ![a] = [pc |-> "lock", target |-> t, group |-> g,
                                         expected |-> e, changed |-> {}]]
    /\ UNCHANGED <<disk, store, published, version, wlock, mu, closed, worker, jobs, epoch>>

Return(a) == admin' = [admin EXCEPT ![a] = IdleAdmin]

\* The remote chat list fails or does not hold the chat; asked for only when
\* the chat is to be bound.
ListChatsRefuses(a) ==
    /\ admin[a].pc = "lock" /\ admin[a].group # NoGroup
    /\ Return(a)
    /\ UNCHANGED <<disk, store, published, version, wlock, mu, closed, worker, jobs,
                   changes, epoch>>

\* m.mu.Lock and the closed check.
LockManager(a) ==
    /\ admin[a].pc = "lock" /\ mu = Nobody
    /\ IF closed
       THEN Return(a) /\ UNCHANGED mu
       ELSE mu' = a /\ admin' = [admin EXCEPT ![a].pc = "store"]
    /\ UNCHANGED <<disk, store, published, version, wlock, closed, worker, jobs, changes, epoch>>

\* Mutant: the in-memory map is not put back.
storeAssign_NoRollback(t, g, ok) ==
    /\ store' = [store EXCEPT ![t] = g]
    /\ IF ok THEN disk' = store' ELSE disk' \in {disk, store'}

\* BindingStore.assign: the map is swapped and written out; when writing fails
\* the old map is put back, and the file holds either content (writeAtomic
\* may fail after its rename).
storeAssign(t, g, ok) ==
    LET next == [store EXCEPT ![t] = g] IN
    IF ok THEN store' = next /\ disk' = next
          ELSE UNCHANGED store /\ disk' \in {disk, next}

\* Mutant: the expected and the new group change places.
assign_SwappedGroups(a) ==
    LET l == admin[a] IN
    /\ l.pc = "store"
    /\ \/ /\ l.group # store[l.target]
          /\ Return(a) /\ mu' = Nobody
          /\ UNCHANGED <<disk, store>>
       \/ /\ l.group = store[l.target]
          /\ storeAssign(l.target, l.expected, TRUE)
          /\ admin' = [admin EXCEPT ![a].pc = "set"] /\ UNCHANGED mu
    /\ UNCHANGED <<published, version, wlock, closed, worker, jobs, changes, epoch>>

assign(a) ==
    LET l == admin[a] IN
    /\ l.pc = "store"
    /\ \/ /\ l.expected # Any /\ store[l.target] # l.expected   \* ErrBindingChanged
          /\ Return(a) /\ mu' = Nobody
          /\ UNCHANGED <<disk, store>>
       \/ /\ l.expected \in {Any, store[l.target]}
          /\ \/ /\ storeAssign(l.target, l.group, TRUE)
                /\ admin' = [admin EXCEPT ![a].pc = "set"] /\ UNCHANGED mu
             \/ /\ storeAssign(l.target, l.group, FALSE)
                /\ Return(a) /\ mu' = Nobody
    /\ UNCHANGED <<published, version, wlock, closed, worker, jobs, changes, epoch>>

\* EnqueueInitialBinding; the call returns and releases m.mu.
EnqueueInitialBinding(a) ==
    /\ admin[a].pc = "initial"
    /\ jobs' = IF admin[a].group = NoGroup THEN jobs
               ELSE jobs \cup {<<admin[a].group, admin[a].target>>}
    /\ Return(a) /\ mu' = Nobody
    /\ UNCHANGED <<disk, store, published, version, wlock, closed, worker, changes, epoch>>

-----------------------------------------------------------------------------
(* Queue.SetTargets, called with m.mu held by an admin or by the worker *)

Pc(p)      == IF p = Worker THEN worker.pc ELSE admin[p].pc
Changed(p) == IF p = Worker THEN worker.changed ELSE admin[p].changed

\* Moves p on and records the targets whose leases it has still to take.
Go(p, pc, changed) ==
    IF p = Worker
    THEN /\ worker' = IF pc = "idle" THEN IdleWorker
                      ELSE [worker EXCEPT !.pc = pc, !.changed = changed]
         /\ UNCHANGED admin
    ELSE /\ admin' = [admin EXCEPT ![p].pc = pc, ![p].changed = changed]
         /\ UNCHANGED worker

SetTargets(p) ==
    /\ Pc(p) = "set"
    /\ Go(p, "leases", changedTargets(published, store))
    /\ UNCHANGED <<disk, store, published, version, wlock, mu, closed, jobs, changes, epoch>>

\* lease.Lock first announces itself, which keeps new readers out ...
AnnounceLock(p, t) ==
    /\ Pc(p) = "leases" /\ t \in Changed(p)
    /\ wlock[t] = "free" /\ \A u \in Changed(p) : wlock[u] # "waiting"
    /\ wlock' = [wlock EXCEPT ![t] = "waiting"]
    /\ UNCHANGED <<disk, store, published, version, mu, closed, admin, worker, jobs, changes,
                   epoch>>

\* ... and then waits for the reader there is.
AcquireLock(p, t) ==
    /\ Pc(p) = "leases" /\ t \in Changed(p)
    /\ wlock[t] = "waiting" /\ ~ReadLocked(t)
    /\ wlock' = [wlock EXCEPT ![t] = "held"]
    /\ UNCHANGED <<disk, store, published, version, mu, closed, admin, worker, jobs, changes,
                   epoch>>

\* With every lease held the new targets are published and the leases freed.
\* The worker's unbinding ends here; an admin goes on to the initial jobs.
Publish(p) ==
    /\ Pc(p) = "leases" /\ \A t \in Changed(p) : wlock[t] = "held"
    /\ version' = [t \in Targets |-> IF t \in Changed(p) THEN version[t] + 1 ELSE version[t]]
    /\ epoch' = [t \in Targets |-> IF published[t] # store[t] THEN epoch[t] + 1 ELSE epoch[t]]
    /\ published' = store
    /\ wlock' = [t \in Targets |-> IF t \in Changed(p) THEN "free" ELSE wlock[t]]
    /\ IF p = Worker
       THEN /\ Go(p, "idle", {}) /\ mu' = Nobody
            /\ jobs' = jobs \ {<<worker.group, worker.target>>}
       ELSE Go(p, "initial", {}) /\ UNCHANGED <<mu, jobs>>
    /\ UNCHANGED <<disk, store, closed, changes>>

-----------------------------------------------------------------------------
(* The worker: process and unbindMuted *)

\* A job is archived: sent, skipped or failed.
Archive ==
    /\ jobs' = jobs \ {<<worker.group, worker.target>>}
    /\ worker' = IdleWorker

\* processNext picks a job and reads the version of its target.
targetVersion(g, t) ==
    /\ worker.pc = "idle" /\ <<g, t>> \in jobs
    /\ IF published[t] = g
       THEN /\ worker' = [IdleWorker EXCEPT !.pc = "prepared", !.target = t, !.group = g,
                                            !.ver = version[t], !.sent = epoch[t]]
            /\ UNCHANGED jobs
       ELSE jobs' = jobs \ {<<g, t>>} /\ UNCHANGED worker        \* target_changed
    /\ UNCHANGED <<disk, store, published, version, wlock, mu, closed, admin, changes, epoch>>

\* Notifications are off, the content is not new, expired, or cannot be read:
\* the job ends or is left for later without a send.
NothingToSend ==
    /\ worker.pc = "prepared"
    /\ Archive \/ (worker' = IdleWorker /\ UNCHANGED jobs)
    /\ UNCHANGED <<disk, store, published, version, wlock, mu, closed, admin, changes, epoch>>

\* lease.RLock, kept out by a writer that holds or waits for the lease.
RLock ==
    /\ worker.pc = "prepared" /\ wlock[worker.target] = "free"
    /\ worker' = [worker EXCEPT !.pc = "leased"]
    /\ UNCHANGED <<disk, store, published, version, wlock, mu, closed, admin, jobs, changes,
                   epoch>>

\* Mutant: the version read before the lease was taken is trusted.
acquireTargetLease_NoRecheck ==
    /\ worker.pc = "leased"
    /\ worker' = [worker EXCEPT !.pc = "sending"] /\ UNCHANGED jobs
    /\ UNCHANGED <<disk, store, published, version, wlock, mu, closed, admin, changes, epoch>>

\* Under the lease the binding is read again: a changed one ends the job.
acquireTargetLease ==
    /\ worker.pc = "leased"
    /\ IF published[worker.target] = worker.group /\ version[worker.target] = worker.ver
       THEN worker' = [worker EXCEPT !.pc = "sending"] /\ UNCHANGED jobs
       ELSE Archive
    /\ UNCHANGED <<disk, store, published, version, wlock, mu, closed, admin, changes, epoch>>

\* SendText returns and the lease is released: delivered or failed for good,
\* to be tried again, or refused because the robot is muted in the chat.
SendText ==
    /\ worker.pc = "sending"
    /\ \/ Archive
       \/ worker' = IdleWorker /\ UNCHANGED jobs
       \/ worker' = [worker EXCEPT !.pc = "muted"] /\ UNCHANGED jobs
    /\ UNCHANGED <<disk, store, published, version, wlock, mu, closed, admin, changes, epoch>>

\* Mutant: the group alone decides whether the binding is still the same.
unbindMuted_GroupOnly ==
    /\ worker.pc = "muted" /\ mu = Nobody
    /\ IF closed \/ published[worker.target] # worker.group
       THEN Archive /\ UNCHANGED mu
       ELSE mu' = Worker /\ worker' = [worker EXCEPT !.pc = "store"] /\ UNCHANGED jobs
    /\ UNCHANGED <<disk, store, published, version, wlock, closed, admin, changes, epoch>>

\* unbindMuted takes m.mu and compares the binding with the one of the send;
\* a result that came too late is ignored.
unbindMuted ==
    /\ worker.pc = "muted" /\ mu = Nobody
    /\ IF closed \/ published[worker.target] # worker.group
                 \/ version[worker.target] # worker.ver
       THEN Archive /\ UNCHANGED mu
       ELSE mu' = Worker /\ worker' = [worker EXCEPT !.pc = "store"] /\ UNCHANGED jobs
    /\ UNCHANGED <<disk, store, published, version, wlock, closed, admin, changes, epoch>>

UnbindStore ==
    /\ worker.pc = "store"
    /\ \/ /\ storeAssign(worker.target, NoGroup, TRUE)
          /\ worker' = [worker EXCEPT !.pc = "set"] /\ UNCHANGED <<mu, jobs>>
       \/ /\ storeAssign(worker.target, NoGroup, FALSE)
          /\ Archive /\ mu' = Nobody
    /\ UNCHANGED <<published, version, wlock, closed, admin, changes, epoch>>

-----------------------------------------------------------------------------
(* The rest of the program *)

\* Manager.Enqueue for a check-in of group g: one job per chat bound to it.
Enqueue(g) ==
    /\ mu = Nobody /\ ~closed
    /\ jobs' = jobs \cup {<<g, t>> : t \in {u \in Targets : published[u] = g}}
    /\ UNCHANGED <<disk, store, published, version, wlock, mu, closed, admin, worker, changes,
                   epoch>>

\* Manager.close, when the robot is removed.
close ==
    /\ mu = Nobody /\ ~closed
    /\ closed' = TRUE
    /\ UNCHANGED <<disk, store, published, version, wlock, mu, admin, worker, jobs, changes,
                   epoch>>

\* The process dies and starts again: bindings and jobs come from disk
\* (NewBindingStore, NewQueue), everything else is new.
Restart ==
    /\ ~closed
    /\ store' = disk /\ published' = disk /\ version' = FreshVersions(disk)
    /\ wlock' = [t \in Targets |-> "free"] /\ mu' = Nobody
    /\ admin' = [a \in Admins |-> IdleAdmin] /\ worker' = IdleWorker
    /\ epoch' = [t \in Targets |-> 0]
    /\ UNCHANGED <<disk, closed, jobs, changes>>

AdminStep(a) == ListChatsRefuses(a) \/ LockManager(a) \/ assign(a) \/ EnqueueInitialBinding(a)

Publishing(p) ==
    SetTargets(p) \/ Publish(p) \/ \E t \in Targets : AnnounceLock(p, t) \/ AcquireLock(p, t)

WorkerStep ==
    \/ \E g \in Groups, t \in Targets : targetVersion(g, t)
    \/ NothingToSend \/ RLock \/ acquireTargetLease \/ SendText \/ unbindMuted \/ UnbindStore

Next ==
    \/ \E a \in Admins : Request(a) \/ AdminStep(a)
    \/ \E p \in Procs : Publishing(p)
    \/ WorkerStep
    \/ \E g \in Groups : Enqueue(g)
    \/ close \/ Restart

\* Every goroutine that can run does, SendText returns because its context
\* has a timeout, and sync.Mutex hands itself over to the longest waiter.
Fairness ==
    /\ WF_vars(WorkerStep) /\ WF_vars(Publishing(Worker)) /\ SF_vars(unbindMuted)
    /\ \A a \in Admins :
          /\ WF_vars(assign(a) \/ EnqueueInitialBinding(a)) /\ WF_vars(Publishing(a))
          /\ SF_vars(LockManager(a))

Spec == Init /\ [][Next]_vars /\ Fairness

-----------------------------------------------------------------------------
(* Properties *)

\* Every variable keeps its type.
TypeOK ==
    /\ disk \in [Targets -> Owner] /\ store \in [Targets -> Owner]
    /\ published \in [Targets -> Owner]
    /\ version \in [Targets -> Nat] /\ epoch \in [Targets -> Nat]
    /\ wlock \in [Targets -> {"free", "waiting", "held"}]
    /\ mu \in Procs \cup {Nobody} /\ closed \in BOOLEAN
    /\ admin \in [Admins -> AdminLocal] /\ worker \in WorkerLocal
    /\ jobs \subseteq Groups \X Targets /\ changes \in Nat

\* While a message is on its way to a chat, the chat is bound to the message's
\* group and has been since the message was prepared: once a rebinding has
\* returned, nothing of the old group is sent (acquireTargetLease, SetTargets).
SendUnderCurrentBinding ==
    worker.pc = "sending" =>
        /\ published[worker.target] = worker.group
        /\ epoch[worker.target] = worker.sent

\* The failure of a send removes only the binding it was sent under, never one
\* that was changed, or changed and changed back, in the meantime.
MutedUnbindsItsOwnBinding ==
    worker.pc \in {"store", "set", "leases"} =>
        /\ published[worker.target] = worker.group
        /\ epoch[worker.target] = worker.sent

\* Whenever no change is under way the worker's view is the stored one.
PublishedIsStored == mu = Nobody => published = store

\* No request to change a binding waits for ever, neither on the send in
\* flight nor on another change.
AssignCompletes == \A a \in Admins : admin[a].pc # "idle" ~> admin[a].pc = "idle"

-----------------------------------------------------------------------------
(* The inductive invariant behind the safety properties *)

Critical == {"store", "set", "leases", "initial"}

\* Manager.mu is held exactly by the goroutine inside assign or unbindMuted.
MutexInv == \A p \in Procs : Pc(p) \in Critical <=> mu = p

\* The queue lags behind the store only between the two steps of one change.
LagInv == published # store => mu \in Procs /\ Pc(mu) \in {"set", "leases"}

\* What is locked is what the holder of the mutex is about to publish.
LeaseInv ==
    /\ \A p \in Procs : Pc(p) = "leases" => Changed(p) = changedTargets(published, store)
    /\ \A t \in Targets : wlock[t] # "free" =>
          mu \in Procs /\ Pc(mu) = "leases" /\ t \in Changed(mu)
    /\ \A t \in Targets : ReadLocked(t) => wlock[t] # "held"

\* The version of a target tells whether its binding is still the one the
\* worker prepared its message under, and pins it during the send and the
\* unbinding.
VersionInv ==
    /\ worker.pc # "idle" =>
          /\ worker.ver <= version[worker.target]
          /\ version[worker.target] = worker.ver =>
                /\ epoch[worker.target] = worker.sent
                /\ published[worker.target] = worker.group
    /\ worker.pc \in {"sending", "store", "set", "leases"} =>
          version[worker.target] = worker.ver

BindingInv == MutexInv /\ LagInv /\ LeaseInv /\ VersionInv
=============================================================================
