------------------------- MODULE BindingLeaseProofs -------------------------
(***************************************************************************)
(* Proofs about binding changes and the target leases, for every set of    *)
(* chats, groups and administrators.  The argument is BindingInv: the      *)
(* mutex orders the changes, a change publishes only under the leases of   *)
(* the chats it changes, and the version a send compares moves exactly     *)
(* when the published group does.                                          *)
(***************************************************************************)
EXTENDS BindingLease, TLAPS

LEMMA IdleTypes == IdleAdmin \in AdminLocal /\ IdleWorker \in WorkerLocal
<1>1. SomeTarget \in Targets /\ (CHOOSE g \in Groups : TRUE) \in Groups
  BY ConstantsAssumption DEF SomeTarget
<1> QED
  BY <1>1 DEF IdleAdmin, IdleWorker, AdminLocal, WorkerLocal, Owner

LEMMA FreshVersionsType ==
    ASSUME NEW b PROVE FreshVersions(b) \in [Targets -> Nat]
BY DEF FreshVersions

LEMMA ReturnType == ASSUME TypeOK, NEW a \in Admins, Return(a)
                    PROVE  admin' \in [Admins -> AdminLocal]
BY IdleTypes DEF Return, TypeOK

LEMMA AdminMoves ==
    ASSUME TypeOK, NEW a \in Admins, NEW q \in {"idle", "lock", "store", "set", "leases", "initial"},
           NEW c \in SUBSET Targets
    PROVE  /\ [admin[a] EXCEPT !.pc = q] \in AdminLocal
           /\ [admin[a] EXCEPT !.pc = q, !.changed = c] \in AdminLocal
BY DEF TypeOK, AdminLocal

LEMMA WorkerMoves ==
    ASSUME TypeOK, NEW c \in SUBSET Targets,
           NEW q \in {"idle", "prepared", "leased", "sending", "muted", "store", "set", "leases"}
    PROVE  /\ [worker EXCEPT !.pc = q] \in WorkerLocal
           /\ [worker EXCEPT !.pc = q, !.changed = c] \in WorkerLocal
BY DEF TypeOK, WorkerLocal

LEMMA GoType ==
    ASSUME TypeOK, NEW p \in Procs, NEW q, NEW c \in SUBSET Targets, Go(p, q, c),
           p = Worker => q \in {"idle", "leases"}, p # Worker => q \in {"leases", "initial"}
    PROVE  admin' \in [Admins -> AdminLocal] /\ worker' \in WorkerLocal
<1>1. CASE p = Worker
  BY <1>1, WorkerMoves, IdleTypes DEF Go, TypeOK
<1>2. CASE p # Worker
  <2>1. p \in Admins
    BY <1>2 DEF Procs
  <2>2. [admin[p] EXCEPT !.pc = q, !.changed = c] \in AdminLocal
    BY <1>2, <2>1, AdminMoves
  <2>3. admin' = [admin EXCEPT ![p] = [admin[p] EXCEPT !.pc = q, !.changed = c]]
    BY <1>2, <2>1 DEF Go, TypeOK
  <2> QED
    BY <1>2, <2>1, <2>2, <2>3 DEF Go, TypeOK
<1> QED
  BY <1>1, <1>2

LEMMA storeAssignType ==
    ASSUME TypeOK, NEW t \in Targets, NEW g \in Owner, NEW ok \in BOOLEAN, storeAssign(t, g, ok)
    PROVE  store' \in [Targets -> Owner] /\ disk' \in [Targets -> Owner]
BY DEF TypeOK, storeAssign

LEMMA ArchiveType == ASSUME TypeOK, Archive
                     PROVE  jobs' \subseteq Groups \X Targets /\ worker' \in WorkerLocal
BY IdleTypes DEF Archive, TypeOK

-----------------------------------------------------------------------------
LEMMA InitType == Init => TypeOK
<1> SUFFICES ASSUME Init PROVE TypeOK
  OBVIOUS
<1>1. disk \in [Targets -> Owner] /\ store \in [Targets -> Owner] /\ published \in [Targets -> Owner]
  BY DEF Init
<1>2. version \in [Targets -> Nat] /\ epoch \in [Targets -> Nat]
  BY FreshVersionsType DEF Init
<1>3. admin \in [Admins -> AdminLocal] /\ worker \in WorkerLocal
  BY IdleTypes DEF Init
<1> QED
  BY <1>1, <1>2, <1>3 DEF Init, TypeOK

LEMMA TypeStep == TypeOK /\ [Next]_vars => TypeOK'
<1> SUFFICES ASSUME TypeOK, [Next]_vars PROVE TypeOK'
  OBVIOUS
<1>1. CASE UNCHANGED vars
  BY <1>1 DEF TypeOK, vars
<1>2. ASSUME NEW a \in Admins, Request(a) PROVE TypeOK'
  <2>1. PICK t \in Targets, g \in Owner, e \in Owner \cup {Any} :
          admin' = [admin EXCEPT ![a] = [pc |-> "lock", target |-> t, group |-> g,
                                         expected |-> e, changed |-> {}]]
    BY <1>2 DEF Request
  <2>2. [pc |-> "lock", target |-> t, group |-> g, expected |-> e, changed |-> {}] \in AdminLocal
    BY DEF AdminLocal
  <2>3. admin' \in [Admins -> AdminLocal]
    BY <2>1, <2>2 DEF TypeOK
  <2> QED
    BY <1>2, <2>3 DEF Request, TypeOK
<1>3. ASSUME NEW a \in Admins, ListChatsRefuses(a) PROVE TypeOK'
  BY <1>3, ReturnType DEF ListChatsRefuses, TypeOK
<1>4. ASSUME NEW a \in Admins, LockManager(a) PROVE TypeOK'
  <2>1. [admin[a] EXCEPT !.pc = "store"] \in AdminLocal
    BY AdminMoves
  <2>2. admin' \in [Admins -> AdminLocal] /\ mu' \in Procs \cup {Nobody}
    BY <1>4, <2>1, ReturnType DEF LockManager, TypeOK, Procs
  <2> QED
    BY <1>4, <2>2 DEF LockManager, TypeOK
<1>5. ASSUME NEW a \in Admins, assign(a) PROVE TypeOK'
  <2>1. [admin[a] EXCEPT !.pc = "set"] \in AdminLocal
    BY AdminMoves
  <2>2. admin[a].target \in Targets /\ admin[a].group \in Owner
    BY DEF TypeOK, AdminLocal
  <2>3. admin' \in [Admins -> AdminLocal] /\ mu' \in Procs \cup {Nobody}
    BY <1>5, <2>1, ReturnType DEF assign, TypeOK
  <2>4. store' \in [Targets -> Owner] /\ disk' \in [Targets -> Owner]
    BY <1>5, <2>2, storeAssignType DEF assign, TypeOK
  <2> QED
    BY <1>5, <2>3, <2>4 DEF assign, TypeOK
<1>6. ASSUME NEW a \in Admins, EnqueueInitialBinding(a) PROVE TypeOK'
  <2>1. jobs' \subseteq Groups \X Targets
    BY <1>6 DEF EnqueueInitialBinding, TypeOK, AdminLocal, Owner
  <2> QED
    BY <1>6, <2>1, ReturnType DEF EnqueueInitialBinding, TypeOK
<1>7. ASSUME NEW p \in Procs, SetTargets(p) PROVE TypeOK'
  <2>1. changedTargets(published, store) \in SUBSET Targets
    BY DEF changedTargets
  <2> QED
    BY <1>7, <2>1, GoType DEF SetTargets, TypeOK
<1>8. ASSUME NEW p \in Procs, NEW t \in Targets, AnnounceLock(p, t) \/ AcquireLock(p, t)
      PROVE TypeOK'
  BY <1>8 DEF AnnounceLock, AcquireLock, TypeOK
<1>9. ASSUME NEW p \in Procs, Publish(p) PROVE TypeOK'
  <2>1. version' \in [Targets -> Nat] /\ epoch' \in [Targets -> Nat]
    <3>1. \A t \in Targets : version[t] + 1 \in Nat /\ epoch[t] + 1 \in Nat
      BY DEF TypeOK
    <3> QED
      BY <1>9, <3>1 DEF Publish, TypeOK
  <2>2. wlock' \in [Targets -> {"free", "waiting", "held"}]
    BY <1>9 DEF Publish, TypeOK
  <2>3. admin' \in [Admins -> AdminLocal] /\ worker' \in WorkerLocal
    BY <1>9, GoType DEF Publish
  <2>4. jobs' \subseteq Groups \X Targets /\ mu' \in Procs \cup {Nobody}
    BY <1>9 DEF Publish, TypeOK
  <2> QED
    BY <1>9, <2>1, <2>2, <2>3, <2>4 DEF Publish, TypeOK
<1>10. ASSUME NEW g \in Groups, NEW t \in Targets, targetVersion(g, t) PROVE TypeOK'
  <2>1. [IdleWorker EXCEPT !.pc = "prepared", !.target = t, !.group = g,
                           !.ver = version[t], !.sent = epoch[t]] \in WorkerLocal
    BY IdleTypes DEF TypeOK, WorkerLocal
  <2>2. worker' \in WorkerLocal /\ jobs' \subseteq Groups \X Targets
    BY <1>10, <2>1 DEF targetVersion, TypeOK
  <2> QED
    BY <1>10, <2>2 DEF targetVersion, TypeOK
<1>11. CASE NothingToSend \/ SendText
  <2>1. worker' \in WorkerLocal /\ jobs' \subseteq Groups \X Targets
    BY <1>11, ArchiveType, IdleTypes, WorkerMoves DEF NothingToSend, SendText, TypeOK
  <2> QED
    BY <1>11, <2>1 DEF NothingToSend, SendText, TypeOK
<1>12. CASE RLock \/ acquireTargetLease
  <2>1. worker' \in WorkerLocal /\ jobs' \subseteq Groups \X Targets
    BY <1>12, ArchiveType, WorkerMoves DEF RLock, acquireTargetLease, TypeOK
  <2> QED
    BY <1>12, <2>1 DEF RLock, acquireTargetLease, TypeOK
<1>13. CASE unbindMuted
  <2>1. worker' \in WorkerLocal /\ jobs' \subseteq Groups \X Targets
    BY <1>13, ArchiveType, WorkerMoves DEF unbindMuted, TypeOK
  <2>2. mu' \in Procs \cup {Nobody}
    BY <1>13 DEF unbindMuted, TypeOK, Procs
  <2> QED
    BY <1>13, <2>1, <2>2 DEF unbindMuted, TypeOK
<1>14. CASE UnbindStore
  <2>1. worker' \in WorkerLocal /\ jobs' \subseteq Groups \X Targets
    BY <1>14, ArchiveType, WorkerMoves DEF UnbindStore, TypeOK
  <2>2. store' \in [Targets -> Owner] /\ disk' \in [Targets -> Owner]
    BY <1>14, storeAssignType DEF UnbindStore, TypeOK, WorkerLocal, Owner
  <2>3. mu' \in Procs \cup {Nobody}
    BY <1>14 DEF UnbindStore, TypeOK
  <2> QED
    BY <1>14, <2>1, <2>2, <2>3 DEF UnbindStore, TypeOK
<1>15. ASSUME NEW g \in Groups, Enqueue(g) PROVE TypeOK'
  <2>1. jobs' \subseteq Groups \X Targets
    BY <1>15 DEF Enqueue, TypeOK
  <2> QED
    BY <1>15, <2>1 DEF Enqueue, TypeOK
<1>16. CASE close
  BY <1>16 DEF close, TypeOK
<1>17. CASE Restart
  BY <1>17, IdleTypes, FreshVersionsType DEF Restart, TypeOK
<1> QED
  BY <1>1, <1>2, <1>3, <1>4, <1>5, <1>6, <1>7, <1>8, <1>9, <1>10, <1>11, <1>12, <1>13,
     <1>14, <1>15, <1>16, <1>17 DEF Next, AdminStep, Publishing, WorkerStep

\* The model of the binding changes is type correct.
THEOREM TypeCorrect == Spec => []TypeOK
BY InitType, TypeStep, PTL DEF Spec

-----------------------------------------------------------------------------
(* How a step moves the goroutines *)

\* A goroutine other than the one that moves keeps its place.
LEMMA GoMoves ==
    ASSUME TypeOK, NEW p \in Procs, NEW q, NEW c, Go(p, q, c), NEW r \in Procs
    PROVE  /\ r # p => Pc(r)' = Pc(r) /\ Changed(r)' = Changed(r)
           /\ r = p /\ q # "idle" => Pc(r)' = q /\ Changed(r)' = c
           /\ p = Worker /\ q = "idle" => worker' = IdleWorker
           /\ worker'.pc # "idle" =>
                 worker'.target = worker.target /\ worker'.group = worker.group
                 /\ worker'.ver = worker.ver /\ worker'.sent = worker.sent
           /\ p # Worker => worker' = worker
<1>1. CASE p = Worker
  <2>1. q = "idle" => worker' = IdleWorker /\ worker'.pc = "idle"
    BY <1>1 DEF Go, IdleWorker
  <2>2. ASSUME q # "idle"
        PROVE  /\ worker'.pc = q /\ worker'.changed = c
               /\ worker'.target = worker.target /\ worker'.group = worker.group
               /\ worker'.ver = worker.ver /\ worker'.sent = worker.sent
    <3>1. worker' = [worker EXCEPT !.pc = q, !.changed = c]
      BY <1>1, <2>2 DEF Go
    <3> QED
      BY <3>1 DEF TypeOK, WorkerLocal
  <2>3. admin' = admin
    BY <1>1 DEF Go
  <2>4. \A x \in Procs : x # Worker => Pc(x)' = Pc(x) /\ Changed(x)' = Changed(x)
    BY <2>3 DEF Pc, Changed
  <2>5. Pc(Worker)' = worker'.pc /\ Changed(Worker)' = worker'.changed
    BY DEF Pc, Changed
  <2> QED
    BY <1>1, <2>1, <2>2, <2>4, <2>5
<1>2. CASE p # Worker
  <2>1. p \in Admins
    BY <1>2 DEF Procs
  <2>2. admin[p] \in AdminLocal /\ admin'[p] = [admin[p] EXCEPT !.pc = q, !.changed = c]
    BY <1>2, <2>1 DEF Go, TypeOK
  <2>3. admin'[p].pc = q /\ admin'[p].changed = c
    BY <2>2 DEF AdminLocal
  <2>4. \A x \in Admins : x # p => admin'[x] = admin[x]
    BY <1>2, <2>1 DEF Go, TypeOK
  <2> QED
    BY <1>2, <2>1, <2>3, <2>4 DEF Go, Pc, Changed, Procs
<1> QED
  BY <1>1, <1>2

\* What BindingInv says depends on these alone.
LEMMA MutexStep ==
    ASSUME MutexInv, NEW p \in Procs,
           \A r \in Procs : r # p => Pc(r)' = Pc(r),
           \/ Pc(p)' \in Critical /\ mu' = p /\ mu \in {p, Nobody}
           \/ Pc(p)' \notin Critical /\ mu' = Nobody /\ mu \in {p, Nobody}
           \/ Pc(p)' \notin Critical /\ mu' = mu /\ mu # p
    PROVE  MutexInv'
<1>1. Nobody \notin Procs
  BY ConstantsAssumption DEF Procs
<1> QED
  BY <1>1 DEF MutexInv

\* A step of an administrator outside SetTargets.
LEMMA AdminPc ==
    ASSUME TypeOK, NEW a \in Admins, NEW l, admin' = [admin EXCEPT ![a] = l], UNCHANGED worker
    PROVE  /\ Pc(a)' = l.pc /\ Changed(a)' = l.changed
           /\ \A r \in Procs : r # a => Pc(r)' = Pc(r) /\ Changed(r)' = Changed(r)
<1>1. a # Worker /\ a \in Procs
  BY ConstantsAssumption DEF Procs
<1> QED
  BY <1>1 DEF Pc, Changed, TypeOK, Procs

\* A step of the worker outside SetTargets.
LEMMA WorkerPc ==
    ASSUME UNCHANGED admin
    PROVE  /\ Pc(Worker)' = worker'.pc /\ Changed(Worker)' = worker'.changed
           /\ Worker \in Procs
           /\ \A r \in Procs : r # Worker => Pc(r)' = Pc(r) /\ Changed(r)' = Changed(r)
BY DEF Pc, Changed, Procs

-----------------------------------------------------------------------------
(* BindingInv is inductive *)

LEMMA InitInv == Init => BindingInv
<1> SUFFICES ASSUME Init PROVE BindingInv
  OBVIOUS
<1>1. \A p \in Procs : Pc(p) = "idle"
  BY DEF Init, Pc, IdleAdmin, IdleWorker, Procs
<1>2. worker.pc = "idle"
  BY DEF Init, IdleWorker
<1>3. Nobody \notin Procs
  BY ConstantsAssumption DEF Procs
<1>4. MutexInv /\ LagInv
  BY <1>1, <1>3 DEF Init, MutexInv, LagInv, Critical
<1>5. LeaseInv
  BY <1>1, <1>2 DEF Init, LeaseInv, ReadLocked
<1>6. VersionInv
  BY <1>2 DEF VersionInv
<1> QED
  BY <1>4, <1>5, <1>6 DEF BindingInv

\* Request, ListChatsRefuses, LockManager, assign, EnqueueInitialBinding.
LEMMA AdminStepInv ==
    ASSUME TypeOK, BindingInv, NEW a \in Admins, Request(a) \/ AdminStep(a)
    PROVE  BindingInv'
<1>0. /\ a \in Procs /\ a # Worker /\ Nobody \notin Procs /\ Pc(a) = admin[a].pc
      /\ UNCHANGED <<worker, published, version, wlock, epoch>>
  BY ConstantsAssumption
  DEF Procs, Pc, Request, AdminStep, ListChatsRefuses, LockManager, assign, EnqueueInitialBinding
<1>1. PICK l : admin' = [admin EXCEPT ![a] = l] /\ l.pc \notin {"leases"}
  <2>1. CASE Request(a)
    BY <2>1 DEF Request
  <2>2. CASE ListChatsRefuses(a) \/ EnqueueInitialBinding(a)
    BY <2>2 DEF ListChatsRefuses, EnqueueInitialBinding, Return, IdleAdmin
  <2>3. CASE LockManager(a)
    <3>1. [admin[a] EXCEPT !.pc = "store"].pc = "store"
      BY DEF TypeOK, AdminLocal
    <3> QED
      BY <2>3, <3>1 DEF LockManager, Return, IdleAdmin, TypeOK
  <2>4. CASE assign(a)
    <3>1. [admin[a] EXCEPT !.pc = "set"].pc = "set"
      BY DEF TypeOK, AdminLocal
    <3> QED
      BY <2>4, <3>1 DEF assign, Return, IdleAdmin, TypeOK
  <2> QED
    BY <2>1, <2>2, <2>3, <2>4 DEF AdminStep
<1>2. /\ Pc(a)' = l.pc
      /\ \A r \in Procs : r # a => Pc(r)' = Pc(r) /\ Changed(r)' = Changed(r)
  BY <1>0, <1>1, AdminPc
<1>3. admin'[a] = l
  BY <1>1 DEF TypeOK
<1>4. MutexInv' /\ LagInv' /\ (mu # a => UNCHANGED store) /\ Pc(a) # "leases"
  <2>1. CASE Request(a)
    <3>1. l.pc = "lock" /\ Pc(a) = "idle" /\ mu # a /\ mu' = mu /\ UNCHANGED store
      BY <2>1, <1>0, <1>3 DEF Request, BindingInv, MutexInv, Critical, TypeOK
    <3>2. MutexInv'
      BY <3>1, <1>0, <1>2, MutexStep DEF BindingInv, Critical
    <3>3. LagInv'
      BY <3>1, <1>0, <1>2 DEF BindingInv, LagInv
    <3> QED
      BY <3>1, <3>2, <3>3
  <2>2. CASE ListChatsRefuses(a)
    <3>1. l.pc = "idle" /\ Pc(a) = "lock" /\ mu # a /\ mu' = mu /\ UNCHANGED store
      BY <2>2, <1>0, <1>3 DEF ListChatsRefuses, Return, IdleAdmin, BindingInv, MutexInv, Critical, TypeOK
    <3>2. MutexInv'
      BY <3>1, <1>0, <1>2, MutexStep DEF BindingInv, Critical
    <3>3. LagInv'
      BY <3>1, <1>0, <1>2 DEF BindingInv, LagInv
    <3> QED
      BY <3>1, <3>2, <3>3
  <2>3. CASE LockManager(a)
    <3>1. /\ \/ l.pc = "idle" /\ mu' = mu
             \/ l.pc = "store" /\ mu' = a
          /\ Pc(a) = "lock" /\ mu = Nobody /\ UNCHANGED store
      <4>1. [admin[a] EXCEPT !.pc = "store"].pc = "store"
        BY DEF TypeOK, AdminLocal
      <4>2. \/ admin'[a] = IdleAdmin /\ mu' = mu
            \/ admin'[a] = [admin[a] EXCEPT !.pc = "store"] /\ mu' = a
        BY <2>3 DEF LockManager, Return, TypeOK
      <4>3. IdleAdmin.pc = "idle"
        BY DEF IdleAdmin
      <4> QED
        BY <2>3, <1>0, <1>3, <4>1, <4>2, <4>3 DEF LockManager
    <3>2. MutexInv'
      BY <3>1, <1>0, <1>2, MutexStep DEF BindingInv, Critical
    <3>3. LagInv'
      BY <3>1, <1>0, <1>2 DEF BindingInv, LagInv
    <3> QED
      BY <3>1, <3>2, <3>3
  <2>4. CASE assign(a)
    <3>1. /\ \/ l.pc = "idle" /\ mu' = Nobody /\ UNCHANGED store
             \/ l.pc = "set" /\ mu' = mu
          /\ Pc(a) = "store" /\ mu = a
      <4>1. [admin[a] EXCEPT !.pc = "set"].pc = "set"
        BY DEF TypeOK, AdminLocal
      <4>2. Pc(a) = "store" /\ mu = a
        BY <2>4, <1>0 DEF assign, BindingInv, MutexInv, Critical
      <4>3. \/ admin'[a] = IdleAdmin /\ mu' = Nobody /\ UNCHANGED store
            \/ admin'[a] = [admin[a] EXCEPT !.pc = "set"] /\ mu' = mu
        BY <2>4 DEF assign, storeAssign, Return, TypeOK
      <4>4. IdleAdmin.pc = "idle"
        BY DEF IdleAdmin
      <4> QED
        BY <1>3, <4>1, <4>2, <4>3, <4>4
    <3>2. MutexInv'
      BY <3>1, <1>0, <1>2, MutexStep DEF BindingInv, Critical
    <3>3. published = store
      BY <3>1, <1>0 DEF BindingInv, LagInv
    <3>4. LagInv'
      BY <3>1, <3>3, <1>0, <1>2 DEF LagInv
    <3> QED
      BY <3>1, <3>2, <3>4
  <2>5. CASE EnqueueInitialBinding(a)
    <3>1. l.pc = "idle" /\ Pc(a) = "initial" /\ mu = a /\ mu' = Nobody /\ UNCHANGED store
      BY <2>5, <1>0, <1>3
      DEF EnqueueInitialBinding, Return, IdleAdmin, BindingInv, MutexInv, Critical, TypeOK
    <3>2. MutexInv'
      BY <3>1, <1>0, <1>2, MutexStep DEF BindingInv, Critical
    <3>3. LagInv'
      BY <3>1, <1>0, <1>2 DEF BindingInv, LagInv
    <3> QED
      BY <3>1, <3>2, <3>3
  <2> QED
    BY <2>1, <2>2, <2>3, <2>4, <2>5 DEF AdminStep
<1>5. LeaseInv'
  <2>1. \A r \in Procs : Pc(r) = "leases" => r = mu
    BY DEF BindingInv, MutexInv, Critical
  <2>2. \A r \in Procs : Pc(r)' = "leases" => r # a /\ Pc(r) = "leases" /\ mu # a
    BY <1>1, <1>2, <2>1
  <2>3. \A r \in Procs : Pc(r)' = "leases" => Changed(r)' = changedTargets(published, store)'
    BY <1>0, <1>2, <1>4, <2>2 DEF BindingInv, LeaseInv, changedTargets
  <2>4. ASSUME NEW t \in Targets, wlock'[t] # "free"
        PROVE  mu' \in Procs /\ Pc(mu)' = "leases" /\ t \in Changed(mu)'
    <3>1. mu \in Procs /\ Pc(mu) = "leases" /\ t \in Changed(mu)
      BY <2>4, <1>0 DEF BindingInv, LeaseInv
    <3>2. mu # a /\ Pc(mu)' = "leases" /\ mu \in Procs
      BY <3>1, <1>2, <1>4 DEF BindingInv, MutexInv
    <3>3. mu' = mu
      <4>1. mu # Nobody /\ mu # a
        BY <3>1, <3>2, <1>0
      <4> QED
        BY <4>1, <1>0
        DEF Request, AdminStep, ListChatsRefuses, LockManager, assign, EnqueueInitialBinding,
            BindingInv, MutexInv, Critical
    <3> QED
      BY <3>1, <3>2, <3>3, <1>2
  <2>5. \A t \in Targets : ReadLocked(t)' => wlock'[t] # "held"
    BY <1>0 DEF BindingInv, LeaseInv, ReadLocked
  <2> QED
    BY <2>3, <2>4, <2>5 DEF LeaseInv
<1>6. VersionInv'
  BY <1>0 DEF BindingInv, VersionInv
<1> QED
  BY <1>4, <1>5, <1>6 DEF BindingInv

\* SetTargets and the lease steps of a change.
LEMMA PublishingInv ==
    ASSUME TypeOK, BindingInv, NEW p \in Procs, Publishing(p)
    PROVE  BindingInv'
<1>0. Nobody \notin Procs /\ Worker \in Procs
  BY ConstantsAssumption DEF Procs
<1>1. \A r \in Procs : Pc(r) \in Critical <=> mu = r
  BY DEF BindingInv, MutexInv
<1>2. Pc(p) \in {"set", "leases"} /\ mu = p
  BY <1>1 DEF Publishing, SetTargets, Publish, AnnounceLock, AcquireLock, Critical
<1>3. \A r \in Procs : r # p => Pc(r) \notin Critical
  BY <1>1, <1>2
<1>4. Pc(Worker) = worker.pc
  BY DEF Pc
<1>5. CASE SetTargets(p)
  <2>1. /\ Go(p, "leases", changedTargets(published, store)) /\ Pc(p) = "set"
        /\ UNCHANGED <<published, store, version, wlock, mu, epoch>>
    BY <1>5 DEF SetTargets
  <2>2. /\ Pc(p)' = "leases" /\ Changed(p)' = changedTargets(published, store)
        /\ \A r \in Procs : r # p => Pc(r)' = Pc(r) /\ Changed(r)' = Changed(r)
    BY <2>1, GoMoves
  <2>3. MutexInv'
    BY <1>2, <2>1, <2>2, MutexStep DEF BindingInv, Critical
  <2>4. LagInv'
    BY <1>2, <2>1, <2>2 DEF LagInv
  <2>5. \A t \in Targets : wlock[t] = "free"
    BY <1>2, <2>1 DEF BindingInv, LeaseInv
  <2>6. LeaseInv'
    BY <1>3, <2>1, <2>2, <2>5 DEF LeaseInv, changedTargets, Critical
  <2>7. VersionInv'
    <3>1. CASE p = Worker
      <4>1. worker'.pc = "leases" /\ worker.pc = "set"
        BY <3>1, <2>1, <2>2 DEF Pc
      <4>2. worker'.target = worker.target /\ worker'.group = worker.group
            /\ worker'.ver = worker.ver /\ worker'.sent = worker.sent
        BY <2>1, <4>1, GoMoves
      <4> QED
        BY <2>1, <4>1, <4>2 DEF BindingInv, VersionInv
    <3>2. CASE p # Worker
      <4>1. worker' = worker
        BY <3>2, <2>1, GoMoves
      <4> QED
        BY <2>1, <4>1 DEF BindingInv, VersionInv
    <3> QED
      BY <3>1, <3>2
  <2> QED
    BY <2>3, <2>4, <2>6, <2>7 DEF BindingInv
<1>6. ASSUME NEW t \in Targets, AnnounceLock(p, t) \/ AcquireLock(p, t) PROVE BindingInv'
  <2>1. /\ Pc(p) = "leases" /\ t \in Changed(p)
        /\ UNCHANGED <<published, store, version, mu, epoch, admin, worker>>
    BY <1>6 DEF AnnounceLock, AcquireLock
  <2>2. \A r \in Procs : Pc(r)' = Pc(r) /\ Changed(r)' = Changed(r)
    BY <2>1 DEF Pc, Changed
  <2>3. MutexInv' /\ LagInv'
    BY <2>1, <2>2 DEF BindingInv, MutexInv, LagInv
  <2>4. /\ \A u \in Targets : u # t => wlock'[u] = wlock[u]
        /\ wlock'[t] = "waiting" \/ (wlock'[t] = "held" /\ ~ReadLocked(t))
    BY <1>6 DEF AnnounceLock, AcquireLock, TypeOK
  <2>5. \A u \in Targets : ReadLocked(u)' = ReadLocked(u)
    BY <2>1 DEF ReadLocked
  <2>6. \A r \in Procs : Pc(r)' = "leases" => Changed(r)' = changedTargets(published, store)'
    BY <2>1, <2>2 DEF BindingInv, LeaseInv, changedTargets
  <2>7. \A u \in Targets : wlock'[u] # "free" =>
           mu' \in Procs /\ Pc(mu)' = "leases" /\ u \in Changed(mu)'
    BY <1>2, <2>1, <2>2, <2>4 DEF BindingInv, LeaseInv
  <2>8. \A u \in Targets : ReadLocked(u)' => wlock'[u] # "held"
    BY <2>4, <2>5 DEF BindingInv, LeaseInv
  <2>9. VersionInv'
    BY <2>1 DEF BindingInv, VersionInv
  <2> QED
    BY <2>3, <2>6, <2>7, <2>8, <2>9 DEF BindingInv, LeaseInv
<1>7. CASE Publish(p)
  <2>1. /\ Pc(p) = "leases" /\ \A t \in Changed(p) : wlock[t] = "held"
        /\ published' = store /\ store' = store
    BY <1>7 DEF Publish
  <2>2. Changed(p) = changedTargets(published, store)
    BY <2>1 DEF BindingInv, LeaseInv
  <2>3. \A t \in Targets :
           IF published[t] # store[t]
           THEN wlock[t] = "held" /\ version'[t] = version[t] + 1 /\ epoch'[t] = epoch[t] + 1
           ELSE /\ version'[t] = version[t] /\ epoch'[t] = epoch[t]
                /\ published'[t] = published[t]
    BY <1>7, <2>1, <2>2 DEF Publish, changedTargets
  <2>4. \A t \in Targets : wlock'[t] = "free"
    BY <1>7, <1>2 DEF Publish, BindingInv, LeaseInv
  <2>5. \/ p = Worker /\ worker' = IdleWorker /\ mu' = Nobody
        \/ p # Worker /\ worker' = worker /\ mu' = p /\ Pc(p)' = "initial"
    BY <1>7, <1>2, GoMoves DEF Publish
  <2>6. \A r \in Procs : r # p => Pc(r)' = Pc(r)
    BY <1>7, GoMoves DEF Publish
  <2>7. p = Worker => Pc(p)' = "idle"
    BY <2>5 DEF Pc, IdleWorker
  <2>8. MutexInv'
    BY <1>2, <2>5, <2>6, <2>7, MutexStep DEF BindingInv, Critical
  <2>9. LagInv'
    BY <2>1 DEF LagInv
  <2>10. LeaseInv'
    <3>1. \A r \in Procs : Pc(r)' # "leases"
      BY <1>3, <2>5, <2>6, <2>7 DEF Critical
    <3> QED
      BY <3>1, <2>4 DEF LeaseInv
  <2>11. VersionInv'
    <3>1. CASE p = Worker
      <4>1. worker'.pc = "idle"
        BY <3>1, <2>5 DEF IdleWorker
      <4> QED
        BY <4>1 DEF VersionInv
    <3>2. CASE p # Worker
      <4>1. worker' = worker /\ worker.pc \notin {"store", "set", "leases"}
        BY <3>2, <2>5, <1>0, <1>3, <1>4 DEF Critical
      <4>2. worker.target \in Targets /\ worker.ver \in Nat
            /\ version[worker.target] \in Nat
        BY DEF TypeOK, WorkerLocal
      <4>3. worker.pc = "sending" => wlock[worker.target] # "held"
        BY <4>2 DEF BindingInv, LeaseInv, ReadLocked
      <4>4. CASE published[worker.target] # store[worker.target]
        <5>1. wlock[worker.target] = "held"
              /\ version'[worker.target] = version[worker.target] + 1
          BY <4>2, <4>4, <2>3
        <5>2. worker.pc # "idle" => worker.ver <= version[worker.target]
          BY DEF BindingInv, VersionInv
        <5>3. worker.pc # "idle" => /\ worker.ver <= version[worker.target] + 1
                                    /\ worker.ver # version[worker.target] + 1
          BY <4>2, <5>2
        <5> QED
          BY <4>1, <4>3, <5>1, <5>3 DEF VersionInv
      <4>5. CASE published[worker.target] = store[worker.target]
        <5>1. /\ version'[worker.target] = version[worker.target]
              /\ epoch'[worker.target] = epoch[worker.target]
              /\ published'[worker.target] = published[worker.target]
          BY <4>2, <4>5, <2>3
        <5> QED
          BY <4>1, <5>1 DEF BindingInv, VersionInv
      <4> QED
        BY <4>4, <4>5
    <3> QED
      BY <3>1, <3>2
  <2> QED
    BY <2>8, <2>9, <2>10, <2>11 DEF BindingInv
<1> QED
  BY <1>5, <1>6, <1>7 DEF Publishing

\* The worker moves without changing what is published.
LEMMA WorkerFrame ==
    ASSUME TypeOK, BindingInv, UNCHANGED <<admin, published, version, wlock, epoch>>,
           worker'.pc # "leases", worker.pc # "leases",
           MutexInv', LagInv', VersionInv',
           store' = store \/ mu = Worker,
           mu' = mu \/ mu \in {Nobody, Worker},
           \A t \in Targets : ReadLocked(t)' => wlock[t] # "held"
    PROVE  BindingInv'
<1>0. Nobody \notin Procs
  BY ConstantsAssumption DEF Procs
<1>1. /\ Pc(Worker)' = worker'.pc /\ Worker \in Procs /\ Pc(Worker) = worker.pc
      /\ \A r \in Procs : r # Worker => Pc(r)' = Pc(r) /\ Changed(r)' = Changed(r)
  BY WorkerPc DEF Pc
<1>2. \A r \in Procs : Pc(r) = "leases" => r = mu /\ r # Worker
  BY <1>1 DEF BindingInv, MutexInv, Critical
<1>3. \A r \in Procs : Pc(r)' = "leases" => r # Worker /\ Pc(r) = "leases" /\ mu = r
  BY <1>1, <1>2
<1>4. \A r \in Procs : Pc(r)' = "leases" => Changed(r)' = changedTargets(published, store)'
  BY <1>1, <1>3 DEF BindingInv, LeaseInv, changedTargets
<1>5. \A t \in Targets : wlock'[t] # "free" =>
         mu' \in Procs /\ Pc(mu)' = "leases" /\ t \in Changed(mu)'
  BY <1>0, <1>1, <1>2 DEF BindingInv, LeaseInv
<1>6. LeaseInv'
  BY <1>4, <1>5 DEF LeaseInv
<1> QED
  BY <1>6 DEF BindingInv

LEMMA WorkerStepInv ==
    ASSUME TypeOK, BindingInv, WorkerStep
    PROVE  BindingInv'
<1>0. /\ Nobody \notin Procs /\ Worker \in Procs /\ Pc(Worker) = worker.pc
      /\ worker.target \in Targets /\ worker \in WorkerLocal
      /\ IdleWorker.pc = "idle"
      /\ UNCHANGED <<admin, published, version, wlock, epoch>>
  BY ConstantsAssumption
  DEF Procs, Pc, WorkerStep, targetVersion, NothingToSend, RLock, acquireTargetLease, SendText,
      unbindMuted, UnbindStore, TypeOK, WorkerLocal, IdleWorker
<1>1. /\ Pc(Worker)' = worker'.pc
      /\ \A r \in Procs : r # Worker => Pc(r)' = Pc(r)
  BY <1>0, WorkerPc
\* Moves outside the mutex: the new place is not critical.
<1>2. ASSUME worker.pc \notin Critical, worker'.pc \notin Critical, UNCHANGED <<mu, store>>
      PROVE  MutexInv' /\ LagInv'
  <2>1. mu # Worker
    BY <1>0, <1>2 DEF BindingInv, MutexInv
  <2>2. MutexInv'
    BY <1>0, <1>1, <1>2, <2>1, MutexStep DEF BindingInv
  <2> QED
    BY <1>0, <1>1, <1>2, <2>1, <2>2 DEF BindingInv, LagInv
<1>3. ASSUME worker'.pc = "idle" PROVE VersionInv' /\ \A t \in Targets : ~ReadLocked(t)'
  BY <1>3 DEF VersionInv, ReadLocked
<1>4. ASSUME worker'.pc = "idle", worker.pc \notin Critical, UNCHANGED <<mu, store>>
      PROVE  BindingInv'
  BY <1>0, <1>2, <1>3, <1>4, WorkerFrame DEF Critical
\* The worker keeps what it prepared and moves to q.
<1>5. ASSUME NEW q, worker' = [worker EXCEPT !.pc = q]
      PROVE  /\ worker'.pc = q /\ worker'.target = worker.target /\ worker'.group = worker.group
             /\ worker'.ver = worker.ver /\ worker'.sent = worker.sent
  BY <1>0, <1>5 DEF WorkerLocal
<1>6. ASSUME NEW g \in Groups, NEW t \in Targets, targetVersion(g, t) PROVE BindingInv'
  <2>1. CASE published[t] = g
    <3>1. /\ worker'.pc = "prepared" /\ worker'.target = t /\ worker'.group = g
          /\ worker'.ver = version[t] /\ worker'.sent = epoch[t] /\ worker.pc = "idle"
          /\ UNCHANGED <<mu, store>> /\ version[t] \in Nat
      BY <1>6, <2>1, IdleTypes DEF targetVersion, WorkerLocal, TypeOK
    <3>2. VersionInv'
      BY <2>1, <3>1, <1>0 DEF VersionInv
    <3>3. \A u \in Targets : ~ReadLocked(u)'
      BY <3>1 DEF ReadLocked
    <3> QED
      BY <1>0, <1>2, <3>1, <3>2, <3>3, WorkerFrame DEF Critical
  <2>2. CASE published[t] # g
    BY <1>4, <1>6, <2>2 DEF targetVersion, Critical
  <2> QED
    BY <2>1, <2>2
<1>7. CASE NothingToSend
  BY <1>0, <1>4, <1>7 DEF NothingToSend, Archive, Critical
<1>8. CASE RLock
  <2>1. /\ worker.pc = "prepared" /\ wlock[worker.target] = "free" /\ UNCHANGED <<mu, store>>
        /\ worker'.pc = "leased" /\ worker'.target = worker.target /\ worker'.group = worker.group
        /\ worker'.ver = worker.ver /\ worker'.sent = worker.sent
    BY <1>5, <1>8 DEF RLock
  <2>2. VersionInv'
    BY <1>0, <2>1 DEF BindingInv, VersionInv
  <2>3. \A t \in Targets : ReadLocked(t)' => wlock[t] # "held"
    BY <2>1 DEF ReadLocked
  <2> QED
    BY <1>0, <1>2, <2>1, <2>2, <2>3, WorkerFrame DEF Critical
<1>9. CASE acquireTargetLease
  <2>1. worker.pc = "leased" /\ UNCHANGED <<mu, store>>
    BY <1>9 DEF acquireTargetLease
  <2>2. CASE published[worker.target] = worker.group /\ version[worker.target] = worker.ver
    <3>1. worker'.pc = "sending" /\ worker'.target = worker.target /\ worker'.group = worker.group
          /\ worker'.ver = worker.ver /\ worker'.sent = worker.sent
      BY <1>5, <1>9, <2>2 DEF acquireTargetLease
    <3>2. VersionInv'
      BY <1>0, <2>1, <2>2, <3>1 DEF BindingInv, VersionInv
    <3>3. \A t \in Targets : ReadLocked(t)' => wlock[t] # "held"
      BY <2>1, <3>1 DEF ReadLocked, BindingInv, LeaseInv
    <3> QED
      BY <1>0, <1>2, <2>1, <3>1, <3>2, <3>3, WorkerFrame DEF Critical
  <2>3. CASE ~(published[worker.target] = worker.group /\ version[worker.target] = worker.ver)
    BY <1>0, <1>4, <1>9, <2>1, <2>3 DEF acquireTargetLease, Archive, Critical
  <2> QED
    BY <2>2, <2>3
<1>10. CASE SendText
  <2>1. worker.pc = "sending" /\ UNCHANGED <<mu, store>>
    BY <1>10 DEF SendText
  <2>2. CASE worker' = [worker EXCEPT !.pc = "muted"]
    <3>1. worker'.pc = "muted" /\ worker'.target = worker.target /\ worker'.group = worker.group
          /\ worker'.ver = worker.ver /\ worker'.sent = worker.sent
      BY <1>5, <2>2
    <3>2. VersionInv'
      BY <1>0, <2>1, <3>1 DEF BindingInv, VersionInv
    <3>3. \A t \in Targets : ~ReadLocked(t)'
      BY <3>1 DEF ReadLocked
    <3> QED
      BY <1>0, <1>2, <2>1, <3>1, <3>2, <3>3, WorkerFrame DEF Critical
  <2>3. CASE worker' = IdleWorker
    BY <1>0, <1>4, <2>1, <2>3 DEF Critical
  <2> QED
    BY <1>10, <2>2, <2>3 DEF SendText, Archive
<1>11. CASE unbindMuted
  <2>1. worker.pc = "muted" /\ mu = Nobody /\ UNCHANGED store
    BY <1>11 DEF unbindMuted
  <2>2. CASE worker' = IdleWorker /\ UNCHANGED mu
    BY <1>0, <1>4, <2>1, <2>2 DEF Critical
  <2>3. CASE /\ mu' = Worker /\ worker' = [worker EXCEPT !.pc = "store"]
             /\ version[worker.target] = worker.ver
    <3>1. worker'.pc = "store" /\ worker'.target = worker.target /\ worker'.group = worker.group
          /\ worker'.ver = worker.ver /\ worker'.sent = worker.sent
      BY <1>5, <2>3
    <3>2. MutexInv'
      BY <1>0, <1>1, <2>1, <2>3, <3>1, MutexStep DEF BindingInv, Critical
    <3>3. LagInv'
      BY <1>0, <2>1 DEF BindingInv, LagInv
    <3>4. VersionInv'
      BY <1>0, <2>1, <2>3, <3>1 DEF BindingInv, VersionInv
    <3>5. \A t \in Targets : ~ReadLocked(t)'
      BY <3>1 DEF ReadLocked
    <3> QED
      BY <1>0, <2>1, <3>1, <3>2, <3>3, <3>4, <3>5, WorkerFrame
  <2> QED
    BY <1>11, <2>2, <2>3 DEF unbindMuted, Archive
<1>12. CASE UnbindStore
  <2>1. worker.pc = "store" /\ mu = Worker /\ published = store
    <3>1. worker.pc = "store" /\ mu = Worker
      BY <1>0, <1>12 DEF UnbindStore, BindingInv, MutexInv, Critical
    <3> QED
      BY <1>0, <3>1 DEF BindingInv, LagInv
  <2>2. CASE worker' = IdleWorker /\ mu' = Nobody /\ UNCHANGED store
    <3>1. MutexInv'
      BY <1>0, <1>1, <2>1, <2>2, MutexStep DEF BindingInv, Critical
    <3>2. LagInv'
      BY <1>0, <2>1, <2>2 DEF LagInv
    <3> QED
      BY <1>0, <1>3, <2>1, <2>2, <3>1, <3>2, WorkerFrame
  <2>3. CASE worker' = [worker EXCEPT !.pc = "set"] /\ UNCHANGED mu
    <3>1. worker'.pc = "set" /\ worker'.target = worker.target /\ worker'.group = worker.group
          /\ worker'.ver = worker.ver /\ worker'.sent = worker.sent
      BY <1>5, <2>3
    <3>2. MutexInv'
      BY <1>0, <1>1, <2>1, <2>3, <3>1, MutexStep DEF BindingInv, Critical
    <3>3. LagInv'
      BY <1>0, <1>1, <2>1, <2>3, <3>1 DEF LagInv
    <3>4. VersionInv'
      BY <1>0, <2>1, <3>1 DEF BindingInv, VersionInv
    <3>5. \A t \in Targets : ~ReadLocked(t)'
      BY <3>1 DEF ReadLocked
    <3> QED
      BY <1>0, <2>1, <2>3, <3>1, <3>2, <3>3, <3>4, <3>5, WorkerFrame
  <2> QED
    BY <1>12, <2>2, <2>3 DEF UnbindStore, Archive, storeAssign
<1> QED
  BY <1>6, <1>7, <1>8, <1>9, <1>10, <1>11, <1>12 DEF WorkerStep

LEMMA BindingStep == TypeOK /\ BindingInv /\ [Next]_vars => BindingInv'
<1> SUFFICES ASSUME TypeOK, BindingInv, [Next]_vars PROVE BindingInv'
  OBVIOUS
<1>1. CASE UNCHANGED <<admin, worker, published, store, version, wlock, mu, epoch>>
  <2>1. \A r \in Procs : Pc(r)' = Pc(r) /\ Changed(r)' = Changed(r)
    BY <1>1 DEF Pc, Changed
  <2>2. MutexInv' /\ LagInv'
    BY <1>1, <2>1 DEF BindingInv, MutexInv, LagInv
  <2>3. LeaseInv'
    BY <1>1, <2>1 DEF BindingInv, LeaseInv, ReadLocked, changedTargets
  <2>4. VersionInv'
    BY <1>1 DEF BindingInv, VersionInv
  <2> QED
    BY <2>2, <2>3, <2>4 DEF BindingInv
<1>2. CASE Restart
  <2>1. /\ worker'.pc = "idle" /\ mu' = Nobody /\ published' = store'
        /\ \A r \in Procs : Pc(r)' = "idle"
        /\ \A t \in Targets : wlock'[t] = "free"
    BY <1>2 DEF Restart, Pc, IdleAdmin, IdleWorker, Procs
  <2>2. Nobody \notin Procs
    BY ConstantsAssumption DEF Procs
  <2>3. MutexInv' /\ LagInv'
    BY <2>1, <2>2 DEF MutexInv, LagInv, Critical
  <2>4. LeaseInv' /\ VersionInv'
    BY <2>1 DEF LeaseInv, VersionInv
  <2> QED
    BY <2>3, <2>4 DEF BindingInv
<1>3. CASE UNCHANGED vars
  BY <1>1, <1>3 DEF vars
<1>4. ASSUME NEW g \in Groups, Enqueue(g) PROVE BindingInv'
  BY <1>1, <1>4 DEF Enqueue
<1>5. CASE close
  BY <1>1, <1>5 DEF close
<1> QED
  BY <1>2, <1>3, <1>4, <1>5, AdminStepInv, PublishingInv, WorkerStepInv DEF Next

\* BindingInv holds throughout.
THEOREM BindingInvariant == Spec => [](TypeOK /\ BindingInv)
BY InitType, InitInv, TypeStep, BindingStep, PTL DEF Spec

\* For any number of chats, groups and administrators: a message is on its
\* way only under the binding it was prepared for.
THEOREM SendsUnderCurrentBinding == Spec => []SendUnderCurrentBinding
<1>1. BindingInv => SendUnderCurrentBinding
  BY DEF BindingInv, VersionInv, SendUnderCurrentBinding
<1> QED
  BY <1>1, BindingInvariant, PTL

\* For any number of them: a muted answer removes only the binding of its send.
THEOREM LateFailureKeepsNewBinding == Spec => []MutedUnbindsItsOwnBinding
<1>1. BindingInv => MutedUnbindsItsOwnBinding
  BY DEF BindingInv, VersionInv, MutedUnbindsItsOwnBinding
<1> QED
  BY <1>1, BindingInvariant, PTL

\* For any number of them: the queue uses the stored bindings whenever no
\* change is under way, whatever writes failed before.
THEOREM QueueFollowsStore == Spec => []PublishedIsStored
<1>1. BindingInv => PublishedIsStored
  BY ConstantsAssumption DEF BindingInv, LagInv, PublishedIsStored, Procs
<1> QED
  BY <1>1, BindingInvariant, PTL
=============================================================================
