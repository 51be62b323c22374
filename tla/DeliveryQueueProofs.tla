------------------------- MODULE DeliveryQueueProofs -------------------------
(***************************************************************************)
(* Proofs about the notification queue, for any check-ins, parts, attempts,*)
(* days, requests and faults.  QueueInv is inductive: it follows a job from*)
(* its file into the worker's hands and back, with what the chat has of it *)
(* and which configuration it has read.                                    *)
(***************************************************************************)
EXTENDS DeliveryQueue, FiniteSetTheorems, WellFoundedInduction, TLAPS

Working == {"enabled", "snapshot", "needs", "freeze", "send", "answer"}

\* What is true of a job, in its file or in the worker's hands: the chat has
\* the parts it counts, and all of them when it is sent.
Sound(acc, n, j) ==
    /\ j \in Job
    /\ ~Frozen(j) => j.next = 0
    /\ \A p \in 1..j.next : acc[n][p] > 0
    /\ j.status = "sent" => \A p \in 1..Parts : acc[n][p] > 0

\* A copy of a part that is still to be sent goes back to a fault.
Spare(acc, f, n, j, handed) ==
    j.status = "pending" /\ Frozen(j) => \A p \in 1..Parts : p > handed => acc[n][p] <= f

FileOK(acc, f, w, n, j) ==
    /\ Sound(acc, n, j)
    /\ j.status = "pending" => j.attempts < MaxAttempts
    /\ w.pc = "idle" \/ w.name # n => Spare(acc, f, n, j, j.next)

\* The worker has a body it has not written down yet.
Drafting(w) == w.fresh /\ w.pc \in {"needs", "freeze"}

Handed(w) == IF w.pc = "answer" /\ w.answer = "ok" THEN w.item.next + 1 ELSE w.item.next

WorkerOK(acc, f, w) ==
    /\ Sound(acc, w.name, w.item)
    /\ w.pc \in Working => w.item.status = "pending" /\ w.item.attempts < MaxAttempts
    /\ w.pc \in {"enabled", "snapshot"} => ~w.fresh
    /\ w.pc = "snapshot" => ~Frozen(w.item)
    /\ w.pc \in {"needs", "freeze", "send", "answer"} => Frozen(w.item)
    /\ Drafting(w) => w.item.next = 0
    /\ w.pc = "freeze" => w.fresh
    /\ w.pc \in {"send", "answer"} => w.item.next < Parts
    /\ w.pc = "answer" /\ w.answer = "ok" => acc[w.name][w.item.next + 1] > 0
    /\ w.pc = "save" /\ w.item.status = "pending" /\ w.item.error =>
           w.item.attempts < MaxAttempts
    /\ w.pc = "record" => w.item.status = "sent"
    /\ w.pc = "finalize" => w.item.status # "pending"
    /\ ~Drafting(w) => Spare(acc, f, w.name, w.item, Handed(w))

JobsInv == \A n \in DOMAIN pending : FileOK(accepted, faults, worker, n, pending[n])

WorkerInv ==
    worker.pc # "idle" =>
        worker.name \in DOMAIN pending /\ WorkerOK(accepted, faults, worker)

\* A job is about a check-in that was committed.
CommittedInv == \A r \in toEnqueue \cup (DOMAIN pending \ {Initial}) : checkins[r] \in Days

\* The initial job, in its file and in the worker's hands, has read the k-th
\* configuration or is going to.
Reads(k) ==
    LET j == pending[Initial] IN
    /\ j.refresh \/ j.asOf >= k \/ (~Frozen(j) /\ j.status = "pending")
    /\ worker.pc # "idle" /\ worker.name = Initial =>
           worker.item.refresh \/ j.refresh \/ worker.item.asOf >= k

Kept(k) == served < k => Initial \in DOMAIN pending /\ Reads(k)

\* Between rearmInitial and the enqueueing, the configuration saved last is
\* kept already or there is no initial job at all.
RefreshInv ==
    /\ owed <= saves /\ Kept(owed)
    /\ wake = "enqueue" => Kept(saves) \/ Initial \notin DOMAIN pending \cup completed \cup failed

QueueInv == TypeOK /\ JobsInv /\ WorkerInv /\ CommittedInv /\ RefreshInv /\ DuplicatesNeedFaults

-----------------------------------------------------------------------------
(* Least and greatest elements                                              *)

\* A set of natural numbers that is not empty has a least element.
LEMMA LeastNatural ==
    ASSUME NEW S \in SUBSET Nat, S # {}
    PROVE  \E m \in S : \A n \in S : m <= n
<1>1. \E m \in S : \A n \in S : <<n, m>> \notin OpToRel(<, Nat)
  BY NatLessThanWellFounded, WFMin
<1>2. \A m, n \in Nat : <<n, m>> \notin OpToRel(<, Nat) => m <= n
  BY DEF OpToRel
<1> QED
  BY <1>1, <1>2

\* A set of records has a greatest element when it is not empty: otherwise a
\* smallest set without one would lose an element and still have none.
LEMMA GreatestRecord ==
    ASSUME ConstantsAssumption, NEW S \in SUBSET Records, S # {}
    PROVE  \E m \in S : \A x \in S : x <= m
<1> DEFINE Open(T) == T # {} /\ \A m \in T : \E x \in T : ~(x <= m)
           Sizes == {k \in Nat : \E T \in SUBSET Records : Open(T) /\ Cardinality(T) = k}
<1> SUFFICES ASSUME Open(S) PROVE FALSE
  OBVIOUS
<1>1. IsFiniteSet(Records) /\ Records \subseteq Nat
  BY DEF ConstantsAssumption
<1>2. \A T \in SUBSET Records : IsFiniteSet(T) /\ Cardinality(T) \in Nat
  BY <1>1, FS_Subset, FS_CardinalityType
<1>3. PICK k \in Sizes : \A i \in Sizes : k <= i
  <2>1. Sizes \in SUBSET Nat /\ Sizes # {}
    BY <1>2
  <2> HIDE DEF Sizes
  <2> QED
    BY <2>1, LeastNatural
<1>4. PICK T \in SUBSET Records : Open(T) /\ Cardinality(T) = k
  BY <1>3
<1>5. PICK x \in T : TRUE
  BY <1>4
<1> DEFINE U == T \ {x}
<1>6. Cardinality(U) \in Nat /\ Cardinality(U) < k
  BY <1>2, <1>4, <1>5, FS_RemoveElement
<1>7. ~Open(U)
  <2> HIDE DEF Open, U
  <2>1. U \in SUBSET Records
    BY DEF U
  <2>2. Cardinality(U) \notin Sizes
    <3>1. \A i \in Sizes : i \in Nat
      OBVIOUS
    <3> HIDE DEF Sizes
    <3> QED
      BY <1>3, <1>6, <3>1
  <2> QED
    BY <1>6, <2>1, <2>2
<1>8. CASE U = {}
  BY <1>1, <1>4, <1>5, <1>8
<1>9. CASE U # {}
  <2>1. PICK m \in U : \A y \in U : y <= m
    BY <1>7, <1>9
  <2>2. CASE x <= m
    BY <1>4, <2>1, <2>2
  <2>3. CASE ~(x <= m)
    BY <1>1, <1>4, <1>5, <2>1, <2>3
  <2> QED
    BY <2>2, <2>3
<1> QED
  BY <1>8, <1>9

\* The newest record of a summary is a number.
LEMMA HighestType ==
    ASSUME ConstantsAssumption, NEW S \in SUBSET Records
    PROVE  Highest(S) \in Nat
BY GreatestRecord DEF Highest, ConstantsAssumption

\* The head of the queue is a file of it.
LEMMA HeadIsFile ==
    ASSUME ConstantsAssumption, DOMAIN pending \subseteq Names, DOMAIN pending # {}
    PROVE  Head \in DOMAIN pending
<1>1. \A n \in Names : n \in Nat
  <2>1. \A r \in Records : r \in Nat
    BY DEF ConstantsAssumption
  <2> QED
    BY <2>1 DEF Names, Initial
<1>2. \E n \in DOMAIN pending : \A m \in DOMAIN pending : n <= m
  <2>1. DOMAIN pending \in SUBSET Nat
    BY <1>1
  <2> QED
    BY <2>1, LeastNatural
<1> QED
  BY <1>2 DEF Head

-----------------------------------------------------------------------------
(* Steps on one job                                                         *)

LastType  == [period : Days \cup {NoDay}, content : SUBSET Records, covered : Nat]
ShownType == [period : Days \cup {NoDay}, content : SUBSET Records]
Copies    == [Names -> [1..Parts -> Nat]]

\* A new job has nothing out and nothing to lose.
LEMMA NewJobSound ==
    ASSUME ConstantsAssumption, NEW acc, NEW f, NEW w, NEW n
    PROVE  /\ NewJob \in Job /\ ~Frozen(NewJob)
           /\ NewJob.status = "pending" /\ FileOK(acc, f, w, n, NewJob)
<1>1. NewJob \in Job
  BY DEF ConstantsAssumption, NewJob, Job
<1>2. /\ NewJob.status = "pending" /\ NewJob.period = NoDay /\ NewJob.next = 0
      /\ NewJob.attempts = 0
  BY DEF NewJob
<1>3. ~Frozen(NewJob)
  BY <1>2 DEF Frozen
<1> QED
  BY <1>1, <1>2, <1>3 DEF ConstantsAssumption, FileOK, Sound, Spare

\* At rest the worker has its type.
LEMMA IdleType ==
    ASSUME ConstantsAssumption
    PROVE  IdleWorker \in WorkerLocal /\ IdleWorker.pc = "idle"
<1>1. NewJob \in Job
  BY NewJobSound
<1> QED
  BY <1>1 DEF ConstantsAssumption, IdleWorker, WorkerLocal, WorkerPcs, Names, Initial, Days

\* Whatever the worker does to one job, the others are not concerned.
LEMMA WorkerStepSound ==
    ASSUME QueueInv, NEW n \in DOMAIN pending,
           UNCHANGED <<completed, failed, world, served>>,
           DOMAIN pending' = DOMAIN pending,
           \A m \in DOMAIN pending \ {n} : pending'[m] = pending[m],
           faults' \in Nat, faults <= faults',
           accepted' \in Copies, \A m \in Names \ {n} : accepted'[m] = accepted[m],
           \A p \in 1..Parts : accepted'[n][p] <= 1 + faults',
           last' \in LastType, shown' \in ShownType, worker' \in WorkerLocal,
           worker.pc = "idle" \/ worker.name = n,
           worker'.pc # "idle" => worker'.name = n /\ WorkerOK(accepted', faults', worker'),
           FileOK(accepted', faults', worker', n, pending'[n]),
           n = Initial => \A k \in 0..saves : Reads(k) => Reads(k)'
    PROVE  QueueInv'
<1>1. /\ DOMAIN pending \subseteq Names /\ \A m \in DOMAIN pending : pending[m] \in Job
      /\ accepted \in Copies /\ faults \in Nat /\ saves \in Nat /\ owed \in Nat
  BY DEF QueueInv, TypeOK, Copies
<1>2. JobsInv'
  <2> SUFFICES ASSUME NEW m \in DOMAIN pending, m # n
               PROVE  FileOK(accepted', faults', worker', m, pending[m])
    BY DEF JobsInv
  <2>1. FileOK(accepted, faults, worker, m, pending[m]) /\ m \in Names
    BY <1>1 DEF QueueInv, JobsInv
  <2>2. accepted'[m] = accepted[m] /\ \A p \in 1..Parts : accepted[m][p] \in Nat
    BY <1>1, <2>1 DEF Copies
  <2>3. Spare(accepted, faults, m, pending[m], pending[m].next)
    BY <2>1 DEF FileOK
  <2>4. Spare(accepted', faults', m, pending[m], pending[m].next)
    BY <1>1, <2>2, <2>3 DEF Spare
  <2>5. Sound(accepted', m, pending[m])
    BY <2>1, <2>2 DEF FileOK, Sound
  <2> QED
    BY <2>1, <2>4, <2>5 DEF FileOK
<1>3. WorkerInv'
  BY DEF WorkerInv
<1>4. TypeOK'
  <2>1. \A m \in DOMAIN pending' : pending'[m] \in Job
    BY <1>2 DEF JobsInv, FileOK, Sound
  <2> QED
    BY <1>1, <2>1 DEF QueueInv, TypeOK, world, LastType, ShownType, Copies
<1>5. CommittedInv'
  BY DEF QueueInv, CommittedInv, world
<1>6. RefreshInv'
  <2>1. \A k \in 0..saves : Kept(k) => Kept(k)'
    <3> SUFFICES ASSUME NEW k \in 0..saves, Reads(k), Initial \in DOMAIN pending
                 PROVE  Reads(k)'
      BY DEF Kept
    <3>1. CASE n = Initial
      BY <3>1
    <3>2. CASE n # Initial
      <4>1. pending'[Initial] = pending[Initial]
        BY <3>2
      <4>2. worker'.pc # "idle" => worker'.name # Initial
        BY <3>2
      <4> QED
        BY <4>1, <4>2 DEF Reads
    <3> QED
      BY <3>1, <3>2
  <2>2. owed \in 0..saves /\ saves \in 0..saves
    BY <1>1 DEF QueueInv, RefreshInv
  <2>3. UNCHANGED <<owed, saves, wake, completed, failed>>
    BY DEF world
  <2>4. /\ Kept(owed)'
        /\ wake = "enqueue" =>
               Kept(saves)' \/ Initial \notin DOMAIN pending \cup completed \cup failed
    <3>1. /\ Kept(owed)
          /\ wake = "enqueue" =>
                 Kept(saves) \/ Initial \notin DOMAIN pending \cup completed \cup failed
      BY DEF QueueInv, RefreshInv
    <3>2. \A k : k = owed \/ k = saves => (Kept(k) => Kept(k)')
      BY <2>1, <2>2
    <3>3. (Kept(owed) => Kept(owed)') /\ (Kept(saves) => Kept(saves)')
      <4>1. PICK o : o = owed
        OBVIOUS
      <4>2. PICK s : s = saves
        OBVIOUS
      <4>3. Kept(o) => Kept(o)'
        BY <3>2, <4>1
      <4>4. Kept(s) => Kept(s)'
        BY <3>2, <4>2
      <4>5. o = owed' /\ s = saves'
        BY <2>3, <4>1, <4>2
      <4> QED
        BY <4>1, <4>2, <4>3, <4>4, <4>5 DEF Kept, Reads
    <3> QED
      BY <3>1, <3>3
  <2> QED
    BY <2>3, <2>4 DEF QueueInv, RefreshInv
<1>7. DuplicatesNeedFaults'
  <2> SUFFICES ASSUME NEW m \in Names, NEW p \in 1..Parts, m # n
               PROVE  accepted[m][p] <= 1 + faults'
    BY DEF DuplicatesNeedFaults
  <2>1. accepted[m][p] <= 1 + faults /\ accepted[m][p] \in Nat
    BY <1>1 DEF QueueInv, DuplicatesNeedFaults, Copies
  <2> QED
    BY <1>1, <2>1
<1> QED
  BY <1>2, <1>3, <1>4, <1>5, <1>6, <1>7 DEF QueueInv

\* The worker goes on, or gives up at the price of a fault; the files stay.
LEMMA WorkerTurns ==
    ASSUME QueueInv, ConstantsAssumption, NEW n \in DOMAIN pending, NEW w \in WorkerLocal,
           worker' = w,
           UNCHANGED <<pending, completed, failed, world, served, accepted, shown>>,
           last' \in LastType, faults' \in Nat, faults <= faults',
           worker.pc = "idle" \/ worker.name = n,
           w.pc = "idle" => worker.pc = "idle" \/ faults < faults',
           w.pc # "idle" => w.name = n /\ WorkerOK(accepted, faults', w),
           w.pc # "idle" /\ n = Initial => \A k \in 0..saves : Reads(k) =>
               w.item.refresh \/ pending[Initial].refresh \/ w.item.asOf >= k
    PROVE  QueueInv'
<1>1. /\ DOMAIN pending \subseteq Names /\ accepted \in Copies /\ faults \in Nat
      /\ shown' \in ShownType /\ n \in Names
  BY DEF QueueInv, TypeOK, Copies, ShownType
<1>2. \A p \in 1..Parts : accepted[n][p] <= 1 + faults /\ accepted[n][p] \in Nat
  BY <1>1 DEF QueueInv, DuplicatesNeedFaults, Copies
<1>3. \A p \in 1..Parts : accepted[n][p] <= 1 + faults'
  BY <1>1, <1>2
<1>4. FileOK(accepted, faults, worker, n, pending[n])
  BY DEF QueueInv, JobsInv
<1>5. FileOK(accepted, faults', w, n, pending[n])
  <2>1. CASE w.pc # "idle"
    BY <1>4, <2>1 DEF FileOK
  <2>2. CASE w.pc = "idle" /\ worker.pc = "idle"
    <3>1. Spare(accepted, faults, n, pending[n], pending[n].next)
      BY <1>4, <2>2 DEF FileOK
    <3>2. Spare(accepted, faults', n, pending[n], pending[n].next)
      BY <1>1, <1>2, <3>1 DEF Spare
    <3> QED
      BY <1>4, <3>2 DEF FileOK
  <2>3. CASE faults < faults'
    <3>1. \A p \in 1..Parts : accepted[n][p] <= faults'
      BY <1>1, <1>2, <2>3
    <3> QED
      BY <1>4, <3>1 DEF FileOK, Spare
  <2> QED
    BY <2>1, <2>2, <2>3
<1>6. n = Initial => \A k \in 0..saves : Reads(k) => Reads(k)'
  BY DEF Reads
<1>7. /\ accepted' = accepted /\ pending' = pending /\ DOMAIN pending' = DOMAIN pending
      /\ UNCHANGED <<completed, failed, world, served>>
  OBVIOUS
<1>8. /\ worker' \in WorkerLocal /\ FileOK(accepted', faults', worker', n, pending'[n])
      /\ worker'.pc # "idle" => worker'.name = n /\ WorkerOK(accepted', faults', worker')
  BY <1>5, <1>7
<1>9. /\ accepted' \in Copies /\ \A m \in Names \ {n} : accepted'[m] = accepted[m]
      /\ \A p \in 1..Parts : accepted'[n][p] <= 1 + faults'
      /\ \A m \in DOMAIN pending \ {n} : pending'[m] = pending[m]
  BY <1>1, <1>3, <1>7
<1> QED
  BY <1>1, <1>6, <1>7, <1>8, <1>9, WorkerStepSound

\* More copies are spare when more faults happened.
LEMMA WorkerOKLater ==
    ASSUME NEW acc, NEW f \in Nat, NEW g \in Nat, f <= g, NEW w, WorkerOK(acc, f, w),
           \A p \in 1..Parts : acc[w.name][p] \in Nat
    PROVE  WorkerOK(acc, g, w)
<1>1. ~Drafting(w) => Spare(acc, g, w.name, w.item, Handed(w))
  BY DEF WorkerOK, Spare
<1> QED
  BY <1>1 DEF WorkerOK

\* The job in the worker's hands goes back for good or for another attempt.
LEMMA WorkerAt ==
    ASSUME QueueInv, ConstantsAssumption, worker.pc # "idle", NEW pc \in WorkerPcs \ {"idle"},
           NEW item \in Job, At(pc, item),
           UNCHANGED <<pending, completed, failed, world, served, accepted, shown>>,
           last' \in LastType, faults' \in Nat, faults <= faults',
           item.asOf = worker.item.asOf, item.refresh = worker.item.refresh,
           LET w == [worker EXCEPT !.pc = pc, !.item = item]
           IN  WorkerOK(accepted, faults', w)
    PROVE  QueueInv'
<1>1. worker \in WorkerLocal
  BY DEF QueueInv, TypeOK
<1> DEFINE w == [worker EXCEPT !.pc = pc, !.item = item]
<1>2. /\ w \in WorkerLocal /\ w.pc = pc /\ w.item = item /\ w.name = worker.name
      /\ worker' = w
  BY <1>1 DEF WorkerLocal, At
<1>3. worker.name \in DOMAIN pending
  BY DEF QueueInv, WorkerInv
<1>4. WorkerOK(accepted, faults', w)
  OBVIOUS
<1> HIDE DEF w
<1>5. worker.name = Initial => \A k \in 0..saves : Reads(k) =>
          w.item.refresh \/ pending[Initial].refresh \/ w.item.asOf >= k
  BY <1>2 DEF Reads
<1>6. w.pc # "idle"
  BY <1>2
<1> QED
  BY <1>2, <1>3, <1>4, <1>5, <1>6, WorkerTurns

-----------------------------------------------------------------------------
(* The worker's own steps                                                   *)

\* What a worker with a job may count on.
LEMMA Holding ==
    ASSUME QueueInv, worker.pc # "idle"
    PROVE  /\ worker \in WorkerLocal /\ worker.name \in DOMAIN pending /\ worker.name \in Names
           /\ WorkerOK(accepted, faults, worker) /\ worker.item \in Job
           /\ faults \in Nat /\ last \in LastType /\ shown \in ShownType /\ accepted \in Copies
           /\ \A p \in 1..Parts : /\ accepted[worker.name][p] \in Nat
                                  /\ accepted[worker.name][p] <= 1 + faults
<1>1. /\ worker \in WorkerLocal /\ worker.name \in DOMAIN pending /\ worker.name \in Names
      /\ WorkerOK(accepted, faults, worker) /\ accepted \in Copies /\ faults \in Nat
      /\ last \in LastType /\ shown \in ShownType
  BY DEF QueueInv, TypeOK, WorkerInv, Copies, LastType, ShownType
<1> QED
  BY <1>1 DEF QueueInv, DuplicatesNeedFaults, Copies, WorkerOK, Sound

\* One fault more, or none.
LEMMA FaultCounts ==
    ASSUME QueueInv
    PROVE  /\ \A kind \in {"kill", "cancel", "write", "answer"} :
                 Fault(kind) => faults' \in Nat /\ faults < faults' /\ faults <= faults'
           /\ UNCHANGED faults => faults' \in Nat /\ faults <= faults'
BY DEF QueueInv, TypeOK, Fault

\* A job goes to be saved.
LEMMA GoesToSave ==
    ASSUME QueueInv, ConstantsAssumption, worker.pc # "idle", NEW item \in Job, At("save", item),
           UNCHANGED <<pending, completed, failed, world, served, accepted, shown>>,
           last' \in LastType, faults' \in Nat, faults <= faults',
           item.asOf = worker.item.asOf, item.refresh = worker.item.refresh,
           Sound(accepted, worker.name, item),
           item.status = "pending" =>
               /\ item.error => item.attempts < MaxAttempts
               /\ Spare(accepted, faults', worker.name, item, item.next)
    PROVE  QueueInv'
<1> DEFINE w == [worker EXCEPT !.pc = "save", !.item = item]
<1>1. /\ w.pc = "save" /\ w.item = item /\ w.name = worker.name
  BY Holding DEF WorkerLocal
<1> HIDE DEF w
<1>2. WorkerOK(accepted, faults', w)
  BY <1>1 DEF WorkerOK, Working, Drafting, Handed, Spare
<1>3. WorkerOK(accepted, faults', [worker EXCEPT !.pc = "save", !.item = item])
  BY <1>2 DEF w
<1>4. "save" \in WorkerPcs \ {"idle"}
  BY DEF WorkerPcs
<1> QED
  BY <1>3, <1>4, WorkerAt

LEMMA SkipSound ==
    ASSUME QueueInv, ConstantsAssumption, worker.pc # "idle", Skip(worker.item),
           UNCHANGED <<pending, completed, failed, world, served, accepted, shown>>,
           last' \in LastType, faults' \in Nat, faults <= faults'
    PROVE  QueueInv'
<1> DEFINE item == [worker.item EXCEPT !.status = "skipped", !.error = TRUE]
<1>1. worker.item \in Job /\ Sound(accepted, worker.name, worker.item)
  BY Holding DEF WorkerOK
<1>2. /\ item \in Job /\ item.status = "skipped" /\ item.asOf = worker.item.asOf
      /\ item.refresh = worker.item.refresh /\ item.next = worker.item.next
      /\ item.period = worker.item.period
  BY <1>1 DEF Job
<1>3. At("save", item)
  BY DEF Skip
<1> HIDE DEF item
<1>4. Sound(accepted, worker.name, item)
  BY <1>1, <1>2 DEF Sound, Frozen
<1> QED
  BY <1>2, <1>3, <1>4, GoesToSave

\* Another attempt, or the last one failed; the body may be taken back.
LEMMA RetrySound ==
    ASSUME QueueInv, ConstantsAssumption, worker.pc \in Working, NEW j \in Job, Retry(j),
           UNCHANGED <<pending, completed, failed, world, served, accepted, shown>>,
           last' \in LastType, faults' \in Nat, faults <= faults',
           j.status = "pending", j.attempts = worker.item.attempts, j.next = worker.item.next,
           j.asOf = worker.item.asOf, j.refresh = worker.item.refresh,
           ~Frozen(j) => j.next = 0,
           Spare(accepted, faults', worker.name, j, j.next) \/ ~Frozen(j)
    PROVE  QueueInv'
<1>1. /\ worker.item \in Job /\ Sound(accepted, worker.name, worker.item)
      /\ worker.item.attempts < MaxAttempts /\ worker.item.status = "pending"
      /\ worker.pc # "idle"
  BY Holding DEF WorkerOK, Working
<1> DEFINE n    == j.attempts + 1
           item == [j EXCEPT !.attempts = n, !.error = TRUE, !.waiting = n < MaxAttempts,
                             !.status = IF n < MaxAttempts THEN "pending" ELSE "failed"]
<1>2. n \in 0..MaxAttempts
  BY <1>1 DEF Job, ConstantsAssumption
<1>3. (n < MaxAttempts) \in BOOLEAN
  OBVIOUS
<1>4. At("save", item)
  BY DEF Retry
<1> HIDE DEF n
<1>5. /\ item \in Job /\ item.status = IF n < MaxAttempts THEN "pending" ELSE "failed"
      /\ item.asOf = j.asOf /\ item.refresh = j.refresh /\ item.next = j.next
      /\ item.period = j.period /\ item.attempts = n
  BY <1>2, <1>3 DEF Job
<1> HIDE DEF item
<1>6. Sound(accepted, worker.name, item)
  BY <1>1, <1>5 DEF Sound, Frozen
<1>7. item.status = "pending" =>
          item.attempts < MaxAttempts /\ Spare(accepted, faults', worker.name, item, item.next)
  BY <1>5 DEF Spare, Frozen
<1> QED
  BY <1>1, <1>4, <1>5, <1>6, <1>7, GoesToSave

LEMMA EnabledSound ==
    ASSUME QueueInv, ConstantsAssumption, Enabled
    PROVE  QueueInv'
<1>1. /\ worker.pc = "enabled" /\ worker.pc # "idle" /\ worker.pc \in Working
      /\ UNCHANGED <<pending, completed, failed, world, served, accepted, shown>>
      /\ UNCHANGED <<last, faults>>
  BY DEF Enabled, Working, history
<1>2. /\ worker \in WorkerLocal /\ worker.item \in Job /\ WorkerOK(accepted, faults, worker)
      /\ faults' \in Nat /\ faults <= faults' /\ last' \in LastType
  BY <1>1, Holding, FaultCounts
<1>3. CASE Skip(worker.item)
  BY <1>1, <1>2, <1>3, SkipSound
<1>4. CASE At(IF Frozen(worker.item) THEN "needs" ELSE "snapshot", worker.item)
  <2> DEFINE pc == IF Frozen(worker.item) THEN "needs" ELSE "snapshot"
             w  == [worker EXCEPT !.pc = pc, !.item = worker.item]
  <2>1. /\ w.pc = pc /\ w.item = worker.item /\ w.name = worker.name /\ w.fresh = worker.fresh
        /\ pc \in WorkerPcs \ {"idle"}
    BY <1>2 DEF WorkerLocal, WorkerPcs
  <2>2. WorkerOK(accepted, faults', w)
    <3> HIDE DEF w
    <3>1. /\ Sound(accepted, w.name, w.item)
          /\ w.item.status = "pending" /\ w.item.attempts < MaxAttempts
      BY <1>1, <1>2, <2>1 DEF WorkerOK, Working
    <3>2. Spare(accepted, faults', w.name, w.item, Handed(w))
      BY <1>1, <1>2, <2>1 DEF WorkerOK, Drafting, Handed, Spare
    <3>3. Drafting(w) => w.item.next = 0
      BY <1>1, <1>2, <2>1 DEF Drafting, WorkerOK, Sound
    <3>4. ~w.fresh
      BY <1>1, <1>2, <2>1 DEF WorkerOK
    <3> QED
      BY <2>1, <3>1, <3>2, <3>3, <3>4 DEF WorkerOK
  <2>3. At(pc, worker.item)
    BY <1>4
  <2> HIDE DEF pc
  <2> QED
    BY <1>1, <1>2, <2>1, <2>2, <2>3, WorkerAt
<1>5. CASE Retry(worker.item)
  <2>1. /\ worker.item.status = "pending" /\ (~Frozen(worker.item) => worker.item.next = 0)
        /\ Spare(accepted, faults', worker.name, worker.item, worker.item.next)
    BY <1>1, <1>2 DEF WorkerOK, Working, Sound, Drafting, Handed
  <2> QED
    BY <1>1, <1>2, <1>5, <2>1, RetrySound
<1> QED
  BY <1>3, <1>4, <1>5 DEF Enabled

\* The day of a check-in, or of the tick, is what a summary is about.
LEMMA SummaryTypes ==
    ASSUME QueueInv, worker.pc # "idle", NEW s \in Summaries
    PROVE  s.period \in Days /\ s.content \in SUBSET Records
<1>1. worker \in WorkerLocal /\ worker.name \in DOMAIN pending
  BY Holding
<1>2. CASE worker.name = Initial
  BY <1>1, <1>2 DEF Summaries, WorkerLocal, Committed
<1>3. CASE worker.name # Initial
  <2>1. checkins[worker.name] \in Days
    BY <1>1, <1>3 DEF QueueInv, CommittedInv
  <2> QED
    BY <1>3, <2>1 DEF Summaries, Committed
<1> QED
  BY <1>2, <1>3

LEMMA SnapshotSound ==
    ASSUME QueueInv, ConstantsAssumption, Snapshot
    PROVE  QueueInv'
<1>1. /\ worker.pc = "snapshot" /\ worker.pc # "idle" /\ worker.pc \in Working
      /\ UNCHANGED <<pending, completed, failed, world, served, accepted, shown>>
      /\ UNCHANGED <<last, faults>>
  BY DEF Snapshot, Working, history
<1>2. /\ worker \in WorkerLocal /\ worker.item \in Job /\ WorkerOK(accepted, faults, worker)
      /\ faults' \in Nat /\ faults <= faults' /\ last' \in LastType
      /\ worker.name \in DOMAIN pending
  BY <1>1, Holding, FaultCounts
<1>3. /\ worker.item.status = "pending" /\ worker.item.attempts < MaxAttempts
      /\ ~Frozen(worker.item) /\ worker.item.next = 0
      /\ Sound(accepted, worker.name, worker.item)
      /\ Spare(accepted, faults', worker.name, worker.item, worker.item.next)
  BY <1>1, <1>2 DEF WorkerOK, Working, Sound, Drafting, Handed
<1>4. CASE Skip(worker.item)
  BY <1>1, <1>2, <1>4, SkipSound
<1>5. ASSUME NEW s \in Summaries,
             worker' = [worker EXCEPT !.pc = "needs", !.fresh = TRUE,
                          !.item.period = s.period, !.item.content = s.content]
      PROVE  QueueInv'
  <2>1. s.period \in Days /\ s.content \in SUBSET Records
    BY <1>1, SummaryTypes
  <2> DEFINE item == [worker.item EXCEPT !.period = s.period, !.content = s.content]
             w    == [worker EXCEPT !.pc = "needs", !.fresh = TRUE, !.item = item]
  <2>2. /\ item \in Job /\ item.status = "pending" /\ item.next = 0 /\ item.attempts < MaxAttempts
        /\ item.asOf = worker.item.asOf /\ item.refresh = worker.item.refresh
        /\ item.period = s.period
    BY <1>2, <1>3, <2>1 DEF Job
  <2>3. worker' = w
    BY <1>2, <1>5 DEF WorkerLocal, Job
  <2> HIDE DEF item
  <2>4. /\ w \in WorkerLocal /\ w.pc = "needs" /\ w.item = item /\ w.name = worker.name /\ w.fresh
    BY <1>2, <2>2 DEF WorkerLocal, WorkerPcs
  <2> HIDE DEF w
  <2>5. WorkerOK(accepted, faults', w)
    <3>1. s.period # NoDay
      BY <2>1 DEF Days, NoDay
    <3> QED
      BY <2>2, <2>4, <3>1 DEF WorkerOK, Working, Sound, Frozen, Drafting
  <2>6. worker.name = Initial => \A k \in 0..saves : Reads(k) =>
            w.item.refresh \/ pending[Initial].refresh \/ w.item.asOf >= k
    BY <1>1, <2>2, <2>4 DEF Reads
  <2> QED
    BY <1>1, <1>2, <2>3, <2>4, <2>5, <2>6, WorkerTurns
<1>6. CASE Retry(worker.item)
  BY <1>1, <1>2, <1>3, <1>6, RetrySound
<1> QED
  BY <1>4, <1>5, <1>6 DEF Snapshot

\* A frozen body goes to be sent, unless its day is over or all of it is out.
LEMMA ProceedOK ==
    ASSUME ConstantsAssumption, worker \in WorkerLocal, NEW acc, NEW f, NEW item \in Job,
           Proceed(item), Frozen(item), Sound(acc, worker.name, item),
           item.status = "pending", item.attempts < MaxAttempts,
           Spare(acc, f, worker.name, item, item.next)
    PROVE  /\ worker' \in WorkerLocal /\ worker'.pc # "idle" /\ worker'.name = worker.name
           /\ worker'.item.asOf = item.asOf /\ worker'.item.refresh = item.refresh
           /\ WorkerOK(acc, f, worker')
<1>1. /\ \A p \in 1..item.next : acc[worker.name][p] > 0
      /\ item.next \in 0..Parts /\ Parts \in Nat \ {0}
  BY DEF Sound, Job, ConstantsAssumption
<1>2. CASE Skip(item)
  <2> DEFINE j == [item EXCEPT !.status = "skipped", !.error = TRUE]
  <2>1. /\ j \in Job /\ j.status = "skipped" /\ j.asOf = item.asOf /\ j.refresh = item.refresh
        /\ j.next = item.next /\ j.period = item.period
    BY DEF Job
  <2>2. worker' = [worker EXCEPT !.pc = "save", !.item = j]
    BY <1>2 DEF Skip, At
  <2> HIDE DEF j
  <2>3. /\ worker' \in WorkerLocal /\ worker'.pc = "save" /\ worker'.item = j
        /\ worker'.name = worker.name
    BY <2>1, <2>2 DEF WorkerLocal, WorkerPcs
  <2> QED
    BY <2>1, <2>3 DEF WorkerOK, Working, Sound, Frozen, Drafting, Handed, Spare
<1>3. CASE item.next = Parts /\ At("save", [item EXCEPT !.status = "sent"])
  <2> DEFINE j == [item EXCEPT !.status = "sent"]
  <2>1. /\ j \in Job /\ j.status = "sent" /\ j.asOf = item.asOf /\ j.refresh = item.refresh
        /\ j.next = item.next /\ j.period = item.period
    BY DEF Job
  <2>2. worker' = [worker EXCEPT !.pc = "save", !.item = j]
    BY <1>3 DEF At
  <2> HIDE DEF j
  <2>3. /\ worker' \in WorkerLocal /\ worker'.pc = "save" /\ worker'.item = j
        /\ worker'.name = worker.name
    BY <2>1, <2>2 DEF WorkerLocal, WorkerPcs
  <2>4. Sound(acc, worker'.name, worker'.item)
    BY <1>1, <1>3, <2>1, <2>3 DEF Sound, Frozen
  <2> QED
    BY <2>1, <2>3, <2>4 DEF WorkerOK, Working, Drafting, Handed, Spare
<1>4. CASE item.next # Parts /\ At("send", item)
  <2>1. /\ worker' \in WorkerLocal /\ worker'.pc = "send" /\ worker'.item = item
        /\ worker'.name = worker.name
    BY <1>4 DEF At, WorkerLocal, WorkerPcs
  <2>2. item.next < Parts
    BY <1>1, <1>4
  <2> QED
    BY <2>1, <2>2 DEF WorkerOK, Working, Drafting, Handed, Spare
<1> QED
  BY <1>2, <1>3, <1>4 DEF Proceed

\* What the coverage of a summary is.
LEMMA CoveredType ==
    ASSUME ConstantsAssumption, NEW n \in Names, NEW j \in Job
    PROVE  Covered(n, j) \in Nat
<1>1. Highest(j.content) \in Nat
  BY HighestType DEF Job
<1>2. n \in Nat
  <2>1. \A r \in Records : r \in Nat
    BY DEF ConstantsAssumption
  <2> QED
    BY <2>1 DEF Names, Initial
<1> QED
  BY <1>1, <1>2 DEF Covered, Larger

LEMMA CheckNeedsSendSound ==
    ASSUME QueueInv, ConstantsAssumption, CheckNeedsSend
    PROVE  QueueInv'
<1>1. /\ worker.pc = "needs" /\ worker.pc # "idle" /\ worker.pc \in Working
      /\ UNCHANGED <<pending, completed, failed, world, served, accepted, shown>>
  BY DEF CheckNeedsSend, Working, history
<1>2. /\ worker \in WorkerLocal /\ worker.item \in Job /\ WorkerOK(accepted, faults, worker)
      /\ worker.name \in DOMAIN pending /\ worker.name \in Names /\ last \in LastType
  BY <1>1, Holding
<1>3. /\ worker.item.status = "pending" /\ worker.item.attempts < MaxAttempts
      /\ Frozen(worker.item) /\ Sound(accepted, worker.name, worker.item)
      /\ worker.fresh => worker.item.next = 0
  BY <1>1, <1>2 DEF WorkerOK, Working, Drafting
<1>4. faults' \in Nat /\ faults <= faults'
  BY FaultCounts DEF CheckNeedsSend
<1>5. ~worker.fresh => Spare(accepted, faults, worker.name, worker.item, worker.item.next)
  BY <1>1, <1>2 DEF WorkerOK, Drafting, Handed
<1>6. ~worker.fresh => Spare(accepted, faults', worker.name, worker.item, worker.item.next)
  <2>1. /\ faults \in Nat /\ \A p \in 1..Parts : accepted[worker.name][p] \in Nat
    BY <1>1, Holding
  <2> QED
    BY <1>4, <1>5, <2>1 DEF Spare
<1>7. CASE NeedsSend(worker.name, worker.item) /\ UNCHANGED <<last, faults>>
           /\ worker.fresh /\ At("freeze", worker.item)
  <2> DEFINE w == [worker EXCEPT !.pc = "freeze", !.item = worker.item]
  <2>1. /\ w.pc = "freeze" /\ w.item = worker.item /\ w.name = worker.name /\ w.fresh
    BY <1>2, <1>7 DEF WorkerLocal
  <2>2. "freeze" \in WorkerPcs \ {"idle"}
    BY DEF WorkerPcs
  <2> HIDE DEF w
  <2>3. WorkerOK(accepted, faults', w)
    BY <1>3, <1>7, <2>1 DEF WorkerOK, Working, Drafting
  <2>4. WorkerOK(accepted, faults', [worker EXCEPT !.pc = "freeze", !.item = worker.item])
    BY <2>3 DEF w
  <2> QED
    BY <1>1, <1>2, <1>4, <1>7, <2>2, <2>4, WorkerAt
<1>8. CASE UNCHANGED <<last, faults>> /\ ~worker.fresh /\ Proceed(worker.item)
  <2>1. /\ worker' \in WorkerLocal /\ worker'.pc # "idle" /\ worker'.name = worker.name
        /\ worker'.item.asOf = worker.item.asOf /\ worker'.item.refresh = worker.item.refresh
        /\ WorkerOK(accepted, faults', worker')
    BY <1>2, <1>3, <1>6, <1>8, ProceedOK
  <2>2. worker.name = Initial => \A k \in 0..saves : Reads(k) =>
            worker'.item.refresh \/ pending[Initial].refresh \/ worker'.item.asOf >= k
    BY <1>1, <2>1 DEF Reads
  <2>3. PICK w \in WorkerLocal : w = worker'
    BY <2>1
  <2> QED
    BY <1>1, <1>2, <1>4, <1>8, <2>1, <2>2, <2>3, WorkerTurns
<1>9. CASE /\ Skip(worker.item)
           /\ \/ last' = last
              \/ last' = [last EXCEPT !.covered = Larger(@, Covered(worker.name, worker.item))]
  <2>1. Covered(worker.name, worker.item) \in Nat
    BY <1>2, CoveredType
  <2>2. last' \in LastType
    BY <1>2, <1>9, <2>1 DEF LastType, Larger
  <2> QED
    BY <1>1, <1>4, <1>9, <2>2, SkipSound
<1>10. CASE /\ UNCHANGED last
            /\ Retry(IF worker.fresh THEN [worker.item EXCEPT !.period = NoDay, !.content = {}]
                     ELSE worker.item)
  <2>1. CASE worker.fresh
    <3> DEFINE j == [worker.item EXCEPT !.period = NoDay, !.content = {}]
    <3>1. /\ j \in Job /\ j.status = "pending" /\ j.next = worker.item.next
          /\ j.asOf = worker.item.asOf /\ j.refresh = worker.item.refresh
          /\ j.attempts = worker.item.attempts /\ j.period = NoDay
      BY <1>2, <1>3 DEF Job
    <3>2. Retry(j)
      BY <1>10, <2>1
    <3> HIDE DEF j
    <3>3. ~Frozen(j) /\ j.next = 0
      BY <1>3, <2>1, <3>1 DEF Frozen
    <3> QED
      BY <1>1, <1>2, <1>4, <1>10, <3>1, <3>2, <3>3, RetrySound
  <2>2. CASE ~worker.fresh
    BY <1>1, <1>2, <1>3, <1>4, <1>6, <1>10, <2>2, RetrySound
  <2> QED
    BY <2>1, <2>2
<1> QED
  BY <1>7, <1>8, <1>9, <1>10 DEF CheckNeedsSend

LEMMA AnsweredSound ==
    ASSUME QueueInv, ConstantsAssumption, Answered
    PROVE  QueueInv'
<1>1. /\ worker.pc = "answer" /\ worker.pc # "idle" /\ worker.pc \in Working
      /\ UNCHANGED <<pending, completed, failed, world, served, accepted, shown>>
      /\ UNCHANGED <<last, faults>>
  BY DEF Answered, Working, history
<1>2. /\ worker \in WorkerLocal /\ worker.item \in Job /\ WorkerOK(accepted, faults, worker)
      /\ last' \in LastType /\ faults' \in Nat /\ faults <= faults'
  BY <1>1, Holding, FaultCounts
<1>3. /\ worker.item.status = "pending" /\ worker.item.attempts < MaxAttempts
      /\ worker.item.next < Parts /\ Frozen(worker.item)
      /\ Sound(accepted, worker.name, worker.item)
      /\ Spare(accepted, faults, worker.name, worker.item, Handed(worker))
  BY <1>1, <1>2 DEF WorkerOK, Working, Drafting
<1>4. /\ worker.item.next \in Nat /\ worker.item.next + 1 \in 0..Parts
      /\ worker.item.attempts + 1 \in 0..MaxAttempts
  BY <1>2, <1>3 DEF Job, ConstantsAssumption
<1>5. CASE worker.answer = "ok" /\
             At("save", [worker.item EXCEPT !.next = @ + 1, !.error = FALSE, !.attempts = @ + 1,
                           !.status = IF worker.item.next + 1 = Parts THEN "sent" ELSE "pending"])
  <2> DEFINE item == [worker.item EXCEPT !.next = @ + 1, !.error = FALSE, !.attempts = @ + 1,
                        !.status = IF worker.item.next + 1 = Parts THEN "sent" ELSE "pending"]
  <2>1. /\ item \in Job /\ item.asOf = worker.item.asOf /\ item.refresh = worker.item.refresh
        /\ item.next = worker.item.next + 1 /\ item.error = FALSE
        /\ item.period = worker.item.period
        /\ item.status = IF worker.item.next + 1 = Parts THEN "sent" ELSE "pending"
    BY <1>2, <1>4 DEF Job
  <2>2. At("save", item)
    BY <1>5
  <2> HIDE DEF item
  <2>3. accepted[worker.name][worker.item.next + 1] > 0
    BY <1>1, <1>2, <1>5 DEF WorkerOK
  <2>4. \A p \in 1..item.next : accepted[worker.name][p] > 0
    <3>1. \A p \in 1..item.next : p \in 1..worker.item.next \/ p = worker.item.next + 1
      BY <1>4, <2>1
    <3> QED
      BY <1>3, <2>3, <3>1 DEF Sound
  <2>5. Sound(accepted, worker.name, item)
    BY <1>3, <2>1, <2>4 DEF Sound, Frozen
  <2>6. Spare(accepted, faults', worker.name, item, item.next)
    <3>1. Handed(worker) = item.next
      BY <1>1, <1>5, <2>1 DEF Handed
    <3> QED
      BY <1>1, <1>3, <3>1 DEF Spare
  <2> QED
    BY <1>1, <1>2, <2>1, <2>2, <2>5, <2>6, GoesToSave
<1>6. CASE worker.answer = "retry" /\ Retry(worker.item)
  <2>1. Spare(accepted, faults', worker.name, worker.item, worker.item.next)
    BY <1>1, <1>3, <1>6 DEF Handed
  <2> QED
    BY <1>1, <1>2, <1>3, <1>6, <2>1, RetrySound
<1>7. CASE At("save", [worker.item EXCEPT !.status = "failed", !.error = TRUE, !.attempts = @ + 1])
  <2> DEFINE item == [worker.item EXCEPT !.status = "failed", !.error = TRUE, !.attempts = @ + 1]
  <2>1. /\ item \in Job /\ item.asOf = worker.item.asOf /\ item.refresh = worker.item.refresh
        /\ item.next = worker.item.next /\ item.period = worker.item.period
        /\ item.status = "failed"
    BY <1>2, <1>4 DEF Job
  <2>2. At("save", item)
    BY <1>7
  <2> HIDE DEF item
  <2>3. Sound(accepted, worker.name, item)
    BY <1>3, <2>1 DEF Sound, Frozen
  <2> QED
    BY <1>1, <1>2, <2>1, <2>2, <2>3, GoesToSave
<1> QED
  BY <1>5, <1>6, <1>7 DEF Answered

LEMMA RecordSound ==
    ASSUME QueueInv, ConstantsAssumption, Record
    PROVE  QueueInv'
<1>1. /\ worker.pc = "record" /\ worker.pc # "idle"
      /\ UNCHANGED <<pending, completed, failed, world, served, accepted, shown>>
  BY DEF Record, history
<1>2. /\ worker \in WorkerLocal /\ worker.item \in Job /\ WorkerOK(accepted, faults, worker)
      /\ worker.name \in DOMAIN pending /\ worker.name \in Names /\ last \in LastType
  BY <1>1, Holding
<1>3. worker.item.status = "sent" /\ Sound(accepted, worker.name, worker.item)
  BY <1>1, <1>2 DEF WorkerOK
<1>4. faults' \in Nat /\ faults <= faults'
  BY FaultCounts DEF Record
<1>5. CASE /\ last' = [period |-> worker.item.period, content |-> worker.item.content,
                       covered |-> IF last.period = worker.item.period
                                   THEN Larger(Covered(worker.name, worker.item), last.covered)
                                   ELSE Covered(worker.name, worker.item)]
           /\ At("finalize", worker.item) /\ UNCHANGED faults
  <2>1. Covered(worker.name, worker.item) \in Nat
    BY <1>2, CoveredType
  <2>2. last' \in LastType
    BY <1>2, <1>5, <2>1 DEF LastType, Larger, Job
  <2> DEFINE w == [worker EXCEPT !.pc = "finalize", !.item = worker.item]
  <2>3. /\ w.pc = "finalize" /\ w.item = worker.item /\ w.name = worker.name
    BY <1>2 DEF WorkerLocal
  <2>4. "finalize" \in WorkerPcs \ {"idle"}
    BY DEF WorkerPcs
  <2> HIDE DEF w
  <2>5. WorkerOK(accepted, faults', w)
    BY <1>3, <2>3 DEF WorkerOK, Working, Drafting, Handed, Spare
  <2>6. WorkerOK(accepted, faults', [worker EXCEPT !.pc = "finalize", !.item = worker.item])
    BY <2>5 DEF w
  <2> QED
    BY <1>1, <1>2, <1>4, <1>5, <2>2, <2>4, <2>6, WorkerAt
<1>6. CASE Fault("write") /\ Stop /\ UNCHANGED last
  <2>1. IdleWorker \in WorkerLocal /\ IdleWorker.pc = "idle" /\ worker' = IdleWorker
    BY <1>6, IdleType DEF Stop
  <2>2. faults < faults'
    BY <1>6, FaultCounts
  <2> HIDE DEF IdleWorker
  <2> QED
    BY <1>1, <1>2, <1>4, <1>6, <2>1, <2>2, WorkerTurns
<1> QED
  BY <1>5, <1>6 DEF Record

\* A step that is given up costs a fault.
LEMMA StopSound ==
    ASSUME QueueInv, ConstantsAssumption, worker.pc # "idle", Stop,
           NEW kind \in {"kill", "cancel", "write", "answer"}, Fault(kind),
           UNCHANGED <<pending, completed, failed, world, served, accepted, shown, last>>
    PROVE  QueueInv'
<1>1. IdleWorker \in WorkerLocal /\ IdleWorker.pc = "idle" /\ worker' = IdleWorker
  BY IdleType DEF Stop
<1>2. faults < faults' /\ faults' \in Nat /\ faults <= faults'
  BY FaultCounts
<1>3. worker.name \in DOMAIN pending /\ last' \in LastType
  BY Holding
<1> QED
  BY <1>1, <1>2, <1>3, WorkerTurns

LEMMA CancelSound ==
    ASSUME QueueInv, ConstantsAssumption, Cancel
    PROVE  QueueInv'
<1>1. worker.pc # "idle" /\ Stop /\ Fault("cancel")
  BY DEF Cancel
<1>2. UNCHANGED <<pending, completed, failed, world, served, accepted, shown, last>>
  BY DEF Cancel, history
<1> QED
  BY <1>1, <1>2, StopSound

\* Writing a file while the chat has what it had.
LEMMA FileWritten ==
    ASSUME QueueInv, ConstantsAssumption, NEW n \in DOMAIN pending, NEW j \in Job,
           NEW w \in WorkerLocal, worker' = w, pending' = [pending EXCEPT ![n] = j],
           UNCHANGED <<completed, failed, last, world, faults, served, accepted, shown>>,
           worker.pc = "idle" \/ worker.name = n,
           w.pc # "idle" => w.name = n /\ WorkerOK(accepted, faults, w),
           FileOK(accepted, faults, w, n, j),
           n = Initial => \A k \in 0..saves : Reads(k) =>
               /\ j.refresh \/ j.asOf >= k \/ (~Frozen(j) /\ j.status = "pending")
               /\ w.pc # "idle" => w.item.refresh \/ j.refresh \/ w.item.asOf >= k
    PROVE  QueueInv'
<1>1. /\ DOMAIN pending \subseteq Names /\ accepted \in Copies /\ faults \in Nat
      /\ shown' \in ShownType /\ last' \in LastType /\ n \in Names
  BY DEF QueueInv, TypeOK, Copies, ShownType, LastType
<1>2. \A p \in 1..Parts : accepted[n][p] <= 1 + faults
  BY <1>1 DEF QueueInv, DuplicatesNeedFaults
<1>3. /\ DOMAIN pending' = DOMAIN pending /\ pending'[n] = j
      /\ \A m \in DOMAIN pending \ {n} : pending'[m] = pending[m]
  OBVIOUS
<1>4. n = Initial => \A k \in 0..saves : Reads(k) => Reads(k)'
  BY <1>3 DEF Reads
<1>5. /\ accepted' = accepted /\ faults' = faults
      /\ UNCHANGED <<completed, failed, world, served>>
  OBVIOUS
<1>6. /\ worker' \in WorkerLocal /\ FileOK(accepted', faults', worker', n, pending'[n])
      /\ worker'.pc # "idle" => worker'.name = n /\ WorkerOK(accepted', faults', worker')
  BY <1>3, <1>5
<1>7. /\ accepted' \in Copies /\ \A m \in Names \ {n} : accepted'[m] = accepted[m]
      /\ \A p \in 1..Parts : accepted'[n][p] <= 1 + faults'
      /\ faults' \in Nat /\ faults <= faults'
  BY <1>1, <1>2, <1>5
<1> QED
  BY <1>1, <1>3, <1>4, <1>5, <1>6, <1>7, WorkerStepSound

\* A refresh asked for meanwhile is kept; the rest of the job is the worker's.
LEMMA MergedJob ==
    ASSUME QueueInv, worker.pc # "idle", NEW j \in Job
    PROVE  /\ Merged(j) \in Job /\ Merged(j).status = j.status /\ Merged(j).next = j.next
           /\ Merged(j).period = j.period /\ Merged(j).attempts = j.attempts
           /\ Merged(j).error = j.error /\ Merged(j).asOf = j.asOf
           /\ Merged(j).content = j.content
           /\ Merged(j).refresh = (j.refresh \/ (worker.name = Initial /\ pending[Initial].refresh))
<1>1. pending[worker.name] \in Job
  BY Holding DEF QueueInv, TypeOK
<1>2. (worker.name = Initial /\ pending[worker.name].refresh) \in BOOLEAN
  BY <1>1 DEF Job
<1>3. Merged(j).refresh = (j.refresh \/ (worker.name = Initial /\ pending[worker.name].refresh))
  BY DEF Merged, Job
<1>4. Merged(j).refresh \in BOOLEAN
  BY <1>3
<1>5. /\ Merged(j).status = j.status /\ Merged(j).next = j.next
      /\ Merged(j).period = j.period /\ Merged(j).attempts = j.attempts
      /\ Merged(j).error = j.error /\ Merged(j).asOf = j.asOf /\ Merged(j).content = j.content
  BY DEF Merged, Job
<1>6. Merged(j) \in Job
  BY <1>2 DEF Merged, Job
<1> QED
  BY <1>3, <1>5, <1>6

LEMMA FreezeSound ==
    ASSUME QueueInv, ConstantsAssumption, freeze
    PROVE  QueueInv'
<1>1. /\ worker.pc = "freeze" /\ worker.pc # "idle"
      /\ UNCHANGED <<completed, failed, last, world, served, shown>>
  BY DEF freeze
<1> DEFINE n == worker.name
           j == Merged(worker.item)
<1>2. /\ worker \in WorkerLocal /\ worker.item \in Job /\ WorkerOK(accepted, faults, worker)
      /\ n \in DOMAIN pending /\ n \in Names /\ last' \in LastType /\ shown' \in ShownType
      /\ accepted \in Copies /\ faults \in Nat
  BY <1>1, Holding
<1>3. /\ worker.item.status = "pending" /\ worker.item.attempts < MaxAttempts
      /\ Frozen(worker.item) /\ worker.item.next = 0
  BY <1>1, <1>2 DEF WorkerOK, Working, Drafting
<1>4. /\ j \in Job /\ j.status = "pending" /\ j.attempts < MaxAttempts /\ j.next = 0
      /\ Frozen(j) /\ j.asOf = worker.item.asOf
      /\ j.refresh = (worker.item.refresh \/ (n = Initial /\ pending[Initial].refresh))
  BY <1>1, <1>2, <1>3, MergedJob DEF Frozen
<1>5. CASE Fault("write") /\ Stop /\ UNCHANGED <<pending, accepted>>
  BY <1>1, <1>5, StopSound
<1>6. CASE /\ pending' = Written(j) /\ Proceed(j) /\ UNCHANGED faults
           /\ accepted' = [accepted EXCEPT ![n] = [p \in 1..Parts |-> 0]]
  <2> HIDE DEF j
  <2>1. pending' = [pending EXCEPT ![n] = j]
    BY <1>6 DEF Written
  <2>2. /\ accepted' \in Copies /\ accepted'[n] = [p \in 1..Parts |-> 0]
        /\ \A m \in Names \ {n} : accepted'[m] = accepted[m]
    BY <1>2, <1>6 DEF Copies
  <2>3. \A p \in 1..Parts : accepted'[n][p] = 0
    BY <2>2
  <2>4. Sound(accepted', n, j) /\ Spare(accepted', faults, n, j, j.next)
    BY <1>2, <1>4, <2>3 DEF Sound, Spare
  <2>5. \E acc : acc = accepted'
    OBVIOUS
  <2>6. /\ worker' \in WorkerLocal /\ worker'.pc # "idle" /\ worker'.name = n
        /\ worker'.item.asOf = j.asOf /\ worker'.item.refresh = j.refresh
        /\ WorkerOK(accepted', faults, worker')
    <3>1. PICK acc : acc = accepted'
      BY <2>5
    <3>2. Sound(acc, worker.name, j) /\ Spare(acc, faults, worker.name, j, j.next)
      BY <2>4, <3>1
    <3>3. /\ worker' \in WorkerLocal /\ worker'.pc # "idle" /\ worker'.name = worker.name
          /\ worker'.item.asOf = j.asOf /\ worker'.item.refresh = j.refresh
          /\ WorkerOK(acc, faults, worker')
      BY <1>2, <1>4, <1>6, <3>2, ProceedOK
    <3> QED
      BY <3>1, <3>3
  <2>7. FileOK(accepted', faults', worker', n, pending'[n])
    <3>1. pending'[n] = j
      BY <1>2, <2>1
    <3> QED
      BY <1>4, <2>4, <2>6, <3>1 DEF FileOK
  <2>8. n = Initial => \A k \in 0..saves : Reads(k) => Reads(k)'
    <3> SUFFICES ASSUME n = Initial, NEW k \in 0..saves, Reads(k) PROVE Reads(k)'
      OBVIOUS
    <3>1. worker.item.refresh \/ pending[Initial].refresh \/ worker.item.asOf >= k
      BY <1>1 DEF Reads
    <3>2. j.refresh \/ j.asOf >= k
      BY <1>4, <3>1
    <3>3. pending'[Initial] = j
      BY <1>2, <2>1
    <3> QED
      BY <2>6, <3>2, <3>3 DEF Reads
  <2>9. /\ DOMAIN pending' = DOMAIN pending
        /\ \A m \in DOMAIN pending \ {n} : pending'[m] = pending[m]
    BY <2>1
  <2>10. /\ faults' \in Nat /\ faults <= faults' /\ faults' = faults
         /\ \A p \in 1..Parts : accepted'[n][p] <= 1 + faults'
    BY <1>2, <1>6, <2>3
  <2>11. worker'.pc # "idle" => worker'.name = n /\ WorkerOK(accepted', faults', worker')
    BY <2>6, <2>10
  <2> QED
    BY <1>1, <1>2, <2>2, <2>6, <2>7, <2>8, <2>9, <2>10, <2>11, WorkerStepSound
<1> QED
  BY <1>5, <1>6 DEF freeze

\* The chat has one copy more of the part, and the worker an answer.
LEMMA DeliveredSound ==
    ASSUME QueueInv, ConstantsAssumption, worker.pc = "send",
           NEW a \in {"ok", "retry"}, worker' = [worker EXCEPT !.pc = "answer", !.answer = a],
           accepted' = [accepted EXCEPT ![worker.name][worker.item.next + 1] = @ + 1],
           shown' \in ShownType, UNCHANGED <<pending, completed, failed, last, world, served>>,
           faults' \in Nat, faults <= faults', a = "retry" => faults < faults'
    PROVE  QueueInv'
<1> DEFINE n == worker.name
           part == worker.item.next + 1
<1>1. worker.pc # "idle"
  OBVIOUS
<1>2. /\ worker \in WorkerLocal /\ worker.item \in Job /\ WorkerOK(accepted, faults, worker)
      /\ n \in DOMAIN pending /\ n \in Names /\ last' \in LastType
      /\ accepted \in Copies /\ faults \in Nat
      /\ \A p \in 1..Parts : accepted[n][p] \in Nat /\ accepted[n][p] <= 1 + faults
  BY <1>1, Holding
<1>3. /\ worker.item.status = "pending" /\ worker.item.attempts < MaxAttempts
      /\ Frozen(worker.item) /\ worker.item.next < Parts /\ worker.item.next \in Nat
      /\ Sound(accepted, n, worker.item)
      /\ \A p \in 1..Parts : p > worker.item.next => accepted[n][p] <= faults
  BY <1>2 DEF WorkerOK, Working, Drafting, Handed, Spare, Job
<1>4. part \in 1..Parts
  BY <1>3 DEF ConstantsAssumption
<1> HIDE DEF part
<1>5. /\ accepted'[n][part] = accepted[n][part] + 1
      /\ \A p \in 1..Parts \ {part} : accepted'[n][p] = accepted[n][p]
      /\ \A m \in Names \ {n} : accepted'[m] = accepted[m]
      /\ accepted' \in Copies
  <2>1. accepted' = [accepted EXCEPT ![n] = [accepted[n] EXCEPT ![part] = accepted[n][part] + 1]]
    BY <1>2, <1>4 DEF Copies, part
  <2> DEFINE g == [accepted[n] EXCEPT ![part] = accepted[n][part] + 1]
  <2>2. accepted[n] \in [1..Parts -> Nat]
    BY <1>2 DEF Copies
  <2>3. /\ g \in [1..Parts -> Nat] /\ g[part] = accepted[n][part] + 1
        /\ \A p \in 1..Parts \ {part} : g[p] = accepted[n][p]
    <3>1. accepted[n][part] + 1 \in Nat
      BY <1>2, <1>4
    <3>2. PICK c \in Nat : c = accepted[n][part] + 1
      BY <3>1
    <3>3. PICK f \in [1..Parts -> Nat] : f = accepted[n]
      BY <2>2
    <3>4. g = [f EXCEPT ![part] = c]
      BY <3>2, <3>3
    <3> HIDE DEF g
    <3> QED
      BY <1>4, <3>2, <3>3, <3>4
  <2> HIDE DEF g
  <2>4. accepted' = [accepted EXCEPT ![n] = g]
    BY <2>1 DEF g
  <2>5. accepted'[n] = g /\ \A m \in Names \ {n} : accepted'[m] = accepted[m]
    BY <1>2, <2>4 DEF Copies
  <2>6. accepted' \in Copies
    BY <1>2, <2>3, <2>4 DEF Copies
  <2> QED
    BY <2>3, <2>5, <2>6
<1>6. \A p \in 1..Parts : /\ accepted[n][p] <= accepted'[n][p]
                          /\ accepted'[n][p] \in Nat
                          /\ accepted'[n][p] <= 1 + faults'
  <2> TAKE p \in 1..Parts
  <2>1. CASE p = part
    <3>1. accepted[n][p] <= faults
      BY <1>3, <1>4, <2>1 DEF part
    <3> QED
      BY <1>2, <1>5, <2>1, <3>1
  <2>2. CASE p # part
    BY <1>2, <1>5, <2>2
  <2> QED
    BY <2>1, <2>2
<1>7. Sound(accepted', n, worker.item)
  <2>1. \A p \in 1..worker.item.next : p \in 1..Parts
    BY <1>3 DEF ConstantsAssumption
  <2> QED
    BY <1>2, <1>3, <1>6, <2>1 DEF Sound
<1>8. /\ worker' \in WorkerLocal /\ worker'.pc = "answer" /\ worker'.answer = a
      /\ worker'.name = n /\ worker'.item = worker.item
  BY <1>2 DEF WorkerLocal, WorkerPcs
<1>9. Spare(accepted', faults', n, worker.item, Handed(worker'))
  <2> SUFFICES ASSUME NEW p \in 1..Parts, p > Handed(worker') PROVE accepted'[n][p] <= faults'
    BY DEF Spare
  <2>1. CASE a = "ok"
    <3>1. Handed(worker') = part
      BY <1>8, <2>1 DEF Handed, part
    <3>2. p # part /\ p > worker.item.next
      BY <1>3, <1>4, <3>1 DEF part
    <3> QED
      BY <1>2, <1>3, <1>5, <3>2
  <2>2. CASE a = "retry"
    <3>1. accepted'[n][p] <= 1 + faults
      <4>1. Handed(worker') = worker.item.next
        BY <1>8, <2>2 DEF Handed
      <4>2. accepted[n][p] <= faults
        BY <1>3, <4>1
      <4> QED
        BY <1>2, <1>5, <4>2
    <3> QED
      BY <1>2, <1>6, <2>2, <3>1
  <2> QED
    BY <2>1, <2>2
<1>10. WorkerOK(accepted', faults', worker')
  <2>1. accepted'[n][part] > 0
    BY <1>2, <1>4, <1>5
  <2> QED
    BY <1>3, <1>7, <1>8, <1>9, <2>1 DEF WorkerOK, Working, Drafting, part
<1>11. FileOK(accepted', faults', worker', n, pending'[n])
  <2>1. FileOK(accepted, faults, worker, n, pending[n])
    BY <1>2 DEF QueueInv, JobsInv
  <2>2. Sound(accepted', n, pending[n])
    <3>1. pending[n].next \in 0..Parts
      BY <2>1 DEF FileOK, Sound, Job
    <3>2. \A p \in 1..pending[n].next : p \in 1..Parts
      BY <3>1 DEF ConstantsAssumption
    <3> QED
      BY <1>2, <1>6, <2>1, <3>2 DEF FileOK, Sound
  <2> QED
    BY <1>8, <2>1, <2>2 DEF FileOK
<1>12. n = Initial => \A k \in 0..saves : Reads(k) => Reads(k)'
  BY <1>8 DEF Reads
<1>13. /\ DOMAIN pending' = DOMAIN pending
       /\ \A m \in DOMAIN pending \ {n} : pending'[m] = pending[m]
  OBVIOUS
<1>14. /\ worker'.pc # "idle" => worker'.name = n /\ WorkerOK(accepted', faults', worker')
       /\ \A p \in 1..Parts : accepted'[n][p] <= 1 + faults'
  BY <1>6, <1>8, <1>10
<1> HIDE DEF n
<1>15. worker.name = n
  BY DEF n
<1> QED
  BY <1>2, <1>5, <1>8, <1>11, <1>12, <1>13, <1>14, <1>15, WorkerStepSound

LEMMA SendTextSound ==
    ASSUME QueueInv, ConstantsAssumption, SendText
    PROVE  QueueInv'
<1>1. /\ worker.pc = "send" /\ worker.pc # "idle"
      /\ UNCHANGED <<pending, completed, failed, last, world, served>>
  BY DEF SendText
<1>2. /\ worker \in WorkerLocal /\ worker.item \in Job /\ WorkerOK(accepted, faults, worker)
      /\ worker.name \in DOMAIN pending /\ last' \in LastType /\ shown \in ShownType
  BY <1>1, Holding
<1> DEFINE got(a)    == worker' = [worker EXCEPT !.pc = "answer", !.answer = a]
           delivered == /\ accepted' = [accepted EXCEPT ![worker.name][worker.item.next + 1] = @ + 1]
                        /\ shown' = IF worker.item.next + 1 < Parts THEN shown
                                    ELSE [period |-> worker.item.period,
                                          content |-> worker.item.content]
<1>3. CASE delivered /\ ((got("ok") /\ UNCHANGED faults) \/ (got("retry") /\ Fault("answer")))
  <2>1. shown' \in ShownType
    BY <1>2, <1>3 DEF ShownType, Job
  <2>2. CASE got("ok") /\ UNCHANGED faults
    BY <1>1, <1>3, <2>1, <2>2, FaultCounts, DeliveredSound
  <2>3. CASE got("retry") /\ Fault("answer")
    BY <1>1, <1>3, <2>1, <2>3, FaultCounts, DeliveredSound
  <2> QED
    BY <1>3, <2>2, <2>3
<1>4. ASSUME NEW a \in {"retry", "refused"}, got(a), UNCHANGED <<accepted, shown, faults>>
      PROVE  QueueInv'
  <2> DEFINE w == [worker EXCEPT !.pc = "answer", !.answer = a]
  <2>1. /\ w \in WorkerLocal /\ w.pc = "answer" /\ w.answer = a /\ w.name = worker.name
        /\ w.item = worker.item /\ worker' = w
    BY <1>2, <1>4 DEF WorkerLocal, WorkerPcs
  <2> HIDE DEF w
  <2>2. faults' \in Nat /\ faults <= faults' /\ faults' = faults
    BY <1>4, FaultCounts
  <2>3. WorkerOK(accepted, faults', w)
    BY <1>1, <1>2, <2>1, <2>2 DEF WorkerOK, Working, Drafting, Handed
  <2>4. worker.name = Initial => \A k \in 0..saves : Reads(k) =>
            w.item.refresh \/ pending[Initial].refresh \/ w.item.asOf >= k
    BY <1>1, <2>1 DEF Reads
  <2> QED
    BY <1>1, <1>2, <1>4, <2>1, <2>2, <2>3, <2>4, WorkerTurns
<1>5. CASE Skip(worker.item) /\ UNCHANGED <<accepted, shown, faults>>
  BY <1>1, <1>2, <1>5, FaultCounts, SkipSound
<1> QED
  BY <1>3, <1>4, <1>5 DEF SendText

LEMMA FinishSound ==
    ASSUME QueueInv, ConstantsAssumption, finish
    PROVE  QueueInv'
<1>1. /\ worker.pc = "save" /\ worker.pc # "idle"
      /\ UNCHANGED <<completed, failed, last, world, served, accepted, shown>>
  BY DEF finish, history
<1> DEFINE n == worker.name
           i == [worker.item EXCEPT !.attempts = IF worker.item.error THEN @ ELSE 0]
           j == Merged(i)
<1>2. /\ worker \in WorkerLocal /\ worker.item \in Job /\ WorkerOK(accepted, faults, worker)
      /\ n \in DOMAIN pending
  BY <1>1, Holding
<1>3. /\ Sound(accepted, n, worker.item)
      /\ worker.item.status = "pending" /\ worker.item.error => worker.item.attempts < MaxAttempts
      /\ Spare(accepted, faults, n, worker.item, worker.item.next)
  BY <1>1, <1>2 DEF WorkerOK, Drafting, Handed
<1>4. /\ i \in Job /\ i.status = worker.item.status /\ i.next = worker.item.next
      /\ i.period = worker.item.period /\ i.asOf = worker.item.asOf
      /\ i.refresh = worker.item.refresh /\ i.error = worker.item.error
      /\ i.attempts = IF worker.item.error THEN worker.item.attempts ELSE 0
  BY <1>2 DEF Job, ConstantsAssumption
<1> HIDE DEF i
<1>5. /\ j \in Job /\ j.status = worker.item.status /\ j.next = worker.item.next
      /\ j.period = worker.item.period /\ j.asOf = worker.item.asOf
      /\ j.refresh = (worker.item.refresh \/ (n = Initial /\ pending[Initial].refresh))
      /\ j.attempts = i.attempts
  BY <1>1, <1>4, MergedJob
<1>6. finish <=> /\ worker.pc = "save"
                 /\ \/ /\ pending' = Written(j) /\ UNCHANGED faults
                       /\ IF j.status = "pending" THEN Stop
                          ELSE At(IF j.status = "sent" THEN "record" ELSE "finalize", j)
                    \/ Fault("write") /\ Stop /\ UNCHANGED pending
                 /\ UNCHANGED <<completed, failed, last, world, history>>
  BY DEF finish, i
<1> HIDE DEF j
<1>7. /\ Sound(accepted, n, j) /\ Spare(accepted, faults, n, j, j.next)
      /\ j.status = "pending" => j.attempts < MaxAttempts
  BY <1>3, <1>4, <1>5 DEF Sound, Spare, Frozen, ConstantsAssumption
<1>8. n = Initial => \A k \in 0..saves : Reads(k) => j.refresh \/ j.asOf >= k
  BY <1>1, <1>5 DEF Reads
<1>9. FileOK(accepted, faults, worker, n, j) /\ FileOK(accepted, faults, IdleWorker, n, j)
  BY <1>7 DEF FileOK
<1>10. CASE pending' = Written(j) /\ UNCHANGED faults /\ Stop
  <2>1. pending' = [pending EXCEPT ![n] = j]
    BY <1>10 DEF Written
  <2>2. IdleWorker \in WorkerLocal /\ IdleWorker.pc = "idle" /\ worker' = IdleWorker
    BY <1>10, IdleType DEF Stop
  <2> HIDE DEF IdleWorker
  <2> QED
    BY <1>1, <1>2, <1>5, <1>8, <1>9, <1>10, <2>1, <2>2, FileWritten
<1>11. CASE /\ pending' = Written(j) /\ UNCHANGED faults /\ j.status # "pending"
            /\ At(IF j.status = "sent" THEN "record" ELSE "finalize", j)
  <2> DEFINE pc == IF j.status = "sent" THEN "record" ELSE "finalize"
             w  == [worker EXCEPT !.pc = pc, !.item = j]
  <2>1. pending' = [pending EXCEPT ![n] = j]
    BY <1>11 DEF Written
  <2>2. /\ w \in WorkerLocal /\ w.pc = pc /\ w.name = n /\ w.item = j /\ w.pc # "idle"
        /\ worker' = w
    BY <1>2, <1>5, <1>11 DEF At, WorkerLocal, WorkerPcs
  <2> HIDE DEF w
  <2>3. WorkerOK(accepted, faults, w)
    BY <1>7, <1>11, <2>2 DEF WorkerOK, Working, Drafting, Spare
  <2>4. FileOK(accepted, faults, w, n, j)
    BY <1>7 DEF FileOK
  <2>5. n = Initial => \A k \in 0..saves : Reads(k) =>
          /\ j.refresh \/ j.asOf >= k \/ (~Frozen(j) /\ j.status = "pending")
          /\ w.pc # "idle" => w.item.refresh \/ j.refresh \/ w.item.asOf >= k
    BY <1>8, <2>2
  <2> QED
    BY <1>1, <1>2, <1>5, <1>11, <2>1, <2>2, <2>3, <2>4, <2>5, FileWritten
<1>12. CASE Fault("write") /\ Stop /\ UNCHANGED pending
  BY <1>1, <1>12, StopSound
<1> QED
  BY <1>6, <1>10, <1>11, <1>12

\* A job leaves the queue only when the configurations it was to read are read.
LEMMA ArchivedSound ==
    ASSUME QueueInv, ConstantsAssumption, worker.pc = "finalize", Stop,
           NEW j \in Job, j = Merged(worker.item), ~j.refresh, Archived(j),
           UNCHANGED <<last, world, faults, accepted, shown>>
    PROVE  QueueInv'
<1> DEFINE n == worker.name
<1>1. worker.pc # "idle"
  OBVIOUS
<1>2. /\ n \in DOMAIN pending /\ n \in Names /\ worker.item \in Job
      /\ WorkerOK(accepted, faults, worker)
  BY <1>1, Holding
<1>3. /\ worker' = IdleWorker /\ IdleWorker \in WorkerLocal /\ worker'.pc = "idle"
  BY IdleType DEF Stop
<1>4. /\ DOMAIN pending' = DOMAIN pending \ {n}
      /\ \A m \in DOMAIN pending' : pending'[m] = pending[m]
      /\ completed' \subseteq completed \cup {n} /\ failed' \subseteq failed \cup {n}
      /\ completed \subseteq completed' /\ failed \subseteq failed'
      /\ served' = IF n = Initial THEN Larger(served, j.asOf) ELSE served
  BY DEF Archived
<1>5. /\ j.asOf = worker.item.asOf /\ j.asOf \in Nat
      /\ ~worker.item.refresh /\ (n = Initial => ~pending[Initial].refresh)
  BY <1>1, <1>2, MergedJob DEF Job
<1>6. served \in Nat /\ owed \in Nat /\ saves \in Nat /\ served' \in Nat
  BY <1>4, <1>5 DEF QueueInv, TypeOK, Larger
<1>7. TypeOK'
  BY <1>2, <1>3, <1>4, <1>6 DEF QueueInv, TypeOK, world
<1>8. JobsInv'
  <2> SUFFICES ASSUME NEW m \in DOMAIN pending, m # n
               PROVE  FileOK(accepted, faults, worker', m, pending[m])
    BY <1>4 DEF JobsInv
  <2>1. FileOK(accepted, faults, worker, m, pending[m])
    BY DEF QueueInv, JobsInv
  <2> QED
    BY <2>1 DEF FileOK
<1>9. WorkerInv'
  BY <1>3 DEF WorkerInv
<1>10. CommittedInv'
  BY <1>4 DEF QueueInv, CommittedInv, world
<1>11. RefreshInv'
  <2>1. ASSUME NEW k \in Nat, Kept(k)
        PROVE  served' < k => Initial \in DOMAIN pending' /\ n # Initial /\ Reads(k)
    <3>1. CASE n = Initial
      <4>1. served < k => worker.item.asOf >= k
        BY <1>1, <1>5, <2>1, <3>1 DEF Kept, Reads
      <4>2. served' = Larger(served, j.asOf)
        BY <1>4, <3>1
      <4> QED
        BY <1>5, <1>6, <4>1, <4>2 DEF Larger
    <3>2. CASE n # Initial
      BY <1>4, <2>1, <3>2 DEF Kept
    <3> QED
      BY <3>1, <3>2
  <2>2. ASSUME NEW k \in Nat, n # Initial, Initial \in DOMAIN pending', Reads(k)
        PROVE  Reads(k)'
    <3>1. pending'[Initial] = pending[Initial]
      BY <1>4, <2>2
    <3> QED
      BY <1>3, <2>2, <3>1 DEF Reads
  <2>3. \A k \in Nat : Kept(k) => Kept(k)'
    BY <2>1, <2>2 DEF Kept
  <2>4. PICK o \in Nat : o = owed
    BY <1>6
  <2>5. PICK s \in Nat : s = saves
    BY <1>6
  <2>6. o = owed' /\ s = saves' /\ wake' = wake
    BY <2>4, <2>5 DEF world
  <2>7. (Kept(owed) => Kept(owed)') /\ (Kept(saves) => Kept(saves)')
    <3>1. (Kept(o) => Kept(o)') /\ (Kept(s) => Kept(s)')
      BY <2>3
    <3> QED
      BY <2>4, <2>5, <2>6, <3>1 DEF Kept, Reads
  <2>8. wake = "enqueue" /\ Initial \notin DOMAIN pending \cup completed \cup failed =>
            Initial \notin DOMAIN pending' \cup completed' \cup failed'
    BY <1>2, <1>4
  <2> QED
    BY <2>6, <2>7, <2>8 DEF QueueInv, RefreshInv, world
<1>12. DuplicatesNeedFaults'
  BY DEF QueueInv, DuplicatesNeedFaults
<1> QED
  BY <1>7, <1>8, <1>9, <1>10, <1>11, <1>12 DEF QueueInv

LEMMA FinalizeSound ==
    ASSUME QueueInv, ConstantsAssumption, finalize
    PROVE  QueueInv'
<1>1. /\ worker.pc = "finalize" /\ worker.pc # "idle" /\ Stop
      /\ UNCHANGED <<last, world, accepted, shown>>
  BY DEF finalize
<1> DEFINE n == worker.name
           j == Merged(worker.item)
<1>2. n \in DOMAIN pending /\ worker.item \in Job
  BY <1>1, Holding
<1>3. CASE pending' = Written(NewJob) /\ UNCHANGED <<completed, failed, served, faults>>
  <2>1. pending' = [pending EXCEPT ![n] = NewJob]
    BY <1>3 DEF Written
  <2>2. IdleWorker \in WorkerLocal /\ IdleWorker.pc = "idle" /\ worker' = IdleWorker
    BY <1>1, IdleType DEF Stop
  <2>3. /\ NewJob \in Job /\ ~Frozen(NewJob) /\ NewJob.status = "pending"
        /\ FileOK(accepted, faults, IdleWorker, n, NewJob)
    BY NewJobSound
  <2> HIDE DEF IdleWorker, NewJob
  <2> QED
    BY <1>1, <1>2, <1>3, <2>1, <2>2, <2>3, FileWritten
<1>4. CASE ~j.refresh /\ Archived(j) /\ UNCHANGED faults
  <2>1. j \in Job
    BY <1>1, <1>2, MergedJob
  <2> QED
    BY <1>1, <1>4, <2>1, ArchivedSound
<1>5. CASE Fault("write") /\ UNCHANGED <<pending, completed, failed, served>>
  BY <1>1, <1>5, StopSound
<1> QED
  BY <1>3, <1>4, <1>5 DEF finalize

-----------------------------------------------------------------------------
(* Taking a job up                                                          *)

\* What a job's file says.
LEMMA InFile ==
    ASSUME QueueInv, NEW n \in DOMAIN pending
    PROVE  /\ pending[n] \in Job /\ n \in Names /\ FileOK(accepted, faults, worker, n, pending[n])
           /\ Sound(accepted, n, pending[n])
           /\ n = Initial => \A k \in 0..saves : Reads(k) =>
                  \/ pending[n].refresh \/ pending[n].asOf >= k
                  \/ ~Frozen(pending[n]) /\ pending[n].status = "pending"
BY DEF QueueInv, TypeOK, JobsInv, FileOK, Reads

LEMMA SkipExpiredSound ==
    ASSUME QueueInv, ConstantsAssumption, NEW n \in Names, SkipExpired(n)
    PROVE  QueueInv'
<1> DEFINE item == [pending[n] EXCEPT !.status = "skipped", !.error = TRUE]
           w    == [IdleWorker EXCEPT !.pc = "save", !.name = n, !.item = item]
<1>1. /\ worker.pc = "idle" /\ n \in DOMAIN pending /\ Expired(pending[n]) /\ worker' = w
      /\ UNCHANGED <<pending, completed, failed, last, world, faults, served, accepted, shown>>
  BY DEF SkipExpired, history
<1>2. pending[n] \in Job /\ Sound(accepted, n, pending[n])
  BY <1>1, InFile
<1>3. /\ item \in Job /\ item.status = "skipped" /\ item.asOf = pending[n].asOf
      /\ item.refresh = pending[n].refresh /\ item.next = pending[n].next
      /\ item.period = pending[n].period
  BY <1>2 DEF Job
<1> HIDE DEF item
<1>4. w \in WorkerLocal /\ w.pc = "save" /\ w.name = n /\ w.item = item
  <2>1. IdleWorker \in WorkerLocal
    BY IdleType
  <2> HIDE DEF IdleWorker
  <2> QED
    BY <1>3, <2>1 DEF WorkerLocal, WorkerPcs
<1> HIDE DEF w
<1>5. WorkerOK(accepted, faults', w)
  BY <1>2, <1>3, <1>4 DEF WorkerOK, Working, Sound, Frozen, Drafting, Handed, Spare
<1>6. n = Initial => \A k \in 0..saves : Reads(k) =>
          w.item.refresh \/ pending[Initial].refresh \/ w.item.asOf >= k
  BY <1>1, <1>3, <1>4, InFile DEF Expired
<1>7. faults' \in Nat /\ faults <= faults' /\ last' \in LastType
  BY <1>1, FaultCounts DEF QueueInv, TypeOK, LastType
<1> QED
  BY <1>1, <1>4, <1>5, <1>6, <1>7, WorkerTurns

\* A prepared job is as sound as its file; if it has a body it is the file's.
LEMMA PreparedJob ==
    ASSUME QueueInv, ConstantsAssumption, NEW n \in DOMAIN pending, pending[n].status = "pending",
           worker.pc = "idle"
    PROVE  /\ Prepared(n) \in Job /\ Prepared(n).status = "pending"
           /\ Prepared(n).attempts < MaxAttempts
           /\ Sound(accepted, n, Prepared(n))
           /\ Spare(accepted, faults, n, Prepared(n), Prepared(n).next)
           /\ n = Initial => \A k \in 0..saves : Reads(k) =>
                  Prepared(n).refresh \/ Prepared(n).asOf >= k
<1> DEFINE j == pending[n]
<1>1. /\ j \in Job /\ Sound(accepted, n, j) /\ j.attempts < MaxAttempts
      /\ Spare(accepted, faults, n, j, j.next)
      /\ n = Initial => \A k \in 0..saves : Reads(k) => j.refresh \/ j.asOf >= k \/ ~Frozen(j)
  BY InFile DEF FileOK
<1>2. saves \in Nat
  BY DEF QueueInv, TypeOK
<1>3. NewJob \in Job /\ ~Frozen(NewJob) /\ NewJob.status = "pending"
      /\ NewJob.attempts < MaxAttempts /\ NewJob.next = 0
  BY NewJobSound DEF FileOK, NewJob
<1>4. CASE n # Initial \/ j.next # 0
  <2>1. Prepared(n) = j
    BY <1>4 DEF Prepared
  <2>2. j.next # 0 => Frozen(j)
    BY <1>1 DEF Sound
  <2> QED
    BY <1>1, <1>4, <2>1, <2>2
<1>5. CASE n = Initial /\ j.next = 0 /\ (j.refresh \/ ~Frozen(j))
  <2> DEFINE i == IF j.refresh THEN NewJob ELSE j
  <2>1. /\ i \in Job /\ ~Frozen(i) /\ i.status = "pending" /\ i.attempts < MaxAttempts
        /\ i.next = 0
    BY <1>1, <1>3, <1>5
  <2>2. Prepared(n) = [i EXCEPT !.asOf = saves]
    BY <1>5 DEF Prepared
  <2> HIDE DEF i
  <2>3. /\ Prepared(n) \in Job /\ Prepared(n).status = "pending" /\ Prepared(n).asOf = saves
        /\ Prepared(n).attempts < MaxAttempts /\ Prepared(n).next = 0
        /\ Prepared(n).period = i.period
    BY <1>2, <2>1, <2>2 DEF Job
  <2> HIDE DEF j
  <2> QED
    BY <1>2, <2>1, <2>3 DEF Sound, Spare, Frozen
<1>6. CASE n = Initial /\ j.next = 0 /\ ~j.refresh /\ Frozen(j)
  <2>1. Prepared(n) = j
    BY <1>6 DEF Prepared
  <2> QED
    BY <1>1, <1>6, <2>1
<1> QED
  BY <1>4, <1>5, <1>6

LEMMA ProcessSound ==
    ASSUME QueueInv, ConstantsAssumption, process
    PROVE  QueueInv'
<1> DEFINE n == Head
           j == pending[n]
           w == [IdleWorker EXCEPT !.name = n, !.now = day, !.seen = Committed]
<1>1. /\ worker.pc = "idle" /\ DOMAIN pending # {}
      /\ UNCHANGED <<completed, failed, last, world, served, accepted, shown>>
  BY DEF process, history
<1>2. n \in DOMAIN pending
  BY <1>1, HeadIsFile DEF QueueInv, TypeOK
<1>3. /\ j \in Job /\ Sound(accepted, n, j) /\ n \in Names /\ day \in Days
      /\ FileOK(accepted, faults, worker, n, j) /\ last' \in LastType /\ faults \in Nat
  BY <1>1, <1>2, InFile DEF QueueInv, TypeOK, LastType
<1>4. w \in WorkerLocal /\ w.name = n /\ w.fresh = FALSE /\ w.answer = "none"
  <2>1. IdleWorker \in WorkerLocal /\ IdleWorker.fresh = FALSE /\ IdleWorker.answer = "none"
    BY IdleType DEF IdleWorker
  <2>2. Committed \in SUBSET Records
    BY DEF Committed
  <2> HIDE DEF IdleWorker
  <2> QED
    BY <1>3, <2>1, <2>2 DEF WorkerLocal
<1>9. \/ /\ j.status # "pending" /\ UNCHANGED <<pending, faults>>
         /\ worker' = [w EXCEPT !.item = j, !.pc = IF j.status = "sent" THEN "save" ELSE "finalize"]
      \/ /\ j.status = "pending" /\ pending' = [pending EXCEPT ![n] = Prepared(n)]
         /\ UNCHANGED faults
         /\ \/ worker' = [w EXCEPT !.pc = "enabled", !.item = Prepared(n)]
            \/ worker' = [w EXCEPT !.pc = "save", !.item =
                            [Prepared(n) EXCEPT !.status = "skipped", !.error = TRUE]]
      \/ Fault("write") /\ UNCHANGED <<pending, worker>>
  BY DEF process
<1> HIDE DEF w
<1>6. CASE /\ j.status # "pending" /\ UNCHANGED <<pending, faults>>
           /\ worker' = [w EXCEPT !.item = j, !.pc = IF j.status = "sent" THEN "save" ELSE "finalize"]
  <2> DEFINE pc == IF j.status = "sent" THEN "save" ELSE "finalize"
  <2>1. pc \in WorkerPcs \ {"idle"}
    BY DEF WorkerPcs
  <2> HIDE DEF j
  <2>2. PICK v : v = [w EXCEPT !.pc = pc, !.item = j]
    OBVIOUS
  <2>3. /\ v \in WorkerLocal /\ v.pc = pc /\ v.item = j /\ v.name = n /\ ~v.fresh
    BY <1>3, <1>4, <2>1, <2>2 DEF WorkerLocal
  <2>4. worker' = v
    BY <1>4, <1>6, <2>2 DEF WorkerLocal
  <2>5. faults' \in Nat /\ faults <= faults' /\ faults' = faults
    BY <1>3, <1>6
  <2>6. WorkerOK(accepted, faults', v)
    BY <1>3, <1>6, <2>3 DEF WorkerOK, Working, Drafting, Spare
  <2>7. n = Initial => \A k \in 0..saves : Reads(k) =>
            v.item.refresh \/ pending[Initial].refresh \/ v.item.asOf >= k
    BY <1>2, <1>6, <2>3, InFile DEF j
  <2> QED
    BY <1>1, <1>2, <1>3, <1>6, <2>3, <2>4, <2>5, <2>6, <2>7, WorkerTurns
<1>7. CASE /\ j.status = "pending" /\ pending' = [pending EXCEPT ![n] = Prepared(n)]
           /\ UNCHANGED faults
           /\ \/ worker' = [w EXCEPT !.pc = "enabled", !.item = Prepared(n)]
              \/ worker' = [w EXCEPT !.pc = "save", !.item =
                              [Prepared(n) EXCEPT !.status = "skipped", !.error = TRUE]]
  <2> DEFINE i == Prepared(n)
  <2>1. /\ i \in Job /\ i.status = "pending" /\ i.attempts < MaxAttempts
        /\ Sound(accepted, n, i) /\ Spare(accepted, faults, n, i, i.next)
        /\ n = Initial => \A k \in 0..saves : Reads(k) => i.refresh \/ i.asOf >= k
    BY <1>1, <1>2, <1>7, PreparedJob
  <2> HIDE DEF i
  <2>2. pending' = [pending EXCEPT ![n] = i]
    BY <1>7 DEF i
  <2>3. \A v : FileOK(accepted, faults, v, n, i)
    BY <2>1 DEF FileOK
  <2>4. CASE worker' = [w EXCEPT !.pc = "enabled", !.item = i]
    <3>1. PICK v : v = [w EXCEPT !.pc = "enabled", !.item = i]
      OBVIOUS
    <3>2. /\ v \in WorkerLocal /\ v.pc = "enabled" /\ v.item = i /\ v.name = n /\ ~v.fresh
      BY <1>4, <2>1, <3>1 DEF WorkerLocal, WorkerPcs
    <3>3. WorkerOK(accepted, faults, v)
      BY <2>1, <3>2 DEF WorkerOK, Working, Drafting, Handed
    <3> QED
      BY <1>1, <1>2, <1>7, <2>1, <2>2, <2>3, <2>4, <3>1, <3>2, <3>3, FileWritten
  <2>5. CASE worker' = [w EXCEPT !.pc = "save",
                          !.item = [i EXCEPT !.status = "skipped", !.error = TRUE]]
    <3> DEFINE item == [i EXCEPT !.status = "skipped", !.error = TRUE]
    <3>1. /\ item \in Job /\ item.status = "skipped" /\ item.asOf = i.asOf
          /\ item.refresh = i.refresh /\ item.next = i.next /\ item.period = i.period
      BY <2>1 DEF Job
    <3> HIDE DEF item
    <3>2. PICK v : v = [w EXCEPT !.pc = "save", !.item = item]
      OBVIOUS
    <3>3. /\ v \in WorkerLocal /\ v.pc = "save" /\ v.item = item /\ v.name = n /\ ~v.fresh
      BY <1>4, <3>1, <3>2 DEF WorkerLocal, WorkerPcs
    <3>4. WorkerOK(accepted, faults, v)
      BY <2>1, <3>1, <3>3 DEF WorkerOK, Working, Sound, Frozen, Drafting, Handed, Spare
    <3>5. worker' = v
      BY <2>5, <3>2 DEF item
    <3>6. n = Initial => \A k \in 0..saves : Reads(k) =>
              /\ i.refresh \/ i.asOf >= k \/ (~Frozen(i) /\ i.status = "pending")
              /\ v.pc # "idle" => v.item.refresh \/ i.refresh \/ v.item.asOf >= k
      BY <2>1, <3>1, <3>3
    <3> QED
      BY <1>1, <1>2, <1>7, <2>1, <2>2, <2>3, <3>3, <3>4, <3>5, <3>6, FileWritten
  <2> QED
    BY <1>7, <2>4, <2>5 DEF i
<1>8. CASE Fault("write") /\ UNCHANGED <<pending, worker>>
  <2>1. PICK v \in WorkerLocal : v = worker
    BY DEF QueueInv, TypeOK
  <2> QED
    BY <1>1, <1>2, <1>3, <1>8, <2>1, FaultCounts, WorkerTurns
<1> QED
  BY <1>6, <1>7, <1>8, <1>9

-----------------------------------------------------------------------------
(* Steps beside the worker                                                  *)

\* Jobs that differ only in what a wake or the clock may change.
SameWork(j, i) ==
    /\ i \in Job /\ i.status = j.status /\ i.period = j.period /\ i.next = j.next
    /\ i.attempts = j.attempts /\ i.asOf = j.asOf

\* New jobs may come, and the others keep their work; the worker goes on, or is
\* killed.
LEMMA OthersSound ==
    ASSUME QueueInv, ConstantsAssumption, UNCHANGED accepted,
           faults' \in Nat, faults <= faults',
           worker' = worker \/ (worker' = IdleWorker /\ faults < faults'),
           DOMAIN pending \subseteq DOMAIN pending',
           \A n \in DOMAIN pending' :
               \/ n \notin DOMAIN pending /\ pending'[n] = NewJob
               \/ n \in DOMAIN pending /\ SameWork(pending[n], pending'[n])
    PROVE  JobsInv' /\ WorkerInv' /\ DuplicatesNeedFaults'
<1>1. /\ faults \in Nat /\ accepted \in Copies /\ DOMAIN pending \subseteq Names
      /\ IdleWorker.pc = "idle"
  BY IdleType DEF QueueInv, TypeOK, Copies
<1>2. \A n \in Names, p \in 1..Parts : accepted[n][p] \in Nat /\ accepted[n][p] <= 1 + faults
  BY <1>1 DEF QueueInv, DuplicatesNeedFaults, Copies
<1>3. DuplicatesNeedFaults'
  BY <1>1, <1>2 DEF DuplicatesNeedFaults
<1>4. WorkerInv'
  <2>1. CASE worker' = worker /\ worker.pc # "idle"
    <3>1. /\ worker.name \in DOMAIN pending /\ worker.name \in Names
          /\ WorkerOK(accepted, faults, worker)
      BY <2>1, Holding
    <3>2. WorkerOK(accepted, faults', worker)
      BY <1>1, <1>2, <3>1, WorkerOKLater
    <3> QED
      BY <2>1, <3>1, <3>2 DEF WorkerInv
  <2>2. CASE worker'.pc = "idle"
    BY <2>2 DEF WorkerInv
  <2> QED
    BY <1>1, <2>1, <2>2
<1>5. JobsInv'
  <2> SUFFICES ASSUME NEW n \in DOMAIN pending'
               PROVE  FileOK(accepted, faults', worker', n, pending'[n])
    BY DEF JobsInv
  <2>1. CASE pending'[n] = NewJob
    BY <2>1, NewJobSound
  <2>2. CASE n \in DOMAIN pending /\ SameWork(pending[n], pending'[n])
    <3>1. PICK j : j = pending[n]
      OBVIOUS
    <3>2. PICK i : i = pending'[n]
      OBVIOUS
    <3>3. SameWork(j, i) /\ FileOK(accepted, faults, worker, n, j) /\ n \in Names
      BY <1>1, <2>2, <3>1, <3>2 DEF QueueInv, JobsInv
    <3>4. Sound(accepted, n, i) /\ (i.status = "pending" => i.attempts < MaxAttempts)
      BY <3>3 DEF SameWork, FileOK, Sound, Frozen
    <3>5. worker'.pc = "idle" \/ worker'.name # n => Spare(accepted, faults', n, i, i.next)
      <4>1. CASE faults < faults'
        <5>1. \A p \in 1..Parts : accepted[n][p] <= faults'
          BY <1>1, <1>2, <3>3, <4>1
        <5> QED
          BY <5>1 DEF Spare
      <4>2. CASE worker' = worker
        <5>1. worker.pc = "idle" \/ worker.name # n => Spare(accepted, faults, n, j, j.next)
          BY <3>3 DEF FileOK
        <5>2. Spare(accepted, faults, n, j, j.next) => Spare(accepted, faults', n, i, i.next)
          BY <1>1, <1>2, <3>3 DEF SameWork, Spare, Frozen
        <5> QED
          BY <4>2, <5>1, <5>2
      <4> QED
        BY <4>1, <4>2
    <3> QED
      BY <3>2, <3>4, <3>5 DEF FileOK
  <2> QED
    BY <2>1, <2>2
<1> QED
  BY <1>3, <1>4, <1>5

LEMMA WithJobShape ==
    ASSUME QueueInv, ConstantsAssumption, NEW n \in Names
    PROVE  /\ DOMAIN pending \subseteq DOMAIN WithJob(n)
           /\ DOMAIN WithJob(n) \subseteq DOMAIN pending \cup {n}
           /\ \A m \in DOMAIN WithJob(n) :
                 \/ m = n /\ m \notin DOMAIN pending \cup completed \cup failed
                    /\ WithJob(n)[m] = NewJob
                 \/ m \in DOMAIN pending /\ WithJob(n)[m] = pending[m]
           /\ n \in DOMAIN WithJob(n) \cup completed \cup failed
BY DEF WithJob

\* A name that was nowhere gets a job, at most.
FilesGrow(n) == pending' = WithJob(n) \/ pending' = pending

LEMMA FilesGrowSound ==
    ASSUME QueueInv, ConstantsAssumption, NEW n \in Names, FilesGrow(n), UNCHANGED accepted,
           faults' \in Nat, faults <= faults',
           worker' = worker \/ (worker' = IdleWorker /\ faults < faults')
    PROVE  JobsInv' /\ WorkerInv' /\ DuplicatesNeedFaults'
<1>1. \A m \in DOMAIN pending : pending[m] \in Job
  BY DEF QueueInv, TypeOK
<1>2. /\ DOMAIN pending \subseteq DOMAIN pending'
      /\ \A m \in DOMAIN pending' :
            \/ m \notin DOMAIN pending /\ pending'[m] = NewJob
            \/ m \in DOMAIN pending /\ pending'[m] = pending[m]
  BY WithJobShape DEF FilesGrow
<1>3. \A m \in DOMAIN pending : SameWork(pending[m], pending[m])
  BY <1>1 DEF SameWork
<1>4. \A m \in DOMAIN pending' :
          \/ m \notin DOMAIN pending /\ pending'[m] = NewJob
          \/ m \in DOMAIN pending /\ SameWork(pending[m], pending'[m])
  <2> TAKE m \in DOMAIN pending'
  <2>1. CASE m \in DOMAIN pending /\ pending'[m] = pending[m]
    BY <1>3, <2>1
  <2> QED
    BY <1>2, <2>1
<1> QED
  BY <1>2, <1>4, OthersSound

\* The pending files keep their type.
LEMMA FilesGrowType ==
    ASSUME QueueInv, ConstantsAssumption, NEW n \in Names, FilesGrow(n)
    PROVE  DOMAIN pending' \subseteq Names /\ \A m \in DOMAIN pending' : pending'[m] \in Job
<1>1. DOMAIN pending \subseteq Names /\ \A m \in DOMAIN pending : pending[m] \in Job
  BY DEF QueueInv, TypeOK
<1>2. NewJob \in Job
  BY NewJobSound
<1> QED
  BY <1>1, <1>2, WithJobShape DEF FilesGrow

\* What is kept stays so while the files grow.
LEMMA KeptStays ==
    ASSUME QueueInv, ConstantsAssumption, NEW n \in Names, FilesGrow(n), served' = served,
           worker' = worker \/ worker'.pc = "idle", NEW k, Kept(k)
    PROVE  Kept(k)'
<1>1. Initial \in DOMAIN pending =>
          Initial \in DOMAIN pending' /\ pending'[Initial] = pending[Initial]
  BY WithJobShape DEF FilesGrow
<1> QED
  BY <1>1 DEF Kept, Reads

\* So does a job that comes anew where there was none.
LEMMA NewIsKept ==
    ASSUME QueueInv, ConstantsAssumption,
           Initial \notin DOMAIN pending, Initial \in DOMAIN pending',
           pending'[Initial] = NewJob, worker' = worker \/ worker'.pc = "idle", NEW k
    PROVE  Kept(k)'
<1>1. worker'.pc # "idle" => worker'.name # Initial
  BY Holding
<1>2. ~Frozen(NewJob) /\ NewJob.status = "pending"
  BY NewJobSound
<1> HIDE DEF NewJob
<1> QED
  BY <1>1, <1>2 DEF Kept, Reads

LEMMA RefreshStays ==
    ASSUME QueueInv, ConstantsAssumption, NEW n \in Names, FilesGrow(n), worker' = worker,
           UNCHANGED <<served, owed, saves, wake, completed>>, failed' \subseteq failed
    PROVE  RefreshInv'
<1>1. /\ owed <= saves /\ Kept(owed)
      /\ wake = "enqueue" => Kept(saves) \/ Initial \notin DOMAIN pending \cup completed \cup failed
  BY DEF QueueInv, RefreshInv
<1>2. PICK o : o = owed
  OBVIOUS
<1>3. PICK s : s = saves
  OBVIOUS
<1>4. Kept(o)'
  BY <1>1, <1>2, KeptStays DEF Kept, Reads
<1>5. Kept(s) => Kept(s)'
  BY KeptStays
<1>6. Initial \notin DOMAIN pending \cup completed \cup failed =>
          Kept(s)' \/ Initial \notin DOMAIN pending' \cup completed' \cup failed'
  <2> SUFFICES ASSUME Initial \notin DOMAIN pending \cup completed \cup failed,
                      Initial \in DOMAIN pending'
               PROVE  Kept(s)'
    OBVIOUS
  <2>1. pending'[Initial] = NewJob
    BY WithJobShape DEF FilesGrow
  <2> QED
    BY <2>1, NewIsKept
<1>7. o = owed' /\ s = saves'
  BY <1>2, <1>3
<1>8. Kept(owed)' /\ (Kept(s)' => Kept(saves)') /\ (Kept(saves) => Kept(s))
  BY <1>2, <1>3, <1>4, <1>7 DEF Kept, Reads
<1> QED
  BY <1>1, <1>5, <1>6, <1>8 DEF RefreshInv

\* Requests that leave the jobs alone.
LEMMA RequestsSound ==
    ASSUME QueueInv, ConstantsAssumption,
           \/ \E r \in Records : CommitCheckin(r) \/ DeleteCheckin(r)
           \/ Unbind \/ ClearFailed \/ Midnight
    PROVE  QueueInv'
<1>1. /\ UNCHANGED <<pending, completed, last, worker, wake, faults, saves, owed>>
      /\ UNCHANGED <<served, accepted, shown>> /\ failed' \subseteq failed
  BY DEF CommitCheckin, DeleteCheckin, Unbind, ClearFailed, Midnight, history
<1>2. Initial \in Names /\ FilesGrow(Initial) /\ faults' \in Nat /\ faults <= faults'
  BY <1>1, FaultCounts DEF Names, FilesGrow
<1>3. JobsInv' /\ WorkerInv' /\ DuplicatesNeedFaults'
  BY <1>1, <1>2, FilesGrowSound
<1>4. RefreshInv'
  BY <1>1, <1>2, RefreshStays
<1>5. TypeOK'
  <2>1. TypeOK /\ MaxDay \in Nat
    BY DEF QueueInv, ConstantsAssumption
  <2>2. ASSUME NEW r \in Records, CommitCheckin(r) PROVE TypeOK'
    BY <2>1, <2>2 DEF TypeOK, CommitCheckin, history
  <2>3. ASSUME NEW r \in Records, DeleteCheckin(r) PROVE TypeOK'
    BY <2>1, <2>3 DEF TypeOK, DeleteCheckin, Request, history
  <2>4. CASE Unbind
    <3>1. bound' = FALSE /\ requests' = requests + 1
      BY <2>4 DEF Unbind, Request
    <3>2. UNCHANGED <<pending, completed, failed, last, worker, checkins, deleted, toEnqueue,
                      on, wake, day, faults, saves, owed, served, accepted, shown>>
      BY <2>4 DEF Unbind, history
    <3>3. bound' \in BOOLEAN
      BY <3>1
    <3> QED
      BY <2>1, <3>1, <3>2, <3>3 DEF TypeOK
  <2>5. CASE ClearFailed
    BY <2>1, <2>5 DEF TypeOK, ClearFailed, Request, history
  <2>6. CASE Midnight
    BY <2>1, <2>6 DEF TypeOK, Midnight, Days, history
  <2> QED
    BY <2>2, <2>3, <2>4, <2>5, <2>6
<1>6. CommittedInv'
  <2>1. CommittedInv /\ day \in Days /\ checkins \in [Records -> Days \cup {NoDay}]
    BY DEF QueueInv, TypeOK
  <2>2. ASSUME NEW r \in Records, CommitCheckin(r) PROVE CommittedInv'
    <3>1. /\ checkins' = [checkins EXCEPT ![r] = day] /\ toEnqueue' = toEnqueue \cup {r}
          /\ pending' = pending
      BY <2>2 DEF CommitCheckin
    <3>2. checkins'[r] \in Days /\ \A q : q # r => checkins'[q] = checkins[q]
      BY <2>1, <3>1
    <3> QED
      BY <2>1, <3>1, <3>2 DEF CommittedInv
  <2>3. CASE UNCHANGED <<checkins, toEnqueue>>
    BY <1>1, <2>1, <2>3 DEF CommittedInv
  <2> QED
    BY <2>2, <2>3 DEF DeleteCheckin, Unbind, ClearFailed, Midnight
<1> QED
  BY <1>3, <1>4, <1>5, <1>6 DEF QueueInv

LEMMA SaveConfigSound ==
    ASSUME QueueInv, ConstantsAssumption, SaveConfig
    PROVE  QueueInv'
<1>1. /\ UNCHANGED <<pending, completed, failed, last, worker, faults, owed, checkins, toEnqueue>>
      /\ UNCHANGED <<served, accepted, shown>> /\ saves' = saves + 1 /\ wake' = "rearm"
  BY DEF SaveConfig, history
<1>2. Initial \in Names /\ FilesGrow(Initial) /\ faults' \in Nat /\ faults <= faults'
  BY <1>1, FaultCounts DEF Names, FilesGrow
<1>3. JobsInv' /\ WorkerInv' /\ DuplicatesNeedFaults'
  BY <1>1, <1>2, FilesGrowSound
<1>4. TypeOK'
  BY DEF QueueInv, TypeOK, SaveConfig, Request, history
<1>5. CommittedInv'
  BY <1>1 DEF QueueInv, CommittedInv
<1>6. RefreshInv'
  <2>1. owed <= saves /\ Kept(owed) /\ owed \in Nat /\ saves \in Nat
    BY DEF QueueInv, RefreshInv, TypeOK
  <2>2. Kept(owed)'
    BY <1>1, <2>1 DEF Kept, Reads
  <2> QED
    BY <1>1, <2>1, <2>2 DEF RefreshInv
<1> QED
  BY <1>3, <1>4, <1>5, <1>6 DEF QueueInv

\* A check-in that was committed, or a binding, brings a job.
LEMMA EnqueueSound ==
    ASSUME QueueInv, ConstantsAssumption, Bind \/ \E r \in Records : Enqueue(r)
    PROVE  QueueInv'
<1>1. /\ UNCHANGED <<completed, failed, last, worker, checkins, deleted, on, wake, day, requests>>
      /\ UNCHANGED <<faults, saves, owed, served, accepted, shown>>
      /\ toEnqueue' \subseteq toEnqueue /\ bound' \in BOOLEAN
      /\ \E n \in {Initial} \cup toEnqueue : FilesGrow(n)
  BY DEF Bind, Enqueue, history, FilesGrow, QueueInv, TypeOK
<1>2. PICK n \in {Initial} \cup toEnqueue : FilesGrow(n)
  BY <1>1
<1>3. n \in Names /\ faults' \in Nat /\ faults <= faults'
  BY <1>1, FaultCounts DEF QueueInv, TypeOK, Names
<1>4. JobsInv' /\ WorkerInv' /\ DuplicatesNeedFaults'
  BY <1>1, <1>2, <1>3, FilesGrowSound
<1>5. RefreshInv'
  BY <1>1, <1>2, <1>3, RefreshStays
<1>6. TypeOK'
  <2>1. DOMAIN pending' \subseteq Names /\ \A m \in DOMAIN pending' : pending'[m] \in Job
    BY <1>2, <1>3, FilesGrowType
  <2> QED
    BY <1>1, <2>1 DEF QueueInv, TypeOK
<1>7. CommittedInv'
  <2>1. DOMAIN pending' \subseteq DOMAIN pending \cup {n}
    BY <1>2, <1>3, WithJobShape DEF FilesGrow
  <2> QED
    BY <1>1, <1>2, <2>1 DEF QueueInv, CommittedInv
<1> QED
  BY <1>4, <1>5, <1>6, <1>7 DEF QueueInv

\* Marking the initial job, or starting it over, keeps the configuration that
\* was just saved.
LEMMA WakeInitialSound ==
    ASSUME QueueInv, ConstantsAssumption, WakeInitial
    PROVE  QueueInv'
<1>1. /\ UNCHANGED <<last, worker, checkins, deleted, toEnqueue, on, bound, day, requests>>
      /\ UNCHANGED <<saves, owed, served, accepted, shown>> /\ wake' \in {"none", "enqueue"}
  BY DEF WakeInitial, history
<1>2. CASE UNCHANGED <<pending, completed, failed>> /\ wake' = "none" /\ faults' \in Nat
           /\ faults <= faults'
  <2>1. Initial \in Names /\ FilesGrow(Initial)
    BY <1>2 DEF Names, FilesGrow
  <2>2. JobsInv' /\ WorkerInv' /\ DuplicatesNeedFaults'
    BY <1>1, <1>2, <2>1, FilesGrowSound
  <2>3. Kept(owed)'
    BY <1>1, <1>2 DEF QueueInv, RefreshInv, Kept, Reads
  <2>4. RefreshInv'
    BY <1>1, <1>2, <2>3 DEF QueueInv, RefreshInv
  <2>5. TypeOK' /\ CommittedInv'
    BY <1>1, <1>2 DEF QueueInv, TypeOK, CommittedInv
  <2> QED
    BY <2>2, <2>4, <2>5 DEF QueueInv
<1>3. CASE rearmInitial /\ UNCHANGED faults /\ wake' = "enqueue"
  <2>1. /\ DOMAIN pending \subseteq Names /\ \A n \in DOMAIN pending : pending[n] \in Job
        /\ faults' \in Nat /\ faults <= faults' /\ Initial \in Names
    BY <1>3, FaultCounts DEF QueueInv, TypeOK, Names
  <2>2. CASE Initial \in DOMAIN pending
    <3> DEFINE i == [pending[Initial] EXCEPT !.refresh = TRUE,
                       !.waiting = @ /\ pending[Initial].status # "pending"]
    <3>1. pending' = [pending EXCEPT ![Initial] = i] /\ UNCHANGED <<completed, failed>>
      BY <1>3, <2>2 DEF rearmInitial
    <3>2. SameWork(pending[Initial], i) /\ i.refresh = TRUE
      BY <2>1, <2>2 DEF SameWork, Job
    <3> HIDE DEF i
    <3>3. /\ DOMAIN pending' = DOMAIN pending /\ pending'[Initial] = i
          /\ \A n \in DOMAIN pending : n # Initial => pending'[n] = pending[n]
      BY <2>2, <3>1
    <3>4. \A n \in DOMAIN pending' : n \in DOMAIN pending /\ SameWork(pending[n], pending'[n])
      <4> TAKE n \in DOMAIN pending'
      <4>1. CASE n = Initial
        BY <2>2, <3>2, <3>3, <4>1
      <4>2. CASE n # Initial
        BY <2>1, <3>3, <4>2 DEF SameWork
      <4> QED
        BY <4>1, <4>2
    <3>5. JobsInv' /\ WorkerInv' /\ DuplicatesNeedFaults'
      BY <1>1, <2>1, <3>3, <3>4, OthersSound
    <3>6. TypeOK'
      <4>1. \A n \in DOMAIN pending' : pending'[n] \in Job
        BY <3>4 DEF SameWork
      <4> QED
        BY <1>1, <1>3, <2>1, <3>1, <3>3, <4>1 DEF QueueInv, TypeOK
    <3>7. CommittedInv'
      BY <1>1, <3>3 DEF QueueInv, CommittedInv
    <3>8. Kept(owed)' /\ Kept(saves)'
      BY <2>2, <3>2, <3>3 DEF Kept, Reads
    <3> QED
      BY <1>1, <3>5, <3>6, <3>7, <3>8 DEF QueueInv, RefreshInv
  <2>3. CASE Initial \notin DOMAIN pending /\ Initial \in completed \cup failed
    <3>1. /\ pending' = [m \in DOMAIN pending \cup {Initial} |->
                           IF m = Initial THEN NewJob ELSE pending[m]]
          /\ completed' \subseteq completed /\ failed' \subseteq failed
      BY <1>3, <2>3 DEF rearmInitial
    <3>2. /\ DOMAIN pending' = DOMAIN pending \cup {Initial} /\ pending'[Initial] = NewJob
          /\ \A m \in DOMAIN pending : pending'[m] = pending[m]
      BY <2>3, <3>1
    <3>3. NewJob \in Job
      BY NewJobSound
    <3> HIDE DEF NewJob
    <3>4. \A n \in DOMAIN pending' :
              \/ n \notin DOMAIN pending /\ pending'[n] = NewJob
              \/ n \in DOMAIN pending /\ SameWork(pending[n], pending'[n])
      BY <2>1, <2>3, <3>2 DEF SameWork
    <3>5. JobsInv' /\ WorkerInv' /\ DuplicatesNeedFaults'
      BY <1>1, <2>1, <3>2, <3>4, OthersSound
    <3>6. TypeOK'
      BY <1>1, <1>3, <2>1, <3>1, <3>2, <3>3 DEF QueueInv, TypeOK
    <3>7. CommittedInv'
      BY <1>1, <3>2 DEF QueueInv, CommittedInv
    <3>8. \A k : Kept(k)'
      BY <1>1, <2>3, <3>2, NewIsKept
    <3>9. Kept(owed)' /\ Kept(saves)'
      <4>1. PICK o : o = owed'
        OBVIOUS
      <4>2. PICK s : s = saves'
        OBVIOUS
      <4>3. Kept(o)' /\ Kept(s)'
        BY <3>8
      <4> QED
        BY <4>1, <4>2, <4>3 DEF Kept, Reads
    <3> QED
      BY <1>1, <3>5, <3>6, <3>7, <3>9 DEF QueueInv, RefreshInv
  <2>4. CASE Initial \notin DOMAIN pending \cup completed \cup failed
    <3>1. UNCHANGED <<pending, completed, failed>> /\ FilesGrow(Initial)
      BY <1>3, <2>4 DEF rearmInitial, FilesGrow
    <3>2. JobsInv' /\ WorkerInv' /\ DuplicatesNeedFaults'
      BY <1>1, <2>1, <3>1, FilesGrowSound
    <3>3. Kept(owed)'
      BY <1>1, <3>1 DEF QueueInv, RefreshInv, Kept, Reads
    <3>4. RefreshInv'
      BY <1>1, <2>4, <3>1, <3>3 DEF QueueInv, RefreshInv
    <3>5. TypeOK' /\ CommittedInv'
      BY <1>1, <1>3, <2>1, <3>1 DEF QueueInv, TypeOK, CommittedInv
    <3> QED
      BY <3>2, <3>4, <3>5 DEF QueueInv
  <2> QED
    BY <2>2, <2>3, <2>4
<1>4. CASE Fault("write") /\ wake' = "none" /\ UNCHANGED <<pending, completed, failed>>
  BY <1>2, <1>4, FaultCounts
<1>5. CASE UNCHANGED faults /\ wake' = "none" /\ UNCHANGED <<pending, completed, failed>>
  BY <1>2, <1>5, FaultCounts
<1> QED
  BY <1>3, <1>4, <1>5 DEF WakeInitial

LEMMA EnqueueAfterWakeSound ==
    ASSUME QueueInv, ConstantsAssumption, EnqueueAfterWake
    PROVE  QueueInv'
<1>1. /\ UNCHANGED <<completed, failed, last, worker, checkins, toEnqueue, faults, saves>>
      /\ UNCHANGED <<served, accepted, shown>>
      /\ wake = "enqueue" /\ wake' = "none" /\ owed' = saves /\ pending' = WithJob(Initial)
  BY DEF EnqueueAfterWake, history
<1>2. Initial \in Names /\ FilesGrow(Initial) /\ faults' \in Nat /\ faults <= faults'
  BY <1>1, FaultCounts DEF Names, FilesGrow
<1>3. JobsInv' /\ WorkerInv' /\ DuplicatesNeedFaults'
  BY <1>1, <1>2, FilesGrowSound
<1>4. TypeOK'
  <2>1. DOMAIN pending' \subseteq Names /\ \A m \in DOMAIN pending' : pending'[m] \in Job
    BY <1>2, FilesGrowType
  <2> QED
    BY <2>1 DEF QueueInv, TypeOK, EnqueueAfterWake, history
<1>5. CommittedInv'
  <2>1. DOMAIN pending' \subseteq DOMAIN pending \cup {Initial}
    BY <1>1, <1>2, WithJobShape
  <2> QED
    BY <1>1, <2>1 DEF QueueInv, CommittedInv
<1>6. Kept(owed)'
  <2>1. PICK s : s = saves
    OBVIOUS
  <2>2. Kept(s) \/ Initial \notin DOMAIN pending \cup completed \cup failed
    BY <1>1, <2>1 DEF QueueInv, RefreshInv
  <2>3. ASSUME Kept(s) PROVE Kept(s)'
    BY <1>1, <1>2, <2>3, KeptStays
  <2>4. ASSUME Initial \notin DOMAIN pending \cup completed \cup failed PROVE Kept(s)'
    <3>1. Initial \in DOMAIN pending' /\ pending'[Initial] = NewJob
      BY <1>1, <1>2, <2>4, WithJobShape
    <3> QED
      BY <1>1, <2>4, <3>1, NewIsKept
  <2>5. Kept(s)'
    BY <2>2, <2>3, <2>4
  <2> QED
    BY <1>1, <2>1, <2>5 DEF Kept, Reads
<1>7. RefreshInv'
  BY <1>1, <1>6 DEF RefreshInv, QueueInv, TypeOK
<1> QED
  BY <1>3, <1>4, <1>5, <1>7 DEF QueueInv

LEMMA KillSound ==
    ASSUME QueueInv, ConstantsAssumption, Kill
    PROVE  QueueInv'
<1>1. /\ UNCHANGED <<completed, failed, last, checkins, saves, owed, served, accepted, shown>>
      /\ worker' = IdleWorker /\ toEnqueue' = {} /\ wake' = "none" /\ FilesGrow(Initial)
  BY DEF Kill, history, FilesGrow
<1>2. Initial \in Names /\ faults' \in Nat /\ faults <= faults' /\ faults < faults'
  BY FaultCounts DEF Names, Kill
<1>3. JobsInv' /\ WorkerInv' /\ DuplicatesNeedFaults'
  BY <1>1, <1>2, FilesGrowSound
<1>4. TypeOK'
  <2>1. DOMAIN pending' \subseteq Names /\ \A m \in DOMAIN pending' : pending'[m] \in Job
    BY <1>1, <1>2, FilesGrowType
  <2>2. worker' \in WorkerLocal
    BY <1>1, IdleType
  <2> QED
    BY <1>1, <1>2, <2>1, <2>2 DEF QueueInv, TypeOK, Kill
<1>5. CommittedInv'
  <2>1. DOMAIN pending' \subseteq DOMAIN pending \cup {Initial}
    BY <1>1, <1>2, WithJobShape DEF FilesGrow
  <2> QED
    BY <1>1, <2>1 DEF QueueInv, CommittedInv
<1>6. RefreshInv'
  <2>1. PICK o : o = owed
    OBVIOUS
  <2>2. Kept(o)
    BY <2>1 DEF QueueInv, RefreshInv
  <2>3. worker'.pc = "idle"
    BY <1>1, IdleType
  <2>4. Kept(o)'
    BY <1>1, <1>2, <2>2, <2>3, KeptStays
  <2>5. Kept(owed)'
    BY <1>1, <2>1, <2>4 DEF Kept, Reads
  <2> QED
    BY <1>1, <2>5 DEF QueueInv, RefreshInv
<1> QED
  BY <1>3, <1>4, <1>5, <1>6 DEF QueueInv

LEMMA BackoffEndsSound ==
    ASSUME QueueInv, ConstantsAssumption, NEW n \in Names, BackoffEnds(n)
    PROVE  QueueInv'
<1>1. /\ n \in DOMAIN pending /\ pending' = [pending EXCEPT ![n].waiting = FALSE]
      /\ UNCHANGED <<completed, failed, last, worker, world, faults, served, accepted, shown>>
  BY DEF BackoffEnds, history
<1>2. /\ DOMAIN pending \subseteq Names /\ \A m \in DOMAIN pending : pending[m] \in Job
      /\ faults' \in Nat /\ faults <= faults'
  BY <1>1, FaultCounts DEF QueueInv, TypeOK
<1> DEFINE i == [pending[n] EXCEPT !.waiting = FALSE]
<1>3. SameWork(pending[n], i) /\ i.refresh = pending[n].refresh
  BY <1>1, <1>2 DEF SameWork, Job
<1>4. pending' = [pending EXCEPT ![n] = i]
  BY <1>1
<1> HIDE DEF i
<1>5. /\ DOMAIN pending' = DOMAIN pending /\ pending'[n] = i
      /\ \A m \in DOMAIN pending : m # n => pending'[m] = pending[m]
  BY <1>1, <1>4
<1>6. \A m \in DOMAIN pending' : /\ m \in DOMAIN pending /\ SameWork(pending[m], pending'[m])
                                 /\ pending'[m].refresh = pending[m].refresh
  <2> TAKE m \in DOMAIN pending'
  <2>1. CASE m = n
    BY <1>1, <1>3, <1>5, <2>1
  <2>2. CASE m # n
    BY <1>2, <1>5, <2>2 DEF SameWork
  <2> QED
    BY <2>1, <2>2
<1>7. JobsInv' /\ WorkerInv' /\ DuplicatesNeedFaults'
  BY <1>1, <1>2, <1>5, <1>6, OthersSound
<1>8. TypeOK'
  <2>1. \A m \in DOMAIN pending' : pending'[m] \in Job
    BY <1>6 DEF SameWork
  <2> QED
    BY <1>1, <1>2, <1>5, <2>1 DEF QueueInv, TypeOK, world
<1>9. CommittedInv'
  BY <1>1, <1>5 DEF QueueInv, CommittedInv, world
<1>10. RefreshInv'
  <2>1. UNCHANGED <<owed, saves, wake, completed, failed, served, worker>>
    BY <1>1 DEF world
  <2>2. (Kept(owed) => Kept(owed)') /\ (Kept(saves) => Kept(saves)')
    BY <1>5, <1>6, <2>1 DEF Kept, Reads, SameWork, Frozen
  <2> QED
    BY <1>5, <2>1, <2>2 DEF QueueInv, RefreshInv
<1> QED
  BY <1>7, <1>8, <1>9, <1>10 DEF QueueInv

-----------------------------------------------------------------------------
(* Theorems                                                                 *)

LEMMA QueueInvInit ==
    ASSUME ConstantsAssumption, Init
    PROVE  QueueInv
<1>1. IdleWorker \in WorkerLocal /\ worker.pc = "idle" /\ worker = IdleWorker
  BY IdleType DEF Init
<1>2. DOMAIN pending = {}
  BY DEF Init
<1>3. TypeOK
  <2>1. /\ last = NoSummary /\ shown = [period |-> NoDay, content |-> {}]
        /\ checkins = [r \in Records |-> NoDay]
        /\ accepted = [n \in Names |-> [p \in 1..Parts |-> 0]]
    BY DEF Init
  <2>2. last \in LastType /\ shown \in ShownType
    BY <2>1 DEF NoSummary, LastType, ShownType
  <2>3. checkins \in [Records -> Days \cup {NoDay}] /\ accepted \in [Names -> [1..Parts -> Nat]]
    BY <2>1
  <2>4. 0 \in Days
    BY DEF Days, ConstantsAssumption
  <2>5. /\ completed = {} /\ failed = {} /\ deleted = {} /\ toEnqueue = {} /\ on = TRUE
        /\ bound = FALSE /\ wake = "none" /\ day = 0 /\ requests = 0 /\ faults = 0
        /\ saves = 0 /\ owed = 0 /\ served = 0
    BY DEF Init
  <2> QED
    BY <1>1, <1>2, <2>2, <2>3, <2>4, <2>5 DEF TypeOK, LastType, ShownType
<1>4. JobsInv /\ WorkerInv /\ CommittedInv
  BY <1>1, <1>2 DEF Init, JobsInv, WorkerInv, CommittedInv
<1>5. RefreshInv
  BY DEF Init, RefreshInv, Kept
<1>6. DuplicatesNeedFaults
  BY DEF Init, DuplicatesNeedFaults
<1> QED
  BY <1>3, <1>4, <1>5, <1>6 DEF QueueInv

\* Whatever happens next, the invariant stays.
LEMMA QueueInvNext ==
    ASSUME QueueInv, ConstantsAssumption, [Next]_vars
    PROVE  QueueInv'
<1>1. CASE UNCHANGED vars
  <2>1. UNCHANGED <<pending, completed, failed, last, worker, faults, served, accepted, shown>>
    BY <1>1 DEF vars, history
  <2>2. UNCHANGED <<checkins, deleted, toEnqueue, on, bound, wake, day, requests, saves, owed>>
    BY <1>1 DEF vars, world
  <2>3. TypeOK' /\ JobsInv' /\ WorkerInv' /\ CommittedInv' /\ DuplicatesNeedFaults'
    BY <2>1, <2>2 DEF QueueInv, TypeOK, JobsInv, WorkerInv, CommittedInv, DuplicatesNeedFaults
  <2>4. RefreshInv'
    BY <2>1, <2>2 DEF QueueInv, RefreshInv, Kept, Reads
  <2> QED
    BY <2>3, <2>4 DEF QueueInv
<1>2. CASE WorkerStep
  BY <1>2, ProcessSound, EnabledSound, SnapshotSound, CheckNeedsSendSound, FreezeSound,
     SendTextSound, AnsweredSound, FinishSound, RecordSound, FinalizeSound, SkipExpiredSound
     DEF WorkerStep
<1>3. CASE \E n \in Names : BackoffEnds(n)
  BY <1>3, BackoffEndsSound
<1>4. CASE Kill \/ Cancel
  BY <1>4, KillSound, CancelSound
<1>5. CASE SaveConfig \/ WakeInitial \/ EnqueueAfterWake
  BY <1>5, SaveConfigSound, WakeInitialSound, EnqueueAfterWakeSound
<1>6. CASE Bind \/ \E r \in Records : Enqueue(r)
  BY <1>6, EnqueueSound
<1>7. CASE \/ \E r \in Records : CommitCheckin(r) \/ DeleteCheckin(r)
           \/ Unbind \/ ClearFailed \/ Midnight
  BY <1>7, RequestsSound
<1> QED
  BY <1>1, <1>2, <1>3, <1>4, <1>5, <1>6, <1>7 DEF Next

\* The queue's types, the jobs in their files and in the worker's hands, and
\* what each has read stay sound, whatever requests, crashes and lost answers
\* come between the steps of process and finish.
THEOREM QueueStaysSound == Spec => []QueueInv
<1>1. Init => QueueInv
  BY ConstantsAssumption, QueueInvInit
<1>2. QueueInv /\ [Next]_vars => QueueInv'
  BY ConstantsAssumption, QueueInvNext
<1> QED
  BY <1>1, <1>2, PTL DEF Spec

\* No wake is lost: a configuration whose WakeInitial has returned is read by
\* the initial job before that job is archived.
THEOREM RefreshIsNotLost == Spec => []RefreshNotLost
<1>1. QueueInv => RefreshNotLost
  BY DEF QueueInv, RefreshInv, Kept, Reads, RefreshNotLost
<1> QED
  BY <1>1, QueueStaysSound, PTL

\* A job counts as sent only when the chat has every part of its body, in
\* order, wherever process or finish was cut off.
THEOREM SentMeansDelivered == Spec => []SentWasDelivered
<1>1. QueueInv => SentWasDelivered
  BY DEF QueueInv, JobsInv, FileOK, Sound, SentWasDelivered
<1> QED
  BY <1>1, QueueStaysSound, PTL

\* Each copy the chat gets too many goes back to a fault of its own.
THEOREM DuplicatesAreFaults == Spec => []DuplicatesNeedFaults
<1>1. QueueInv => DuplicatesNeedFaults
  BY DEF QueueInv
<1> QED
  BY <1>1, QueueStaysSound, PTL

\* Within a period sentStateStore's coverage never shrinks.
THEOREM CoverageOnlyGrows == Spec => CoverageGrows
<1>1. ASSUME QueueInv, ConstantsAssumption, Next, last' # last, last'.period = last.period
      PROVE  last'.covered >= last.covered
  <2>1. CheckNeedsSend \/ Record
    BY <1>1 DEF Next, WorkerStep, CommitCheckin, Enqueue, DeleteCheckin, SaveConfig, WakeInitial,
       EnqueueAfterWake, Bind, Unbind, ClearFailed, Midnight, Kill, Cancel, process, Enabled,
       Snapshot, freeze, SendText, Answered, finish, finalize, SkipExpired, BackoffEnds
  <2>2. worker.pc # "idle"
    BY <2>1 DEF CheckNeedsSend, Record
  <2>3. /\ last \in LastType /\ worker.name \in Names /\ worker.item \in Job
    BY <1>1, <2>2, Holding
  <2>4. Covered(worker.name, worker.item) \in Nat /\ last.covered \in Nat
    BY <1>1, <2>3, CoveredType DEF LastType
  <2>5. CASE last'.covered = Larger(Covered(worker.name, worker.item), last.covered)
             \/ last'.covered = Larger(last.covered, Covered(worker.name, worker.item))
    BY <2>4, <2>5 DEF Larger
  <2>6. CASE CheckNeedsSend
    <3>1. last' = [last EXCEPT !.covered = Larger(last.covered, Covered(worker.name, worker.item))]
      BY <1>1, <2>6 DEF CheckNeedsSend
    <3>2. last'.covered = Larger(last.covered, Covered(worker.name, worker.item))
      BY <2>3, <3>1 DEF LastType
    <3> QED
      BY <2>5, <3>2
  <2>7. CASE Record
    <3>1. last' = [period |-> worker.item.period, content |-> worker.item.content,
                   covered |-> IF last.period = worker.item.period
                               THEN Larger(Covered(worker.name, worker.item), last.covered)
                               ELSE Covered(worker.name, worker.item)]
      BY <1>1, <2>7 DEF Record
    <3>2. last'.period = worker.item.period
      BY <3>1
    <3> QED
      BY <1>1, <2>5, <3>1, <3>2
  <2> QED
    BY <2>1, <2>6, <2>7
<1>2. QueueInv /\ [Next]_vars => [last'.period = last.period => last'.covered >= last.covered]_last
  BY <1>1, ConstantsAssumption DEF vars
<1> QED
  BY <1>2, QueueStaysSound, PTL DEF Spec, CoverageGrows

=============================================================================
