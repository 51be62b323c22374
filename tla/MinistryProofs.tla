---------------------------- MODULE MinistryProofs ----------------------------
(***************************************************************************)
(* Proofs about the membership of a ministry group, for any users, jobs    *)
(* and rounds.  MinistryInv is inductive; NoLockCycle follows from the     *)
(* order of the locks alone.                                               *)
(***************************************************************************)
EXTENDS Ministry, FiniteSetTheorems, TLAPS

LEMMA NoJobType == NoJob \in JobType /\ NoJob.held = 0 /\ NoJob.op = "none"
BY DEF NoJob, JobType

\* The locks of a job, one operation after the other.
LEMMA Orders ==
    ASSUME NEW j \in JobType
    PROVE  /\ j.held \in Nat
           /\ j.op \in {"join", "approved"} =>
                /\ LockOrder(j) = <<GroupLock, MemberLock(j.user), RequestLock(j.user)>>
                /\ j.user \in Users
           /\ j.op = "rejected" =>
                /\ LockOrder(j) = <<GroupLock, RequestLock(j.user)>>
                /\ j.user \in Users
           /\ j.op \in {"leave", "settings"} => LockOrder(j) = <<GroupLock>>
           /\ j.op = "remove" =>
                /\ LockOrder(j) = <<MemberLock(j.user), RequestLock(j.user)>>
                /\ j.user \in Users
           /\ j.op \in {"none", "role"} => LockOrder(j) = << >>
           /\ j.op \in {"join", "approved", "rejected", "leave", "settings", "remove", "none", "role"}
BY DEF LockOrder, JobType, NoJob

\* The place of a lock in every order.
Rank(lock) ==
    CASE lock.table = "ministry_groups"         -> 1
      [] lock.table = "group_members"           -> 2
      [] lock.table = "ministry_group_requests" -> 3

LEMMA LockRank ==
    /\ Rank(GroupLock) = 1
    /\ \A u : Rank(MemberLock(u)) = 2 /\ Rank(RequestLock(u)) = 3
BY DEF Rank, GroupLock, MemberLock, RequestLock

\* A job that waits holds only locks that come before the one it wants.
LEMMA HeldBefore ==
    ASSUME StateType, NEW q \in Jobs, ~Locked(q), NEW lock \in Holds(q)
    PROVE  /\ Rank(lock) < Rank(Wants(q))
           /\ Rank(lock) \in 1..3 /\ Rank(Wants(q)) \in 1..3
<1> DEFINE j == job[q]
<1>1. j \in JobType
  BY DEF StateType
<1>2. PICK i \in 1..j.held : lock = LockOrder(j)[i]
  BY DEF Holds
<1>3. j.held # Len(LockOrder(j))
  BY DEF Locked
<1>4. CASE j.op \in {"join", "approved"}
  <2>1. LockOrder(j) = <<GroupLock, MemberLock(j.user), RequestLock(j.user)>> /\ Len(LockOrder(j)) = 3
    BY <1>1, <1>4, Orders
  <2>2. j.held \in 0..3
    BY <1>1, <1>4 DEF JobType, NoJob
  <2>3. j.held \in 1..2 /\ i \in 1..2 /\ i <= j.held
    BY <1>2, <1>3, <2>1, <2>2
  <2> QED
    BY <1>2, <2>1, <2>3, LockRank DEF Wants
<1>5. CASE j.op = "rejected"
  <2>1. LockOrder(j) = <<GroupLock, RequestLock(j.user)>> /\ Len(LockOrder(j)) = 2
    BY <1>1, <1>5, Orders
  <2>2. j.held \in 0..2
    BY <1>1, <1>5 DEF JobType, NoJob
  <2>3. j.held = 1 /\ i = 1
    BY <1>2, <1>3, <2>1, <2>2
  <2> QED
    BY <1>2, <2>1, <2>3, LockRank DEF Wants
<1>6. CASE j.op = "remove"
  <2>1. LockOrder(j) = <<MemberLock(j.user), RequestLock(j.user)>> /\ Len(LockOrder(j)) = 2
    BY <1>1, <1>6, Orders
  <2>2. j.held \in 0..2
    BY <1>1, <1>6 DEF JobType, NoJob
  <2>3. j.held = 1 /\ i = 1
    BY <1>2, <1>3, <2>1, <2>2
  <2> QED
    BY <1>2, <2>1, <2>3, LockRank DEF Wants
<1>7. CASE j.op \in {"leave", "settings"}
  <2>1. Len(LockOrder(j)) = 1
    BY <1>1, <1>7, Orders
  <2>2. j.held \in 0..1
    BY <1>1, <1>7 DEF JobType, NoJob
  <2> QED
    BY <1>2, <1>3, <2>1, <2>2
<1>8. CASE j.op \in {"none", "role"}
  <2>1. j.held = 0
    BY <1>1, <1>8 DEF JobType, NoJob
  <2> QED
    BY <1>2, <2>1
<1> QED
  BY <1>1, <1>4, <1>5, <1>6, <1>7, <1>8, Orders

\* Each wait leads to a lock of a higher rank, and there are three ranks.
LEMMA NoCycle == StateType => NoLockCycle
<1> SUFFICES ASSUME StateType, NEW S \in SUBSET Jobs, S # {},
                    \A p \in S : \E q \in S : WaitsFor(p, q)
             PROVE  FALSE
  BY DEF NoLockCycle
<1>1. \A p, q \in S : WaitsFor(p, q) /\ ~Locked(q) =>
          /\ Rank(Wants(p)) < Rank(Wants(q))
          /\ Rank(Wants(p)) \in 1..3 /\ Rank(Wants(q)) \in 1..3
  <2> SUFFICES ASSUME NEW p \in S, NEW q \in S, WaitsFor(p, q), ~Locked(q)
               PROVE  /\ Rank(Wants(p)) < Rank(Wants(q))
                      /\ Rank(Wants(p)) \in 1..3 /\ Rank(Wants(q)) \in 1..3
    OBVIOUS
  <2>1. Wants(p) \in Holds(q) /\ q \in Jobs
    BY DEF WaitsFor
  <2> QED
    BY <2>1, HeldBefore
<1>2. \A p \in S : ~Locked(p)
  BY DEF WaitsFor
<1>3. PICK p0 \in S : TRUE
  OBVIOUS
<1>4. PICK p1 \in S : WaitsFor(p0, p1)
  OBVIOUS
<1>5. PICK p2 \in S : WaitsFor(p1, p2)
  OBVIOUS
<1>6. PICK p3 \in S : WaitsFor(p2, p3)
  OBVIOUS
<1>7. Rank(Wants(p0)) < Rank(Wants(p1)) /\ Rank(Wants(p0)) \in 1..3 /\ Rank(Wants(p1)) \in 1..3
  BY <1>1, <1>2, <1>4
<1>8. Rank(Wants(p1)) < Rank(Wants(p2)) /\ Rank(Wants(p2)) \in 1..3
  BY <1>1, <1>2, <1>5
<1>9. Rank(Wants(p2)) < Rank(Wants(p3)) /\ Rank(Wants(p3)) \in 1..3
  BY <1>1, <1>2, <1>6
<1> QED
  BY <1>7, <1>8, <1>9

-----------------------------------------------------------------------------
\* A job that starts or ends holds nothing and leaves the others as they are.
LEMMA Released ==
    ASSUME StateType, Exclusion, NEW p \in Jobs, NEW j \in JobType, j.held = 0,
           job' = [job EXCEPT ![p] = j]
    PROVE  /\ job' \in [Jobs -> JobType]
           /\ Exclusion'
           /\ \A q \in Jobs : job'[q] = job[q] \/ job'[q].held = 0
<1>1. job' \in [Jobs -> JobType] /\ job'[p] = j /\ \A q \in Jobs \ {p} : job'[q] = job[q]
  BY DEF StateType
<1>2. Holds(p)' = {}
  BY <1>1 DEF Holds
<1>3. \A q \in Jobs \ {p} : Holds(q)' = Holds(q)
  BY <1>1 DEF Holds, LockOrder, GroupLock, MemberLock, RequestLock
<1> QED
  BY <1>1, <1>2, <1>3 DEF Exclusion

\* A step that leaves the jobs alone leaves the locks alone.
LEMMA LocksStay ==
    ASSUME Exclusion, UNCHANGED job
    PROVE  Exclusion'
<1>1. \A q \in Jobs : Holds(q)' = Holds(q)
  BY DEF Holds, LockOrder, GroupLock, MemberLock, RequestLock
<1> QED
  BY <1>1 DEF Exclusion

\* Taking a free lock.
LEMMA Taken ==
    ASSUME StateType, Exclusion, NEW p \in Jobs, ~Locked(p), Free(Wants(p)),
           job' = [job EXCEPT ![p].held = @ + 1]
    PROVE  /\ job' \in [Jobs -> JobType]
           /\ Exclusion'
           /\ \A q \in Jobs \ {p} : job'[q] = job[q]
           /\ job'[p].op = job[p].op /\ job'[p].user = job[p].user
           /\ job'[p].held = job[p].held + 1
<1> DEFINE j == job[p]
           k == [j EXCEPT !.held = @ + 1]
<1>1. j \in JobType
  BY DEF StateType
<1>2. job' = [job EXCEPT ![p] = k]
  BY DEF StateType
<1>3. k.op = j.op /\ k.user = j.user /\ k.switch = j.switch /\ k.round = j.round /\ k.held = j.held + 1
  BY <1>1 DEF JobType, NoJob
<1>4. LockOrder(k) = LockOrder(j)
  BY <1>3 DEF LockOrder
<1>5. j.held # Len(LockOrder(j)) /\ j.held \in Nat
  BY <1>1, Orders DEF Locked
<1>6. k \in JobType
  <2>1. CASE j.op = "join"
    <3>1. j.held \in 0..2
      <4>1. Len(LockOrder(j)) = 3
        BY <1>1, <2>1, Orders
      <4>2. j.held \in 0..3
        BY <1>1, <2>1 DEF JobType, NoJob
      <4> QED
        BY <4>1, <4>2, <1>5
    <3>2. k.held \in 0..3
      BY <3>1, <1>3
    <3> QED
      BY <1>1, <2>1, <3>2 DEF JobType, NoJob
  <2>2. CASE j.op = "approved"
    <3>1. j.held \in 0..2
      <4>1. Len(LockOrder(j)) = 3
        BY <1>1, <2>2, Orders
      <4>2. j.held \in 0..3
        BY <1>1, <2>2 DEF JobType, NoJob
      <4> QED
        BY <4>1, <4>2, <1>5
    <3>2. k.held \in 0..3
      BY <3>1, <1>3
    <3> QED
      BY <1>1, <2>2, <3>2 DEF JobType, NoJob
  <2>3. CASE j.op = "rejected"
    <3>1. Len(LockOrder(j)) = 2 /\ j.held \in 0..2
      BY <1>1, <2>3, Orders DEF JobType, NoJob
    <3>2. k.held \in 0..2
      BY <3>1, <1>3, <1>5
    <3> QED
      BY <1>1, <2>3, <3>2 DEF JobType, NoJob
  <2>4. CASE j.op = "leave"
    <3>1. Len(LockOrder(j)) = 1 /\ j.held \in 0..1
      BY <1>1, <2>4, Orders DEF JobType, NoJob
    <3>2. k.held \in 0..1
      BY <3>1, <1>3, <1>5
    <3> QED
      BY <1>1, <2>4, <3>2 DEF JobType, NoJob
  <2>5. CASE j.op = "settings"
    <3>1. Len(LockOrder(j)) = 1 /\ j.held \in 0..1
      BY <1>1, <2>5, Orders DEF JobType, NoJob
    <3>2. k.held \in 0..1
      BY <3>1, <1>3, <1>5
    <3> QED
      BY <1>1, <2>5, <3>2 DEF JobType, NoJob
  <2>6. CASE j.op = "remove"
    <3>1. Len(LockOrder(j)) = 2 /\ j.held \in 0..2
      BY <1>1, <2>6, Orders DEF JobType, NoJob
    <3>2. k.held \in 0..2
      BY <3>1, <1>3, <1>5
    <3> QED
      BY <1>1, <2>6, <3>2 DEF JobType, NoJob
  <2>7. CASE j.op \in {"none", "role"}
    <3>1. Len(LockOrder(j)) = 0 /\ j.held = 0
      BY <1>1, <2>7, Orders DEF JobType, NoJob
    <3> QED
      BY <3>1, <1>5
  <2> QED
    BY <1>1, <2>1, <2>2, <2>3, <2>4, <2>5, <2>6, <2>7, Orders
<1>7. job' \in [Jobs -> JobType] /\ job'[p] = k /\ \A q \in Jobs \ {p} : job'[q] = job[q]
  BY <1>2, <1>6 DEF StateType
<1>8. Holds(p)' \subseteq Holds(p) \cup {Wants(p)}
  <2>1. Holds(p)' = {LockOrder(k)[i] : i \in 1..k.held}
    BY <1>7 DEF Holds, LockOrder, GroupLock, MemberLock, RequestLock
  <2>2. \A i \in 1..k.held : i \in 1..j.held \/ i = j.held + 1
    BY <1>3, <1>5
  <2> QED
    BY <2>1, <2>2, <1>4 DEF Holds, Wants
<1>9. \A q \in Jobs \ {p} : Holds(q)' = Holds(q) /\ Wants(p) \notin Holds(q)
  BY <1>7 DEF Holds, LockOrder, GroupLock, MemberLock, RequestLock, Free
<1> QED
  BY <1>3, <1>7, <1>8, <1>9 DEF Exclusion

-----------------------------------------------------------------------------
LEMMA InitInv == Init => MinistryInv
<1> SUFFICES ASSUME Init PROVE MinistryInv
  OBVIOUS
<1>1. StateType
  BY NoJobType DEF Init, StateType, Switches, Outcomes
<1>2. RoleInv /\ LeaderIsMember /\ RulingInv
  BY DEF Init, RoleInv, LeaderIsMember, RulingInv, RoundsRuledOnce, IsMember
<1>3. \A p \in Jobs : job[p].held = 0
  BY NoJobType DEF Init
<1>4. Exclusion
  BY <1>3 DEF Exclusion, Holds
<1>5. ApplicantInv
  BY <1>3 DEF ApplicantInv
<1>6. OnlyInsidersApply
  BY DEF Init, OnlyInsidersApply
<1> QED
  BY <1>1, <1>2, <1>4, <1>5, <1>6 DEF MinistryInv

\* What a step leaves alone when it changes no table.
Tables == <<group, inside, members, request, rulings, promoted>>

\* A service, a refusal or a lock changes the jobs only.
LEMMA JobsOnly ==
    ASSUME MinistryInv, UNCHANGED Tables, job' \in [Jobs -> JobType], Exclusion', ApplicantInv'
    PROVE  MinistryInv'
<1> USE DEF Tables
<1>1. StateType'
  BY DEF MinistryInv, StateType
<1>2. RoleInv' /\ LeaderIsMember'
  BY DEF MinistryInv, RoleInv, LeaderIsMember, IsMember
<1>3. RulingInv'
  BY DEF MinistryInv, RulingInv, RoundsRuledOnce
<1>4. OnlyInsidersApply'
  BY DEF MinistryInv, OnlyInsidersApply
<1> QED
  BY <1>1, <1>2, <1>3, <1>4 DEF MinistryInv

\* Nobody whose row is held leaves while jobs start and end.
LEMMA ApplicantsStay ==
    ASSUME ApplicantInv, \A q \in Jobs : job'[q] = job[q] \/ job'[q].held = 0, inside \subseteq inside'
    PROVE  ApplicantInv'
BY DEF ApplicantInv

LEMMA StartInv ==
    ASSUME MinistryInv, NEW p \in Jobs, NEW j \in JobType, j.held = 0, Start(p, j)
    PROVE  MinistryInv'
<1>1. StateType /\ Exclusion /\ ApplicantInv
  BY DEF MinistryInv
<1>2. UNCHANGED Tables /\ job' = [job EXCEPT ![p] = j]
  BY DEF Start, Tables
<1>3. job' \in [Jobs -> JobType] /\ Exclusion' /\ \A q \in Jobs : job'[q] = job[q] \/ job'[q].held = 0
  BY <1>1, <1>2, Released
<1>4. ApplicantInv'
  BY <1>1, <1>2, <1>3, ApplicantsStay DEF Tables
<1> QED
  BY <1>2, <1>3, <1>4, JobsOnly

LEMMA ServicesInv ==
    ASSUME MinistryInv, NEW p \in Jobs, Services(p)
    PROVE  MinistryInv'
<1>0. group.autoApprove \in Switches
  BY DEF MinistryInv, StateType
<1>1. ASSUME NEW u \in Users, RequestJoinService(p, u) PROVE MinistryInv'
  <2>1. NewJob("join", u, group.autoApprove, 0) \in JobType /\ NewJob("join", u, group.autoApprove, 0).held = 0
    BY <1>0 DEF NewJob, JobType
  <2> QED
    BY <1>1, <2>1, StartInv DEF RequestJoinService
<1>2. ASSUME NEW u \in Users, LeaveService(p, u) PROVE MinistryInv'
  <2>1. NewJob("leave", u, "off", 0) \in JobType /\ NewJob("leave", u, "off", 0).held = 0
    BY DEF NewJob, JobType
  <2> QED
    BY <1>2, <2>1, StartInv DEF LeaveService
<1>3. ASSUME NEW u \in Users, RemoveMemberService(p, u) PROVE MinistryInv'
  <2>1. NewJob("remove", u, "off", 0) \in JobType /\ NewJob("remove", u, "off", 0).held = 0
    BY DEF NewJob, JobType
  <2> QED
    BY <1>3, <2>1, StartInv DEF RemoveMemberService
<1>4. ASSUME NEW u \in Users, NEW seen \in 1..MaxRound, NEW d \in Outcomes,
             DecideRequestService(p, u, seen, d)
      PROVE  MinistryInv'
  <2>1. NewJob(d, u, "off", seen) \in JobType /\ NewJob(d, u, "off", seen).held = 0
    BY DEF NewJob, JobType, Outcomes
  <2> QED
    BY <1>4, <2>1, StartInv DEF DecideRequestService
<1>5. ASSUME NEW u \in Users, NEW admin \in Switches, SetMemberRoleService(p, u, admin)
      PROVE  MinistryInv'
  <2>1. NewJob("role", u, admin, 0) \in JobType /\ NewJob("role", u, admin, 0).held = 0
    BY DEF NewJob, JobType
  <2> QED
    BY <1>5, <2>1, StartInv DEF SetMemberRoleService
<1>6. ASSUME NEW leader \in Users \cup {Nobody}, NEW auto \in Switches \cup {"keep"},
             UpdateSettingsService(p, leader, auto)
      PROVE  MinistryInv'
  <2>1. NewJob("settings", leader, auto, 0) \in JobType /\ NewJob("settings", leader, auto, 0).held = 0
    BY DEF NewJob, JobType
  <2> QED
    BY <1>6, <2>1, StartInv DEF UpdateSettingsService
<1> QED
  BY <1>1, <1>2, <1>3, <1>4, <1>5, <1>6 DEF Services

LEMMA LockRowInv ==
    ASSUME MinistryInv, NEW p \in Jobs, LockRow(p)
    PROVE  MinistryInv'
<1>1. StateType /\ Exclusion /\ ApplicantInv /\ UNCHANGED Tables
  BY DEF MinistryInv, LockRow, Tables
<1>2. CASE job' = [job EXCEPT ![p] = NoJob]
  <2>1. job' \in [Jobs -> JobType] /\ Exclusion' /\ \A q \in Jobs : job'[q] = job[q] \/ job'[q].held = 0
    BY <1>1, <1>2, NoJobType, Released
  <2>2. ApplicantInv'
    BY <1>1, <2>1, ApplicantsStay DEF Tables
  <2> QED
    BY <1>1, <2>1, <2>2, JobsOnly
<1>3. CASE ~Refused(job[p], Wants(p)) /\ job' = [job EXCEPT ![p].held = @ + 1]
  <2>1. ~Locked(p) /\ Free(Wants(p))
    BY DEF LockRow
  <2>2. /\ job' \in [Jobs -> JobType] /\ Exclusion' /\ \A q \in Jobs \ {p} : job'[q] = job[q]
        /\ job'[p].op = job[p].op /\ job'[p].user = job[p].user /\ job'[p].held = job[p].held + 1
    BY <1>1, <1>3, <2>1, Taken
  <2>3. ASSUME job[p].op \in {"join", "approved"}, job[p].held + 1 >= 2
        PROVE  job[p].user \in inside
    <3>1. job[p] \in JobType
      BY <1>1 DEF StateType
    <3>2. LockOrder(job[p]) = <<GroupLock, MemberLock(job[p].user), RequestLock(job[p].user)>>
      BY <3>1, <2>3, Orders
    <3>3. job[p].held \in Nat
      BY <3>1, Orders
    <3>4. CASE job[p].held = 1
      <4>1. Wants(p) = MemberLock(job[p].user)
        BY <3>2, <3>4 DEF Wants
      <4> QED
        BY <4>1, <1>3, <2>3 DEF Refused
    <3>5. CASE job[p].held >= 2
      BY <3>5, <1>1, <2>3 DEF ApplicantInv
    <3> QED
      BY <3>3, <3>4, <3>5, <2>3
  <2>4. ApplicantInv'
    BY <1>1, <2>2, <2>3 DEF ApplicantInv, Tables
  <2> QED
    BY <1>1, <2>2, <2>4, JobsOnly
<1> QED
  BY <1>2, <1>3 DEF LockRow, Ends

-----------------------------------------------------------------------------
\* The end of a transaction, as far as the jobs go.
LEMMA EndJob ==
    ASSUME MinistryInv, NEW p \in Jobs, Ends(p)
    PROVE  /\ job' \in [Jobs -> JobType] /\ Exclusion'
           /\ \A q \in Jobs : job'[q] = job[q] \/ job'[q].held = 0
BY NoJobType, Released DEF MinistryInv, Ends

\* An application or approval that holds its locks is of somebody inside.
LEMMA LockedApplicant ==
    ASSUME MinistryInv, NEW p \in Jobs, Locked(p), job[p].op \in {"join", "approved"}
    PROVE  job[p].user \in inside /\ job[p].user \in Users
<1>1. job[p] \in JobType
  BY DEF MinistryInv, StateType
<1>2. Len(LockOrder(job[p])) = 3 /\ job[p].user \in Users
  BY <1>1, Orders
<1>3. job[p].held >= 2
  BY <1>2 DEF Locked
<1> QED
  BY <1>2, <1>3 DEF MinistryInv, ApplicantInv

\* Deciding on a round that nobody decided on: the pending one, or a new one.
LEMMA Decided ==
    ASSUME StateType, RulingInv, NEW u \in Users, NEW x,
           NEW r \in [status : Outcomes, round : Nat],
           \/ request[u].status = "pending" /\ r.round = request[u].round
           \/ r.round = request[u].round + 1,
           request' = [request EXCEPT ![u] = r],
           rulings' = rulings \cup {x},
           x.user = u, x.round = r.round, x.seen = r.round
    PROVE  RulingInv'
<1>1. request'[u] = r /\ \A v \in Users \ {u} : request'[v] = request[v]
  BY DEF StateType
<1>2. r.round \in Nat /\ r.status # "pending" /\ request[u].round \in Nat /\ request[u].round <= r.round
  BY DEF StateType, Outcomes
<1>3. \A y \in rulings : y.user = u => y.round # r.round /\ y.round <= r.round
  BY <1>2 DEF RulingInv
<1>4. \A y \in rulings' : /\ y.user \in Users /\ y.round \in Nat
                          /\ y.round <= request'[y.user].round
                          /\ request'[y.user].status = "pending" => y.round # request'[y.user].round
  BY <1>1, <1>2, <1>3 DEF RulingInv
<1>5. RoundsRuledOnce'
  BY <1>3 DEF RulingInv, RoundsRuledOnce
<1> QED
  BY <1>4, <1>5 DEF RulingInv

\* A new round has no ruling yet.
LEMMA Resubmitted ==
    ASSUME StateType, RulingInv, NEW u \in Users,
           NEW r \in [status : Outcomes \cup {"none", "pending"}, round : Nat],
           r = request[u] \/ r.round = request[u].round + 1,
           request' = [request EXCEPT ![u] = r], UNCHANGED rulings
    PROVE  RulingInv'
<1>1. request'[u] = r /\ \A v \in Users \ {u} : request'[v] = request[v]
  BY DEF StateType
<1>2. request[u].round \in Nat
  BY DEF StateType
<1>3. \A y \in rulings : /\ y.user \in Users /\ y.round \in Nat
                         /\ y.round <= request'[y.user].round
                         /\ request'[y.user].status = "pending" => y.round # request'[y.user].round
  BY <1>1, <1>2 DEF RulingInv
<1> QED
  BY <1>3 DEF RulingInv, RoundsRuledOnce

\* Admission, by whichever way, keeps roles and the leader's membership.
LEMMA Admission ==
    ASSUME StateType, RoleInv, LeaderIsMember, NEW u \in Users, Admit(u), UNCHANGED group
    PROVE  /\ members' \in [Users -> [active : BOOLEAN, role : {"member", "admin"}]]
           /\ RoleInv' /\ LeaderIsMember'
<1>1. members'[u].active /\ members'[u].role = "member" /\ \A v \in Users \ {u} : members'[v] = members[v]
  BY DEF Admit, StateType
<1>2. members' \in [Users -> [active : BOOLEAN, role : {"member", "admin"}]]
  BY DEF Admit, StateType
<1>3. RoleInv'
  BY <1>1 DEF RoleInv, IsMember, Admit
<1>4. LeaderIsMember'
  BY <1>1 DEF LeaderIsMember, IsMember, StateType
<1> QED
  BY <1>2, <1>3, <1>4

LEMMA SubmittedType ==
    ASSUME StateType, NEW u \in Users
    PROVE  /\ Submitted(u) \in [status : {"pending"}, round : Nat]
           /\ \/ request[u].status = "pending" /\ Submitted(u) = request[u]
              \/ Submitted(u).round = request[u].round + 1
<1>1. request[u] \in [status : Outcomes \cup {"none", "pending"}, round : Nat]
  BY DEF StateType
<1>2. CASE request[u].status = "pending"
  BY <1>1, <1>2 DEF Submitted
<1>3. CASE request[u].status # "pending"
  BY <1>1, <1>3 DEF Submitted
<1> QED
  BY <1>2, <1>3

\* A transaction that finds nothing to do.
LEMMA NothingInv ==
    ASSUME MinistryInv, NEW p \in Jobs, Nothing, Ends(p), UNCHANGED <<group, inside>>
    PROVE  MinistryInv'
<1>1. job' \in [Jobs -> JobType] /\ Exclusion' /\ \A q \in Jobs : job'[q] = job[q] \/ job'[q].held = 0
  BY EndJob
<1>2. ApplicantInv'
  BY <1>1, ApplicantsStay DEF MinistryInv
<1> QED
  BY <1>1, <1>2, JobsOnly DEF Nothing, Tables

LEMMA RequestJoinInv ==
    ASSUME MinistryInv, NEW p \in Jobs, RequestJoin(p)
    PROVE  MinistryInv'
<1> DEFINE u == job[p].user
           r == [Submitted(u) EXCEPT !.status = "approved"]
<1>1. /\ job[p].op = "join" /\ Locked(p) /\ Ends(p) /\ UNCHANGED <<group, inside>>
      /\ \/ IsMember(u) /\ Nothing
         \/ ~IsMember(u) /\ job[p].switch = "on" /\ AutoApprove(u)
         \/ ~IsMember(u) /\ job[p].switch = "off" /\ Submit(u)
  BY DEF RequestJoin
<1>2. u \in inside /\ u \in Users
  BY <1>1, LockedApplicant
<1>3. job' \in [Jobs -> JobType] /\ Exclusion' /\ \A q \in Jobs : job'[q] = job[q] \/ job'[q].held = 0
  BY <1>1, EndJob
<1>4. ApplicantInv'
  BY <1>1, <1>3, ApplicantsStay DEF MinistryInv
<1>5. StateType /\ RulingInv /\ RoleInv /\ LeaderIsMember /\ OnlyInsidersApply
  BY DEF MinistryInv
<1>6. CASE Nothing
  BY <1>1, <1>6, NothingInv
<1>7. CASE AutoApprove(u)
  <2>1. r \in [status : Outcomes, round : Nat] /\ r.round = Submitted(u).round
    BY <1>2, <1>5, SubmittedType DEF Outcomes
  <2>2. request' = [request EXCEPT ![u] = r] /\ Admit(u) /\ Rule(u, "approved", "auto", Submitted(u).round)
    BY <1>7 DEF AutoApprove
  <2>3. request'[u] = r /\ \A v \in Users \ {u} : request'[v] = request[v]
    BY <2>2, <1>5, <1>2 DEF StateType
  <2> DEFINE x == Ruling(u, "approved", "auto", Submitted(u).round)
  <2>4. x.user = u /\ x.round = r.round /\ x.seen = r.round /\ x.inside /\ rulings' = rulings \cup {x}
    BY <1>2, <2>1, <2>2, <2>3 DEF Rule, Ruling
  <2>5. RulingInv'
    <3>1. \/ request[u].status = "pending" /\ r.round = request[u].round
          \/ r.round = request[u].round + 1
      BY <1>2, <1>5, <2>1, SubmittedType
    <3> HIDE DEF r, x
    <3> QED
      BY <1>2, <1>5, <2>1, <2>2, <2>4, <3>1, Decided
  <2>6. members' \in [Users -> [active : BOOLEAN, role : {"member", "admin"}]] /\ RoleInv' /\ LeaderIsMember'
    BY <1>1, <1>2, <1>5, <2>2, Admission
  <2>7. r.status = "approved"
    BY <1>2, <1>5, SubmittedType
  <2>8. OnlyInsidersApply'
    BY <1>1, <1>5, <2>3, <2>4, <2>7 DEF OnlyInsidersApply
  <2>9. StateType'
    BY <1>1, <1>2, <1>3, <1>5, <2>1, <2>2, <2>6 DEF StateType
  <2> QED
    BY <1>3, <1>4, <2>5, <2>6, <2>8, <2>9 DEF MinistryInv
<1>8. CASE Submit(u)
  <2>1. request' = [request EXCEPT ![u] = Submitted(u)] /\ UNCHANGED <<members, rulings, promoted>>
    BY <1>8 DEF Submit
  <2>2. Submitted(u) \in [status : Outcomes \cup {"none", "pending"}, round : Nat]
    BY <1>2, <1>5, SubmittedType
  <2>3. request'[u] = Submitted(u) /\ \A v \in Users \ {u} : request'[v] = request[v]
    BY <2>1, <1>5, <1>2 DEF StateType
  <2>4. RulingInv'
    <3>1. Submitted(u) = request[u] \/ Submitted(u).round = request[u].round + 1
      BY <1>2, <1>5, SubmittedType
    <3> QED
      BY <1>2, <1>5, <2>1, <2>2, <3>1, Resubmitted
  <2>5. RoleInv' /\ LeaderIsMember'
    BY <1>1, <1>5, <2>1 DEF RoleInv, LeaderIsMember, IsMember
  <2>6. OnlyInsidersApply'
    BY <1>1, <1>2, <1>5, <2>1, <2>3 DEF OnlyInsidersApply
  <2>7. StateType'
    BY <1>1, <1>2, <1>3, <1>5, <2>1, <2>2 DEF StateType
  <2> QED
    BY <1>3, <1>4, <2>4, <2>5, <2>6, <2>7 DEF MinistryInv
<1> QED
  BY <1>1, <1>6, <1>7, <1>8

LEMMA DecideRequestInv ==
    ASSUME MinistryInv, NEW p \in Jobs, DecideRequest(p)
    PROVE  MinistryInv'
<1> DEFINE u == job[p].user
           d == job[p].op
           r == [request[u] EXCEPT !.status = d]
<1>1. d \in Outcomes /\ Locked(p) /\ Ends(p) /\ UNCHANGED <<group, inside>>
  BY DEF DecideRequest
<1>2. u \in Users /\ (d = "approved" => u \in inside)
  <2>1. job[p] \in JobType
    BY DEF MinistryInv, StateType
  <2> QED
    BY <1>1, <2>1, Orders, LockedApplicant DEF Outcomes
<1>3. job' \in [Jobs -> JobType] /\ Exclusion' /\ \A q \in Jobs : job'[q] = job[q] \/ job'[q].held = 0
  BY <1>1, EndJob
<1>4. ApplicantInv'
  BY <1>1, <1>3, ApplicantsStay DEF MinistryInv
<1>5. StateType /\ RulingInv /\ RoleInv /\ LeaderIsMember /\ OnlyInsidersApply
  BY DEF MinistryInv
<1>6. CASE Nothing
  BY <1>1, <1>6, NothingInv
<1>7. CASE /\ DecidesSeenRound(job[p])
           /\ request' = [request EXCEPT ![u].status = d]
           /\ IF d = "approved" THEN Admit(u) ELSE UNCHANGED <<members, promoted>>
           /\ Rule(u, d, "review", job[p].round)
  <2>1. request[u] \in [status : Outcomes \cup {"none", "pending"}, round : Nat]
    BY <1>2, <1>5 DEF StateType
  <2>2. r \in [status : Outcomes, round : Nat] /\ r.round = request[u].round /\ r.status = d
    BY <1>1, <2>1
  <2>3. request' = [request EXCEPT ![u] = r]
    BY <1>2, <1>5, <1>7 DEF StateType
  <2>4. request'[u] = r /\ \A v \in Users \ {u} : request'[v] = request[v]
    BY <2>3, <1>5, <1>2 DEF StateType
  <2>5. request[u].status = "pending" /\ job[p].round = request[u].round
    BY <1>7 DEF DecidesSeenRound
  <2> DEFINE x == Ruling(u, d, "review", job[p].round)
  <2>6. /\ x.user = u /\ x.round = r.round /\ x.seen = r.round /\ x.outcome = d
        /\ x.inside = (u \in inside) /\ rulings' = rulings \cup {x}
    BY <1>7, <2>2, <2>4, <2>5 DEF Rule, Ruling
  <2>7. RulingInv'
    <3> HIDE DEF r, x, d
    <3> QED
      BY <1>2, <1>5, <2>2, <2>3, <2>5, <2>6, Decided
  <2>8. members' \in [Users -> [active : BOOLEAN, role : {"member", "admin"}]] /\ RoleInv' /\ LeaderIsMember'
    <3>1. CASE d = "approved"
      BY <1>1, <1>2, <1>5, <1>7, <3>1, Admission
    <3>2. CASE d # "approved"
      BY <1>1, <1>5, <1>7, <3>2 DEF StateType, RoleInv, LeaderIsMember, IsMember
    <3> QED
      BY <3>1, <3>2
  <2>9. OnlyInsidersApply'
    <3>1. r.status # "pending"
      BY <2>2 DEF Outcomes
    <3> QED
      BY <1>1, <1>2, <1>5, <2>4, <2>6, <3>1 DEF OnlyInsidersApply
  <2>10. StateType'
    BY <1>1, <1>2, <1>3, <1>5, <2>2, <2>3, <2>8 DEF StateType
  <2> QED
    BY <1>3, <1>4, <2>7, <2>8, <2>9, <2>10 DEF MinistryInv
<1> QED
  BY <1>6, <1>7 DEF DecideRequest

\* A transaction that changes neither applications nor who is inside.
LEMMA MembersOnly ==
    ASSUME MinistryInv, NEW p \in Jobs, Ends(p), UNCHANGED <<inside, request, rulings>>,
           group' \in [active : BOOLEAN, leader : Users \cup {Nobody}, autoApprove : Switches],
           members' \in [Users -> [active : BOOLEAN, role : {"member", "admin"}]],
           RoleInv', LeaderIsMember'
    PROVE  MinistryInv'
<1>1. job' \in [Jobs -> JobType] /\ Exclusion' /\ \A q \in Jobs : job'[q] = job[q] \/ job'[q].held = 0
  BY EndJob
<1>2. ApplicantInv'
  BY <1>1, ApplicantsStay DEF MinistryInv
<1>3. RulingInv'
  BY DEF MinistryInv, RulingInv, RoundsRuledOnce
<1>4. OnlyInsidersApply'
  BY DEF MinistryInv, OnlyInsidersApply
<1>5. StateType'
  BY <1>1 DEF MinistryInv, StateType
<1> QED
  BY <1>1, <1>2, <1>3, <1>4, <1>5 DEF MinistryInv

LEMMA LeaveInv ==
    ASSUME MinistryInv, NEW p \in Jobs, Leave(p)
    PROVE  MinistryInv'
<1> DEFINE u == job[p].user
<1>1. Ends(p) /\ UNCHANGED <<group, inside, request, rulings, promoted>>
  BY DEF Leave
<1>2. StateType /\ RoleInv /\ LeaderIsMember
  BY DEF MinistryInv
<1>3. u \in Users
  BY <1>2 DEF Leave, StateType, JobType, NoJob
<1>4. CASE MayLeave(u) /\ members' = [members EXCEPT ![u] = Left(u)]
  <2>1. Left(u) \in [active : BOOLEAN, role : {"member", "admin"}] /\ Left(u).role = "member"
    <3>1. members[u] \in [active : BOOLEAN, role : {"member", "admin"}]
      BY <1>2, <1>3 DEF StateType
    <3> HIDE DEF u
    <3> QED
      BY <3>1 DEF Left
  <2>2. members'[u] = Left(u) /\ \A v \in Users \ {u} : members'[v] = members[v]
    BY <1>2, <1>3, <1>4 DEF StateType
  <2>3. members' \in [Users -> [active : BOOLEAN, role : {"member", "admin"}]]
    BY <1>2, <1>4, <2>1 DEF StateType
  <2>4. RoleInv'
    BY <1>1, <1>2, <2>1, <2>2 DEF RoleInv, IsMember
  <2>5. group.leader # u
    BY <1>4 DEF MayLeave, IsLeader
  <2>6. LeaderIsMember'
    BY <1>1, <1>2, <2>2, <2>5 DEF LeaderIsMember, IsMember, StateType
  <2> QED
    BY <1>1, <1>2, <2>3, <2>4, <2>6, MembersOnly DEF StateType
<1>5. CASE UNCHANGED members
  <2>1. RoleInv' /\ LeaderIsMember'
    BY <1>1, <1>2, <1>5 DEF RoleInv, LeaderIsMember, IsMember
  <2> QED
    BY <1>1, <1>2, <1>5, <2>1, MembersOnly DEF StateType
<1> QED
  BY <1>4, <1>5 DEF Leave

LEMMA SetMemberRoleInv ==
    ASSUME MinistryInv, NEW p \in Jobs, SetMemberRole(p)
    PROVE  MinistryInv'
<1> DEFINE u == job[p].user
           admin == job[p].switch = "on"
           m == [members[u] EXCEPT !.role = IF admin THEN "admin" ELSE "member"]
<1>1. Ends(p) /\ UNCHANGED <<group, inside, request, rulings>>
  BY DEF SetMemberRole
<1>2. StateType /\ RoleInv /\ LeaderIsMember
  BY DEF MinistryInv
<1>3. u \in Users
  BY <1>2 DEF SetMemberRole, StateType, JobType, NoJob
<1>4. CASE IsMember(u)
  <2>1. /\ members' = [members EXCEPT ![u] = m]
        /\ promoted' = IF admin THEN promoted \cup {u} ELSE promoted \ {u}
    BY <1>2, <1>3, <1>4 DEF SetMemberRole, StateType
  <2>2. members[u] \in [active : BOOLEAN, role : {"member", "admin"}]
    BY <1>2, <1>3 DEF StateType
  <2>3. /\ m \in [active : BOOLEAN, role : {"member", "admin"}]
        /\ m.active = members[u].active /\ (m.role = "admin" => admin)
    BY <2>2
  <2>4. members'[u] = m /\ \A v \in Users \ {u} : members'[v] = members[v]
    BY <1>2, <1>3, <2>1 DEF StateType
  <2>5. members' \in [Users -> [active : BOOLEAN, role : {"member", "admin"}]]
    BY <1>2, <2>1, <2>3 DEF StateType
  <2>6. RoleInv'
    BY <1>2, <1>4, <2>1, <2>3, <2>4 DEF RoleInv, IsMember
  <2>7. LeaderIsMember'
    BY <1>1, <1>2, <2>3, <2>4 DEF LeaderIsMember, IsMember, StateType
  <2> QED
    BY <1>1, <1>2, <2>5, <2>6, <2>7, MembersOnly DEF StateType
<1>5. CASE ~IsMember(u)
  <2>1. UNCHANGED <<members, promoted>>
    BY <1>5 DEF SetMemberRole
  <2>2. RoleInv' /\ LeaderIsMember'
    BY <1>1, <1>2, <2>1 DEF RoleInv, LeaderIsMember, IsMember
  <2> QED
    BY <1>1, <1>2, <2>1, <2>2, MembersOnly DEF StateType
<1> QED
  BY <1>4, <1>5

LEMMA UpdateSettingsInv ==
    ASSUME MinistryInv, NEW p \in Jobs, UpdateSettings(p)
    PROVE  MinistryInv'
<1> DEFINE leader == job[p].user
           auto == job[p].switch
           m == [members[leader] EXCEPT !.active = TRUE]
<1>1. Ends(p) /\ UNCHANGED <<inside, request, rulings>>
  BY DEF UpdateSettings
<1>2. StateType /\ RoleInv /\ LeaderIsMember
  BY DEF MinistryInv
<1>3. leader \in Users \cup {Nobody} /\ auto \in Switches \cup {"keep"}
  <2>1. job[p] \in JobType /\ job[p].op = "settings"
    BY <1>2 DEF UpdateSettings, StateType
  <2> QED
    BY <2>1 DEF JobType, NoJob
<1>4. /\ group' \in [active : BOOLEAN, leader : Users \cup {Nobody}, autoApprove : Switches]
      /\ group'.leader = IF leader = Nobody THEN group.leader ELSE leader
  BY <1>2, <1>3 DEF UpdateSettings, StateType
<1>5. CASE leader = Nobody
  <2>1. UNCHANGED <<members, promoted>>
    BY <1>5 DEF UpdateSettings
  <2>2. RoleInv' /\ LeaderIsMember'
    BY <1>2, <1>4, <1>5, <2>1 DEF RoleInv, LeaderIsMember, IsMember
  <2> QED
    BY <1>1, <1>2, <1>4, <2>1, <2>2, MembersOnly DEF StateType
<1>6. CASE leader # Nobody
  <2>1. leader \in Users
    BY <1>3, <1>6
  <2>2. /\ members' = [members EXCEPT ![leader] = m]
        /\ promoted' = IF IsMember(leader) THEN promoted ELSE promoted \ {leader}
    BY <1>2, <1>6, <2>1 DEF UpdateSettings, StateType
  <2>3. members[leader] \in [active : BOOLEAN, role : {"member", "admin"}]
    BY <1>2, <2>1 DEF StateType
  <2>4. /\ m \in [active : BOOLEAN, role : {"member", "admin"}]
        /\ m.active /\ m.role = members[leader].role
    BY <2>3
  <2>5. members'[leader] = m /\ \A v \in Users \ {leader} : members'[v] = members[v]
    BY <1>2, <2>1, <2>2 DEF StateType
  <2>6. members' \in [Users -> [active : BOOLEAN, role : {"member", "admin"}]]
    BY <1>2, <2>2, <2>4 DEF StateType
  <2>7. RoleInv'
    BY <1>2, <2>1, <2>2, <2>4, <2>5 DEF RoleInv, IsMember
  <2>8. LeaderIsMember'
    BY <1>4, <1>6, <2>4, <2>5 DEF LeaderIsMember, IsMember
  <2> QED
    BY <1>1, <1>4, <2>6, <2>7, <2>8, MembersOnly
<1> QED
  BY <1>5, <1>6

\* Nobody else's transaction holds the row of the member who is removed.
LEMMA RemovalExcludes ==
    ASSUME MinistryInv, NEW p \in Jobs, Locked(p), job[p].op = "remove",
           NEW q \in Jobs, job[q].op \in {"join", "approved"}, job[q].held >= 2
    PROVE  job[q].user # job[p].user
<1>1. job[p] \in JobType /\ job[q] \in JobType /\ p # q
  BY DEF MinistryInv, StateType
<1>2. MemberLock(job[p].user) \in Holds(p)
  <2>1. LockOrder(job[p]) = <<MemberLock(job[p].user), RequestLock(job[p].user)>>
    BY <1>1, Orders
  <2>2. job[p].held = 2
    BY <2>1 DEF Locked
  <2>3. LockOrder(job[p])[1] = MemberLock(job[p].user) /\ 1 \in 1..job[p].held
    BY <2>1, <2>2
  <2> QED
    BY <2>3 DEF Holds
<1>3. MemberLock(job[q].user) \in Holds(q)
  <2>1. LockOrder(job[q]) = <<GroupLock, MemberLock(job[q].user), RequestLock(job[q].user)>>
    BY <1>1, Orders
  <2>2. job[q].held \in Nat
    BY <1>1, Orders
  <2>3. LockOrder(job[q])[2] = MemberLock(job[q].user) /\ 2 \in 1..job[q].held
    BY <2>1, <2>2
  <2> QED
    BY <2>3 DEF Holds
<1> QED
  BY <1>1, <1>2, <1>3 DEF MinistryInv, Exclusion

LEMMA RemoveMemberInv ==
    ASSUME MinistryInv, NEW p \in Jobs, RemoveMember(p)
    PROVE  MinistryInv'
<1> DEFINE u == job[p].user
           r == ClosedBy(u)
<1>1. /\ job[p].op = "remove" /\ Locked(p) /\ Ends(p) /\ UNCHANGED <<group, members, promoted>>
      /\ inside' = inside \ {u} /\ request' = [request EXCEPT ![u] = r]
  BY DEF RemoveMember
<1>2. StateType /\ RulingInv /\ RoleInv /\ LeaderIsMember /\ OnlyInsidersApply /\ ApplicantInv
  BY DEF MinistryInv
<1>3. u \in Users
  <2>1. job[p] \in JobType
    BY <1>2 DEF StateType
  <2> QED
    BY <1>1, <2>1, Orders
<1>4. job' \in [Jobs -> JobType] /\ Exclusion' /\ \A q \in Jobs : job'[q] = job[q] \/ job'[q].held = 0
  BY <1>1, EndJob
<1>5. ApplicantInv'
  <2> SUFFICES ASSUME NEW q \in Jobs, job'[q].op \in {"join", "approved"}, job'[q].held >= 2
               PROVE  job'[q].user \in inside'
    BY DEF ApplicantInv
  <2>1. job'[q] = job[q]
    BY <1>4
  <2>2. job[q].user # u
    BY <1>1, <2>1, RemovalExcludes
  <2> QED
    BY <1>1, <1>2, <2>1, <2>2 DEF ApplicantInv
<1>6. request[u] \in [status : Outcomes \cup {"none", "pending"}, round : Nat]
  BY <1>2, <1>3 DEF StateType
<1>7. request'[u] = r /\ \A v \in Users \ {u} : request'[v] = request[v]
  BY <1>1, <1>2, <1>3 DEF StateType
<1>8. RoleInv' /\ LeaderIsMember'
  BY <1>1, <1>2 DEF RoleInv, LeaderIsMember, IsMember
<1>9. CASE request[u].status = "pending"
  <2>1. r \in [status : Outcomes, round : Nat] /\ r.round = request[u].round /\ r.status = "rejected"
    BY <1>6, <1>9 DEF ClosedBy, Outcomes
  <2> DEFINE x == Ruling(u, "rejected", "removal", request[u].round)
  <2>2. /\ x.user = u /\ x.round = r.round /\ x.seen = r.round /\ x.outcome = "rejected"
        /\ rulings' = rulings \cup {x}
    BY <1>7, <1>9, <2>1 DEF RemoveMember, Rule, Ruling
  <2>3. RulingInv'
    <3> HIDE DEF r, x
    <3> QED
      BY <1>1, <1>2, <1>3, <1>9, <2>1, <2>2, Decided
  <2>4. OnlyInsidersApply'
    BY <1>1, <1>2, <1>7, <2>1, <2>2 DEF OnlyInsidersApply
  <2>5. StateType'
    BY <1>1, <1>2, <1>3, <1>4, <2>1 DEF StateType
  <2> QED
    BY <1>4, <1>5, <1>8, <2>3, <2>4, <2>5 DEF MinistryInv
<1>10. CASE request[u].status # "pending"
  <2>1. r = request[u] /\ UNCHANGED rulings
    BY <1>10 DEF ClosedBy, RemoveMember
  <2>2. RulingInv'
    BY <1>1, <1>2, <1>3, <1>6, <2>1, Resubmitted
  <2>3. OnlyInsidersApply'
    BY <1>1, <1>2, <1>7, <1>10, <2>1 DEF OnlyInsidersApply
  <2>4. StateType'
    BY <1>1, <1>2, <1>3, <1>4, <1>6, <2>1 DEF StateType
  <2> QED
    BY <1>4, <1>5, <1>8, <2>2, <2>3, <2>4 DEF MinistryInv
<1> QED
  BY <1>9, <1>10

LEMMA CreateMemberInv ==
    ASSUME MinistryInv, NEW u \in Users, CreateMember(u)
    PROVE  MinistryInv'
<1>1. inside' = inside \cup {u} /\ UNCHANGED <<group, members, request, job, rulings, promoted>>
  BY DEF CreateMember
<1>2. StateType'
  BY <1>1 DEF MinistryInv, StateType
<1>3. RoleInv' /\ LeaderIsMember'
  BY <1>1 DEF MinistryInv, RoleInv, LeaderIsMember, IsMember
<1>4. RulingInv'
  BY <1>1 DEF MinistryInv, RulingInv, RoundsRuledOnce
<1>5. Exclusion'
  BY <1>1, LocksStay DEF MinistryInv
<1>6. ApplicantInv'
  BY <1>1 DEF MinistryInv, ApplicantInv
<1>7. OnlyInsidersApply'
  BY <1>1 DEF MinistryInv, OnlyInsidersApply
<1> QED
  BY <1>2, <1>3, <1>4, <1>5, <1>6, <1>7 DEF MinistryInv

LEMMA DeleteGroupInv ==
    ASSUME MinistryInv, DeleteGroup
    PROVE  MinistryInv'
<1>1. /\ group' = [group EXCEPT !.active = FALSE, !.leader = Nobody]
      /\ UNCHANGED <<inside, members, request, job, rulings, promoted>>
  BY DEF DeleteGroup
<1>2. group'.leader = Nobody /\ group' \in [active : BOOLEAN, leader : Users \cup {Nobody}, autoApprove : Switches]
  BY <1>1 DEF MinistryInv, StateType
<1>3. StateType'
  BY <1>1, <1>2 DEF MinistryInv, StateType
<1>4. RoleInv' /\ LeaderIsMember'
  BY <1>1, <1>2 DEF MinistryInv, RoleInv, LeaderIsMember, IsMember
<1>5. RulingInv'
  BY <1>1 DEF MinistryInv, RulingInv, RoundsRuledOnce
<1>6. Exclusion'
  BY <1>1, LocksStay DEF MinistryInv
<1>7. ApplicantInv' /\ OnlyInsidersApply'
  BY <1>1 DEF MinistryInv, ApplicantInv, OnlyInsidersApply
<1> QED
  BY <1>3, <1>4, <1>5, <1>6, <1>7 DEF MinistryInv

LEMMA StepInv == MinistryInv /\ [Next]_vars => MinistryInv'
<1> SUFFICES ASSUME MinistryInv, [Next]_vars PROVE MinistryInv'
  OBVIOUS
<1>1. ASSUME NEW p \in Jobs, Services(p) PROVE MinistryInv'
  BY <1>1, ServicesInv
<1>2. ASSUME NEW p \in Jobs, Transactions(p) PROVE MinistryInv'
  BY <1>2, LockRowInv, RequestJoinInv, DecideRequestInv, LeaveInv, SetMemberRoleInv,
     UpdateSettingsInv, RemoveMemberInv DEF Transactions
<1>3. ASSUME NEW u \in Users, CreateMember(u) PROVE MinistryInv'
  BY <1>3, CreateMemberInv
<1>4. CASE DeleteGroup
  BY <1>4, DeleteGroupInv
<1>5. CASE UNCHANGED vars
  <2>1. UNCHANGED Tables /\ UNCHANGED job
    BY <1>5 DEF vars, Tables
  <2>2. job' \in [Jobs -> JobType] /\ ApplicantInv'
    BY <2>1 DEF MinistryInv, StateType, ApplicantInv, Tables
  <2>3. Exclusion'
    BY <2>1, LocksStay DEF MinistryInv
  <2> QED
    BY <2>1, <2>2, <2>3, JobsOnly
<1> QED
  BY <1>1, <1>2, <1>3, <1>4, <1>5 DEF Next

-----------------------------------------------------------------------------
(* What the applicants and the administrator are told                       *)

\* A step that decides nothing, tells of no decision, and opens no application keeps what
\* was announced.
LEMMA NothingAnnounced ==
    ASSUME AnnouncedInv, rulings' = rulings, notices \subseteq notices',
           \A n \in notices' : n \in notices \/ n[2].outcome \notin Outcomes,
           \A u \in Users : request'[u].status = "pending" =>
               request'[u] = request[u] \/ <<StudyAdmin, JoinRequestKey(u, request'[u].round)>> \in notices'
    PROVE  AnnouncedInv'
BY DEF AnnouncedInv, Announced, NoticeOf, AutoApprovedKey, JoinDecisionKey, JoinRequestKey

\* A decision on the application of u is told to him with its key.
LEMMA DecisionAnnounced ==
    ASSUME AnnouncedInv, StateType, NEW u \in Users, NEW q, request' = [request EXCEPT ![u] = q],
           NEW outcome \in Outcomes, q.status = outcome, NEW way \in {"auto", "review"}, NEW seen,
           way = "auto" => outcome = "approved",
           Rule(u, outcome, way, seen),
           NEW key, notices' = notices \cup {<<u, key>>},
           key = IF way = "auto" THEN AutoApprovedKey(u, q.round) ELSE JoinDecisionKey(u, q.round, outcome)
    PROVE  AnnouncedInv'
<1> DEFINE x == Ruling(u, outcome, way, seen)
<1>1. request'[u] = q /\ \A v \in Users \ {u} : request'[v] = request[v]
  BY DEF StateType
<1>2. /\ x.user = u /\ x.round = q.round /\ x.outcome = outcome /\ x.way = way
      /\ rulings' = rulings \cup {x}
  BY <1>1 DEF Rule, Ruling
<1>3. <<u, key>> = NoticeOf(x) /\ key.outcome = outcome
  BY <1>2 DEF NoticeOf, AutoApprovedKey, JoinDecisionKey
<1>4. Announced' = Announced \cup {x}
  BY <1>2 DEF Announced
<1> HIDE DEF x
<1>5. \A n \in notices' : n[2].outcome \in Outcomes => \E y \in Announced' : n = NoticeOf(y)
  BY <1>3, <1>4 DEF AnnouncedInv
<1>6. \A y \in Announced' :
          /\ NoticeOf(y) \in notices' /\ y.outcome \in Outcomes
          /\ y.way = "auto" => y.outcome = "approved"
  BY <1>2, <1>3, <1>4 DEF AnnouncedInv
<1>7. \A v \in Users : request'[v].status = "pending" =>
          <<StudyAdmin, JoinRequestKey(v, request'[v].round)>> \in notices'
  BY <1>1 DEF AnnouncedInv, Outcomes
<1> QED
  BY <1>5, <1>6, <1>7 DEF AnnouncedInv

LEMMA RequestJoinAnnounces ==
    ASSUME MinistryInv, AnnouncedInv, NEW p \in Jobs, RequestJoin(p) PROVE AnnouncedInv'
<1> DEFINE u == job[p].user
<1>0. StateType /\ job[p].op = "join"
  BY DEF MinistryInv, RequestJoin
<1>1. StateType /\ u \in Users
  BY <1>0, Orders DEF StateType
<1>2. CASE Nothing
  BY <1>2, NothingAnnounced DEF Nothing
<1>3. CASE AutoApprove(u)
  <2> DEFINE q == [Submitted(u) EXCEPT !.status = "approved"]
  <2>1. q.status = "approved" /\ q.round = Submitted(u).round
    BY <1>1, SubmittedType DEF Submitted
  <2>2. /\ request' = [request EXCEPT ![u] = q] /\ Rule(u, "approved", "auto", Submitted(u).round)
        /\ notices' = notices \cup {<<u, AutoApprovedKey(u, q.round)>>}
    BY <1>3, <2>1 DEF AutoApprove, insertNotification
  <2> HIDE DEF q, u
  <2> QED
    BY <1>1, <2>1, <2>2, DecisionAnnounced DEF Outcomes
<1>4. CASE Submit(u)
  <2>1. rulings' = rulings /\ request' = [request EXCEPT ![u] = Submitted(u)]
    BY <1>4 DEF Submit
  <2>2. CASE request[u].status = "pending"
    <3>1. notices' = notices /\ request' = request
      BY <1>1, <1>4, <2>1, <2>2 DEF Submit, Submitted, StateType
    <3> QED
      BY <2>1, <3>1, NothingAnnounced
  <2>3. CASE request[u].status # "pending"
    <3>1. notices' = notices \cup (Moderators \X {JoinRequestKey(u, Submitted(u).round)})
      BY <1>4, <2>3 DEF Submit, notifyModerators
    <3>2. \A n \in notices' : n \in notices \/ n[2].outcome \notin Outcomes
      BY <3>1 DEF JoinRequestKey, Outcomes
    <3>3. <<StudyAdmin, JoinRequestKey(u, Submitted(u).round)>> \in notices'
      BY <3>1 DEF Moderators
    <3>4. \A v \in Users : request'[v] = IF v = u THEN Submitted(u) ELSE request[v]
      BY <1>1, <2>1 DEF StateType
    <3> HIDE DEF u
    <3> QED
      BY <2>1, <3>1, <3>2, <3>3, <3>4, NothingAnnounced
  <2> QED
    BY <2>2, <2>3
<1> QED
  BY <1>2, <1>3, <1>4 DEF RequestJoin

LEMMA DecideRequestAnnounces ==
    ASSUME MinistryInv, AnnouncedInv, NEW p \in Jobs, DecideRequest(p) PROVE AnnouncedInv'
<1> DEFINE u == job[p].user
           decision == job[p].op
<1>1. StateType /\ decision \in Outcomes
  BY DEF MinistryInv, DecideRequest
<1>2. u \in Users
  BY <1>1 DEF StateType, JobType, NoJob, Outcomes
<1>3. CASE ~DecidesSeenRound(job[p])
  BY <1>3, NothingAnnounced DEF DecideRequest, Nothing
<1>4. CASE DecidesSeenRound(job[p])
  <2> DEFINE q == [request[u] EXCEPT !.status = decision]
  <2>1. q.status = decision /\ q.round = request[u].round
    BY <1>1, <1>2 DEF StateType
  <2>2. /\ request' = [request EXCEPT ![u] = q] /\ Rule(u, decision, "review", job[p].round)
        /\ notices' = notices \cup {<<u, JoinDecisionKey(u, q.round, decision)>>}
    BY <1>1, <1>2, <1>4, <2>1 DEF DecideRequest, insertNotification, StateType
  <2> HIDE DEF q, u, decision
  <2> QED
    BY <1>1, <1>2, <2>1, <2>2, DecisionAnnounced
<1> QED
  BY <1>3, <1>4

LEMMA RemoveMemberAnnounces ==
    ASSUME MinistryInv, AnnouncedInv, NEW p \in Jobs, RemoveMember(p) PROVE AnnouncedInv'
<1> DEFINE u == job[p].user
<1>1. StateType /\ u \in Users
  BY DEF MinistryInv, StateType, JobType, NoJob, RemoveMember
<1>2. Announced' = Announced
  BY DEF RemoveMember, Rule, Ruling, Announced
<1>3. notices' = notices /\ request' = [request EXCEPT ![u] = ClosedBy(u)]
  BY DEF RemoveMember
<1>4. \A v \in Users : request'[v].status = "pending" => request'[v] = request[v]
  BY <1>1, <1>3 DEF ClosedBy, StateType
<1> HIDE DEF u
<1> QED
  BY <1>2, <1>3, <1>4 DEF AnnouncedInv, NoticeOf, AutoApprovedKey, JoinDecisionKey, JoinRequestKey

LEMMA LeaveAnnounces ==
    ASSUME AnnouncedInv, NEW p \in Jobs, Leave(p) PROVE AnnouncedInv'
<1> DEFINE u == job[p].user
           key == MemberLeftKey(u)
<1>0. key.outcome \notin Outcomes
  BY DEF MemberLeftKey, Outcomes
<1>00. notices' = notices \/ notices' = notices \cup ((Moderators \ {u}) \X {key})
  BY DEF Leave
<1>1. notices \subseteq notices' /\ \A n \in notices' : n \in notices \/ n[2].outcome \notin Outcomes
  <2> HIDE DEF key
  <2> QED
    BY <1>0, <1>00
<1> QED
  BY <1>1, NothingAnnounced DEF Leave

LEMMA AnnouncedStep == MinistryInv /\ AnnouncedInv /\ [Next]_vars => AnnouncedInv'
<1> SUFFICES ASSUME MinistryInv, AnnouncedInv, [Next]_vars PROVE AnnouncedInv'
  OBVIOUS
<1>1. CASE UNCHANGED <<request, rulings, notices>>
  BY <1>1, NothingAnnounced
<1>2. ASSUME NEW p \in Jobs, Services(p) PROVE AnnouncedInv'
  <2>1. UNCHANGED <<request, rulings, notices>>
    BY <1>2 DEF Services, RequestJoinService, LeaveService, RemoveMemberService, DecideRequestService,
                SetMemberRoleService, UpdateSettingsService, Start
  <2> QED
    BY <1>1, <2>1
<1>3. ASSUME NEW p \in Jobs, Transactions(p) PROVE AnnouncedInv'
  <2>1. CASE LockRow(p) \/ SetMemberRole(p) \/ UpdateSettings(p)
    BY <1>1, <2>1 DEF LockRow, SetMemberRole, UpdateSettings
  <2> QED
    BY <1>3, <2>1, RequestJoinAnnounces, DecideRequestAnnounces, LeaveAnnounces, RemoveMemberAnnounces
       DEF Transactions
<1>4. CASE DeleteGroup \/ UNCHANGED vars \/ \E u \in Users : CreateMember(u)
  BY <1>1, <1>4 DEF DeleteGroup, CreateMember, vars
<1> QED
  BY <1>2, <1>3, <1>4 DEF Next

\* A round has at most one decision that is told, and its applicant has that one notice.
LEMMA ToldOnce == MinistryInv /\ AnnouncedInv => RoundsAnnounced
<1> SUFFICES ASSUME MinistryInv, AnnouncedInv, NEW u \in Users
             PROVE  /\ request[u].status = "pending" =>
                           <<StudyAdmin, JoinRequestKey(u, request[u].round)>> \in notices
                    /\ \A r \in 1..request[u].round :
                           LET decided == {x \in rulings : x.user = u /\ x.round = r /\ x.way # "removal"} IN
                           /\ Cardinality(Told(u, r)) = Cardinality(decided)
                           /\ {n[2].outcome : n \in Told(u, r)} = {x.outcome : x \in decided}
  BY DEF RoundsAnnounced
<1>1. request[u].status = "pending" => <<StudyAdmin, JoinRequestKey(u, request[u].round)>> \in notices
  BY DEF AnnouncedInv
<1>2. ASSUME NEW r
      PROVE  LET decided == {x \in rulings : x.user = u /\ x.round = r /\ x.way # "removal"} IN
             /\ Cardinality(Told(u, r)) = Cardinality(decided)
             /\ {n[2].outcome : n \in Told(u, r)} = {x.outcome : x \in decided}
  <2> DEFINE decided == {x \in rulings : x.user = u /\ x.round = r /\ x.way # "removal"}
  <2>1. \A x : /\ NoticeOf(x)[1] = x.user /\ NoticeOf(x)[2].user = x.user /\ NoticeOf(x)[2].round = x.round
               /\ NoticeOf(x)[2].outcome = IF x.way = "auto" THEN "approved" ELSE x.outcome
    BY DEF NoticeOf, AutoApprovedKey, JoinDecisionKey
  <2>2. \A x \in decided : /\ NoticeOf(x) \in notices /\ x.outcome \in Outcomes
                           /\ NoticeOf(x)[2].outcome = x.outcome
    BY <2>1 DEF AnnouncedInv, Announced
  <2>3. \A n : n \in Told(u, r) <=> \E x \in decided : n = NoticeOf(x)
    BY <2>1, <2>2 DEF Told, AnnouncedInv, Announced
  <2>4. \A x, y \in decided : x = y
    BY DEF MinistryInv, RulingInv, RoundsRuledOnce
  <2>5. CASE decided = {}
    <3>1. Told(u, r) = {}
      BY <2>3, <2>5
    <3> QED
      BY <2>5, <3>1
  <2>6. ASSUME NEW x \in decided PROVE decided = {x} /\ Told(u, r) = {NoticeOf(x)}
    <3>1. decided = {x}
      BY <2>4
    <3> HIDE DEF decided
    <3> QED
      BY <2>3, <3>1
  <2> HIDE DEF decided
  <2>7. ASSUME NEW x \in decided
        PROVE  /\ Cardinality(Told(u, r)) = Cardinality(decided)
               /\ {n[2].outcome : n \in Told(u, r)} = {y.outcome : y \in decided}
    <3>1. Cardinality(Told(u, r)) = 1 /\ Cardinality(decided) = 1
      BY <2>6, FS_Singleton
    <3>2. {n[2].outcome : n \in Told(u, r)} = {x.outcome} /\ {y.outcome : y \in decided} = {x.outcome}
      BY <2>2, <2>6
    <3> QED
      BY <3>1, <3>2
  <2> QED
    BY <2>5, <2>7 DEF decided
<1> QED
  BY <1>1, <1>2

-----------------------------------------------------------------------------
\* MinistryInv is an invariant: types, roles, rulings, and who holds which lock.
THEOREM MinistryInvariant == Spec => []MinistryInv
BY InitInv, StepInv, PTL DEF Spec

\* A round is decided once, and a review decides the round its page showed.
THEOREM RoundsRuledOnceCorrect == Spec => []RoundsRuledOnce
<1>1. MinistryInv => RoundsRuledOnce
  BY DEF MinistryInv, RulingInv
<1> QED
  BY <1>1, MinistryInvariant, PTL

\* However removal and review overlap, no outsider has an open or approved application.
THEOREM OnlyInsidersApplyCorrect == Spec => []OnlyInsidersApply
<1>1. MinistryInv => OnlyInsidersApply
  BY DEF MinistryInv
<1> QED
  BY <1>1, MinistryInvariant, PTL

\* The leader of the group is a member of it.
THEOREM LeaderIsMemberCorrect == Spec => []LeaderIsMember
<1>1. MinistryInv => LeaderIsMember
  BY DEF MinistryInv
<1> QED
  BY <1>1, MinistryInvariant, PTL

\* An admin was made one during his present membership.
THEOREM AdminsPromotedCorrect == Spec => []AdminsPromoted
<1>1. MinistryInv => AdminsPromoted
  BY DEF MinistryInv, RoleInv, AdminsPromoted, IsAdmin
<1> QED
  BY <1>1, MinistryInvariant, PTL

\* Transactions never wait for each other in a circle, however many there are.
THEOREM NoLockCycleCorrect == Spec => []NoLockCycle
<1>1. MinistryInv => NoLockCycle
  BY NoCycle DEF MinistryInv
<1> QED
  BY <1>1, MinistryInvariant, PTL

\* Each application that waits was announced to the study group's administrator, and each
\* decision was told to its applicant once and as it was, though a key that its recipient
\* has is ignored.
THEOREM RoundsAnnouncedCorrect == Spec => []RoundsAnnounced
<1>1. Init => AnnouncedInv
  BY DEF Init, AnnouncedInv, Announced
<1>2. MinistryInv /\ AnnouncedInv /\ [Next]_vars => AnnouncedInv'
  BY AnnouncedStep
<1>3. MinistryInv /\ AnnouncedInv => RoundsAnnounced
  BY ToldOnce
<1> QED
  BY <1>1, <1>2, <1>3, MinistryInvariant, PTL DEF Spec
=============================================================================
