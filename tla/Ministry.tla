-------------------------------- MODULE Ministry --------------------------------
(***************************************************************************)
(* Membership of one ministry group of a study group: applications to      *)
(* join, their review, leaving, roles and settings (ministry/service.go    *)
(* and mysql_repository.go, behind server/ministry.go), while members of   *)
(* the study group itself are removed and added again                      *)
(* (user/mysql_repository.go).                                             *)
(*                                                                         *)
(* A request reads what it needs to be admitted without a lock (the        *)
(* service), and writes later in a transaction (the repository) that locks *)
(* rows in the order of LockOrder and commits in one step.  A transaction  *)
(* of one statement is one step.  The row of a study group member stands   *)
(* for his group_members row and for his users row, which every            *)
(* transaction below locks after it.                                       *)
(*                                                                         *)
(* Left out: names, descriptions, member visibility and the public         *)
(* identity flag, which nothing here depends on, and roles in the study    *)
(* group, which only StudyAdmin has here.                                  *)
(***************************************************************************)
EXTENDS Naturals, Sequences, FiniteSets

CONSTANTS
    Users,       \* members of the study group
    Applicants,  \* bound: those of them who apply to join
    StudyAdmin,  \* an administrator of the study group, who is not removed
    Nobody,      \* no user: a NULL leader, a pointer that is not set
    Jobs,        \* bound: requests under way at once
    MaxRound,    \* bound: submissions of an application
    MaxChanges   \* bound: changes of roles, settings and the study group's members

ASSUME ConstantsAssumption ==
    /\ Nobody \notin Users /\ StudyAdmin \notin Users /\ Nobody # StudyAdmin
    /\ Applicants \subseteq Users
    /\ MaxRound \in Nat /\ MaxChanges \in Nat

VARIABLES
    group,     \* ministry_groups: whether it is active, its leader, auto approval
    inside,    \* group_members: the active members of the study group
    members,   \* ministry_group_members
    request,   \* ministry_group_requests: one row for each user
    notices,   \* ministry_notifications: pairs of recipient and event key
    job,       \* the requests under way
    rulings,   \* history: the decisions that were committed
    promoted,  \* history: who was made an admin during the present membership
    changes    \* bound counter for MaxChanges

vars == <<group, inside, members, request, notices, job, rulings, promoted, changes>>

Switches == {"on", "off"}
Outcomes == {"approved", "rejected"}
Ways     == {"review", "auto", "removal"}

GroupLock      == [table |-> "ministry_groups", user |-> Nobody]
MemberLock(u)  == [table |-> "group_members", user |-> u]
RequestLock(u) == [table |-> "ministry_group_requests", user |-> u]

NoJob == [op |-> "none", user |-> Nobody, switch |-> "off", round |-> 0, held |-> 0]

\* How many locks the job took is in held: they are the first of its LockOrder.
NewJob(op, u, s, r) == [op |-> op, user |-> u, switch |-> s, round |-> r, held |-> 0]

Idle(p) == job[p] = NoJob

Ends(p) == job' = [job EXCEPT ![p] = NoJob]

\* Settings of a group that is given a leader also make him a member.
JobType ==
    {NoJob} \cup
    [op : {"join"}, user : Users, switch : Switches, round : {0}, held : 0..3] \cup
    [op : {"approved"}, user : Users, switch : {"off"}, round : 1..MaxRound, held : 0..3] \cup
    [op : {"rejected"}, user : Users, switch : {"off"}, round : 1..MaxRound, held : 0..2] \cup
    [op : {"leave"}, user : Users, switch : {"off"}, round : {0}, held : 0..1] \cup
    [op : {"role"}, user : Users, switch : Switches, round : {0}, held : {0}] \cup
    [op : {"settings"}, user : Users \cup {Nobody}, switch : Switches \cup {"keep"},
     round : {0}, held : 0..1] \cup
    [op : {"remove"}, user : Users, switch : {"off"}, round : {0}, held : 0..2]

-----------------------------------------------------------------------------
(* Who may do what, by the Access row the service reads.                     *)

IsMember(u) == members[u].active
IsAdmin(u)  == IsMember(u) /\ members[u].role = "admin"
IsLeader(u) == group.leader = u

\* Members of the study group only: the others hold no session of it.
canReviewShares(a) == a = StudyAdmin \/ (a \in inside /\ IsAdmin(a))
canManage(a)       == canReviewShares(a) \/ (a \in inside /\ IsLeader(a))

Actors == Users \cup {StudyAdmin}

-----------------------------------------------------------------------------
(* Notifications.  The insertion ignores a key its recipient already has.    *)

JoinRequestKey(u, r)     == [kind |-> "join-request", user |-> u, round |-> r, outcome |-> "pending"]
AutoApprovedKey(u, r)    == [kind |-> "join-auto-approved", user |-> u, round |-> r, outcome |-> "approved"]

\* A bug: the key of a decision does not tell rounds apart.
JoinDecisionKey_NoRound(u, r, d) == [kind |-> "join-decision", user |-> u, round |-> 1, outcome |-> d]

JoinDecisionKey(u, r, d) == [kind |-> "join-decision", user |-> u, round |-> r, outcome |-> d]

\* The nanosecond in the key of a departure is one no other departure has.
MemberLeftKey(u) ==
    [kind |-> "member-left", user |-> u, outcome |-> "left",
     round |-> 1 + Cardinality({n \in notices : /\ n[1] = StudyAdmin /\ n[2].user = u
                                                /\ n[2].kind = "member-left"})]

Keys == [kind : {"join-request", "join-auto-approved", "join-decision", "member-left"},
         user : Users, round : Nat \ {0}, outcome : Outcomes \cup {"pending", "left"}]

insertNotification(a, key) == notices' = notices \cup {<<a, key>>}

Moderators == {StudyAdmin} \cup {u \in Users : IsAdmin(u)}

notifyModerators(key) == notices' = notices \cup (Moderators \X {key})

-----------------------------------------------------------------------------
(* The history of what was decided.                                          *)

Ruling(u, outcome, way, seen) ==
    [user |-> u, round |-> request'[u].round, outcome |-> outcome, way |-> way,
     seen |-> seen, inside |-> u \in inside, no |-> Cardinality(rulings) + 1]

Rule(u, outcome, way, seen) == rulings' = rulings \cup {Ruling(u, outcome, way, seen)}

-----------------------------------------------------------------------------
(* The services: what a request finds when it is admitted.                   *)

Start(p, j) ==
    /\ Idle(p)
    /\ job' = [job EXCEPT ![p] = j]
    /\ UNCHANGED <<group, inside, members, request, notices, rulings, promoted>>

Change == changes < MaxChanges /\ changes' = changes + 1

\* The bound on submissions counts the applications under way.
MaySubmit(u) ==
    request[u].round + Cardinality({p \in Jobs : job[p].op = "join" /\ job[p].user = u}) < MaxRound

RequestJoinService(p, u) ==
    /\ u \in inside /\ group.active /\ ~IsMember(u) /\ MaySubmit(u)
    /\ Start(p, NewJob("join", u, group.autoApprove, 0)) /\ UNCHANGED changes

\* The page of the reviewer shows a round that was submitted, not always the last.
DecideRequestService(p, u, seen, decision) ==
    /\ request[u].status = "pending"
    /\ group.active /\ \E a \in Actors : canReviewShares(a)
    /\ seen \in 1..request[u].round
    /\ Start(p, NewJob(decision, u, "off", seen)) /\ UNCHANGED changes

LeaveService(p, u) ==
    /\ u \in inside /\ group.active /\ IsMember(u) /\ ~IsLeader(u)
    /\ Start(p, NewJob("leave", u, "off", 0)) /\ UNCHANGED changes

SetMemberRoleService(p, u, admin) ==
    /\ group.active /\ \E a \in Actors : canManage(a)
    /\ Start(p, NewJob("role", u, admin, 0)) /\ Change

UpdateSettingsService(p, leader, auto) ==
    /\ group.active
    /\ \E a \in Actors : /\ auto # "keep" => canReviewShares(a)
                         /\ leader # Nobody => a = StudyAdmin
    /\ Start(p, NewJob("settings", leader, auto, 0)) /\ Change

RemoveMemberService(p, u) ==
    /\ u \in inside
    /\ Start(p, NewJob("remove", u, "off", 0)) /\ Change

-----------------------------------------------------------------------------
(* Row locks, held until the transaction ends.                               *)

\* A bug: the request is locked before its applicant.
LockOrder_RequestFirst(j) ==
    CASE j.op = "join"                    -> <<GroupLock, MemberLock(j.user), RequestLock(j.user)>>
      [] j.op = "approved"                -> <<GroupLock, RequestLock(j.user), MemberLock(j.user)>>
      [] j.op = "rejected"                -> <<GroupLock, RequestLock(j.user)>>
      [] j.op \in {"leave", "settings"}   -> <<GroupLock>>
      [] j.op = "remove"                  -> <<MemberLock(j.user), RequestLock(j.user)>>
      [] OTHER                            -> << >>

LockOrder(j) ==
    CASE j.op \in {"join", "approved"}    -> <<GroupLock, MemberLock(j.user), RequestLock(j.user)>>
      [] j.op = "rejected"                -> <<GroupLock, RequestLock(j.user)>>
      [] j.op \in {"leave", "settings"}   -> <<GroupLock>>
      [] j.op = "remove"                  -> <<MemberLock(j.user), RequestLock(j.user)>>
      [] OTHER                            -> << >>

Holds(p)   == {LockOrder(job[p])[i] : i \in 1..job[p].held}
Locked(p)  == job[p].held = Len(LockOrder(job[p]))
Wants(p)   == LockOrder(job[p])[job[p].held + 1]
Free(lock) == \A p \in Jobs : lock \notin Holds(p)

\* A bug: the applicant is locked, but not looked at.
Refused_Unchecked(j, lock) ==
    j.op = "settings" /\ j.user # Nobody /\ j.user \notin inside

\* lockActiveStudyGroupMemberTx refuses an applicant who is no longer inside; the
\* check of a new leader is a plain read, and his row is not locked.
Refused(j, lock) ==
    \/ j.op \in {"join", "approved"} /\ lock = MemberLock(j.user) /\ j.user \notin inside
    \/ j.op = "settings" /\ j.user # Nobody /\ j.user \notin inside

LockRow(p) ==
    /\ ~Idle(p) /\ ~Locked(p) /\ Free(Wants(p))
    /\ IF Refused(job[p], Wants(p)) THEN Ends(p)
                                    ELSE job' = [job EXCEPT ![p].held = @ + 1]
    /\ UNCHANGED <<group, inside, members, request, notices, rulings, promoted, changes>>

-----------------------------------------------------------------------------
(* The transactions, once they hold their locks.                             *)

\* The upsert of a membership that an approval makes.
Admit(u) ==
    /\ members' = [members EXCEPT ![u] = [active |-> TRUE, role |-> "member"]]
    /\ promoted' = promoted \ {u}

\* A bug: the round is advanced by the statement and again by the code.
Submitted_Twice(u) ==
    IF request[u].status = "pending" THEN request[u]
    ELSE [status |-> "pending", round |-> request[u].round + 2]

\* A pending application stays as it is; one that was decided on opens a new round.
Submitted(u) ==
    IF request[u].status = "pending" THEN request[u]
    ELSE [status |-> "pending", round |-> request[u].round + 1]

AutoApprove(u) ==
    /\ request' = [request EXCEPT ![u] = [Submitted(u) EXCEPT !.status = "approved"]]
    /\ Admit(u)
    /\ insertNotification(u, AutoApprovedKey(u, Submitted(u).round))
    /\ Rule(u, "approved", "auto", Submitted(u).round)

Submit(u) ==
    /\ request' = [request EXCEPT ![u] = Submitted(u)]
    /\ IF request[u].status = "pending" THEN UNCHANGED notices
       ELSE notifyModerators(JoinRequestKey(u, Submitted(u).round))
    /\ UNCHANGED <<members, rulings, promoted>>

Nothing == UNCHANGED <<members, request, notices, rulings, promoted>>

RequestJoin(p) ==
    LET u == job[p].user IN
    /\ job[p].op = "join" /\ Locked(p)
    /\ \/ IsMember(u) /\ Nothing
       \/ ~IsMember(u) /\ job[p].switch = "on" /\ AutoApprove(u)
       \/ ~IsMember(u) /\ job[p].switch = "off" /\ Submit(u)
    /\ Ends(p)
    /\ UNCHANGED <<group, inside, changes>>

\* A bug: the page of the reviewer may show an earlier round.
DecidesSeenRound_AnyRound(j) == request[j.user].status = "pending"

DecidesSeenRound(j) ==
    request[j.user].status = "pending" /\ request[j.user].round = j.round

DecideRequest(p) ==
    LET u == job[p].user  decision == job[p].op IN
    /\ decision \in Outcomes /\ Locked(p)
    /\ \/ ~DecidesSeenRound(job[p]) /\ Nothing
       \/ /\ DecidesSeenRound(job[p])
          /\ request' = [request EXCEPT ![u].status = decision]
          /\ IF decision = "approved" THEN Admit(u) ELSE UNCHANGED <<members, promoted>>
          /\ insertNotification(u, JoinDecisionKey(u, request[u].round, decision))
          /\ Rule(u, decision, "review", job[p].round)
    /\ Ends(p)
    /\ UNCHANGED <<group, inside, changes>>

\* A bug: the transaction relies on the service.
MayLeave_Unchecked(u) == IsMember(u)

\* The service looked at the leader too, without the lock.
MayLeave(u) == ~IsLeader(u) /\ IsMember(u)

\* A bug: leaving keeps the role.
Left_KeepsRole(u) == [members[u] EXCEPT !.active = FALSE]

Left(u) == [members[u] EXCEPT !.active = FALSE, !.role = "member"]

\* The moderators are read after the update: the one who leaves is not among them.
Leave(p) ==
    LET u == job[p].user IN
    /\ job[p].op = "leave" /\ Locked(p)
    /\ IF MayLeave(u)
       THEN /\ members' = [members EXCEPT ![u] = Left(u)]
            /\ notices' = notices \cup ((Moderators \ {u}) \X {MemberLeftKey(u)})
       ELSE UNCHANGED <<members, notices>>
    /\ Ends(p)
    /\ UNCHANGED <<group, inside, request, rulings, promoted, changes>>

SetMemberRole(p) ==
    LET u == job[p].user  admin == job[p].switch = "on" IN
    /\ job[p].op = "role"
    /\ IF IsMember(u)
       THEN /\ members' = [members EXCEPT ![u].role = IF admin THEN "admin" ELSE "member"]
            /\ promoted' = IF admin THEN promoted \cup {u} ELSE promoted \ {u}
       ELSE UNCHANGED <<members, promoted>>
    /\ Ends(p)
    /\ UNCHANGED <<group, inside, request, notices, rulings, changes>>

\* The upsert of a leader's membership leaves a role that is there.
UpdateSettings(p) ==
    LET leader == job[p].user  auto == job[p].switch IN
    /\ job[p].op = "settings" /\ Locked(p)
    /\ group' = [group EXCEPT !.autoApprove = IF auto = "keep" THEN @ ELSE auto,
                              !.leader = IF leader = Nobody THEN @ ELSE leader]
    /\ IF leader = Nobody THEN UNCHANGED <<members, promoted>>
       ELSE /\ members' = [members EXCEPT ![leader].active = TRUE]
            /\ promoted' = IF IsMember(leader) THEN promoted ELSE promoted \ {leader}
    /\ Ends(p)
    /\ UNCHANGED <<inside, request, notices, rulings, changes>>

\* Removal from the study group closes a pending application and leaves the
\* membership of the ministry group as it is.
ClosedBy(u) ==
    IF request[u].status = "pending" THEN [request[u] EXCEPT !.status = "rejected"] ELSE request[u]

RemoveMember(p) ==
    LET u == job[p].user IN
    /\ job[p].op = "remove" /\ Locked(p)
    /\ inside' = inside \ {u}
    /\ request' = [request EXCEPT ![u] = ClosedBy(u)]
    /\ IF request[u].status = "pending" THEN Rule(u, "rejected", "removal", request[u].round)
       ELSE UNCHANGED rulings
    /\ Ends(p)
    /\ UNCHANGED <<group, members, notices, promoted, changes>>

CreateMember(u) ==
    /\ u \notin inside /\ Free(MemberLock(u))
    /\ inside' = inside \cup {u} /\ Change
    /\ UNCHANGED <<group, members, request, notices, job, rulings, promoted>>

DeleteGroup ==
    /\ group.active /\ Free(GroupLock)
    /\ group' = [group EXCEPT !.active = FALSE, !.leader = Nobody] /\ Change
    /\ UNCHANGED <<inside, members, request, notices, job, rulings, promoted>>

-----------------------------------------------------------------------------

Init ==
    /\ group = [active |-> TRUE, leader |-> Nobody, autoApprove |-> "off"]
    /\ inside = Users
    /\ members = [u \in Users |-> [active |-> FALSE, role |-> "member"]]
    /\ request = [u \in Users |-> [status |-> "none", round |-> 0]]
    /\ notices = {} /\ rulings = {} /\ promoted = {} /\ changes = 0
    /\ job = [p \in Jobs |-> NoJob]

Services(p) ==
    \/ \E u \in Users :
        \/ u \in Applicants /\ RequestJoinService(p, u)
        \/ LeaveService(p, u)
        \/ RemoveMemberService(p, u)
        \/ \E seen \in 1..MaxRound, d \in Outcomes : DecideRequestService(p, u, seen, d)
        \/ \E admin \in Switches : SetMemberRoleService(p, u, admin)
    \/ \E leader \in Users \cup {Nobody}, auto \in Switches \cup {"keep"} :
        UpdateSettingsService(p, leader, auto)

Transactions(p) ==
    \/ LockRow(p)
    \/ RequestJoin(p)
    \/ DecideRequest(p)
    \/ Leave(p)
    \/ SetMemberRole(p)
    \/ UpdateSettings(p)
    \/ RemoveMember(p)

Next ==
    \/ \E p \in Jobs : Services(p) \/ Transactions(p)
    \/ \E u \in Users : CreateMember(u)
    \/ DeleteGroup

Spec == Init /\ [][Next]_vars

-----------------------------------------------------------------------------
\* Types of the tables, and of what each job holds and waits for.
TypeOK ==
    /\ group \in [active : BOOLEAN, leader : Users \cup {Nobody}, autoApprove : Switches]
    /\ inside \subseteq Users
    /\ members \in [Users -> [active : BOOLEAN, role : {"member", "admin"}]]
    /\ request \in [Users -> [status : Outcomes \cup {"none", "pending"}, round : 0..MaxRound]]
    /\ notices \subseteq Actors \X Keys
    /\ job \in [Jobs -> JobType]
    /\ rulings \subseteq [user : Users, round : 1..MaxRound, outcome : Outcomes, way : Ways,
                          seen : 1..MaxRound, inside : BOOLEAN, no : Nat \ {0}]
    /\ promoted \subseteq Users
    /\ changes \in 0..MaxChanges

\* A round of an application is decided on once, by its reviewer, by auto approval
\* or by the removal of the applicant, and a review decides the round its page
\* showed: a stale page does not decide what was submitted later (CHANGELOG.md:557).
RoundsRuledOnce ==
    \A x \in rulings :
        /\ x.seen = x.round
        /\ \A y \in rulings : x.user = y.user /\ x.round = y.round => x = y

\* What the applicant was told of a round.
Told(u, r) == {n \in notices : /\ n[1] = u /\ n[2].user = u /\ n[2].round = r
                               /\ n[2].outcome \in Outcomes}

\* Ignoring keys that exist loses no notification: each pending round was announced
\* to the study group's administrator, and each decided one told to its applicant,
\* with the outcome it had, unless it was closed by his removal.
RoundsAnnounced ==
    \A u \in Users :
        /\ request[u].status = "pending" =>
               <<StudyAdmin, JoinRequestKey(u, request[u].round)>> \in notices
        /\ \A r \in 1..request[u].round :
               LET decided == {x \in rulings : x.user = u /\ x.round = r /\ x.way # "removal"} IN
               /\ Cardinality(Told(u, r)) = Cardinality(decided)
               /\ {n[2].outcome : n \in Told(u, r)} = {x.outcome : x \in decided}

\* Removal from the study group and review of an application, in any order, leave no
\* open application of an outsider and approve none (CHANGELOG.md:558).
OnlyInsidersApply ==
    /\ \A u \in Users : request[u].status = "pending" => u \in inside
    /\ \A x \in rulings : x.outcome = "approved" => x.inside

\* The leader of a group is a member of it, whatever leaves and appointments overlap.
LeaderIsMember == group.leader # Nobody => IsMember(group.leader)

\* An admin of the group was made one during his present membership: nobody comes
\* back, by approval or as leader, with the role he had before he left.
AdminsPromoted == \A u \in Users : IsAdmin(u) => u \in promoted

WaitsFor(p, q) == ~Idle(p) /\ ~Locked(p) /\ Wants(p) \in Holds(q)

\* No transactions wait for each other in a circle: the group is locked before the
\* applicant, the applicant before his request.
NoLockCycle ==
    \A S \in SUBSET Jobs : S # {} => \E p \in S : \A q \in S : ~WaitsFor(p, q)

-----------------------------------------------------------------------------
(* Inductive invariants, for the proofs.                                     *)

StateType ==
    /\ group \in [active : BOOLEAN, leader : Users \cup {Nobody}, autoApprove : Switches]
    /\ inside \subseteq Users
    /\ members \in [Users -> [active : BOOLEAN, role : {"member", "admin"}]]
    /\ request \in [Users -> [status : Outcomes \cup {"none", "pending"}, round : Nat]]
    /\ job \in [Jobs -> JobType]

\* Somebody who left has no role to come back with.
RoleInv == \A u \in Users : members[u].role = "admin" => IsMember(u) /\ u \in promoted

\* Rulings are on rounds that were submitted, and none is on a pending one.
RulingInv ==
    /\ \A x \in rulings : /\ x.user \in Users /\ x.round \in Nat
                          /\ x.round <= request[x.user].round
                          /\ request[x.user].status = "pending" => x.round # request[x.user].round
    /\ RoundsRuledOnce

\* What the applicant is told of a decision, and that the keys that are there tell of each
\* decision but a removal, of no other, and of each application that waits.
Announced == {x \in rulings : x.way # "removal"}

NoticeOf(x) ==
    <<x.user, IF x.way = "auto" THEN AutoApprovedKey(x.user, x.round)
                                ELSE JoinDecisionKey(x.user, x.round, x.outcome)>>

AnnouncedInv ==
    /\ \A n \in notices : n[2].outcome \in Outcomes => \E x \in Announced : n = NoticeOf(x)
    /\ \A x \in Announced :
          /\ NoticeOf(x) \in notices /\ x.outcome \in Outcomes
          /\ x.way = "auto" => x.outcome = "approved"
    /\ \A u \in Users : request[u].status = "pending" =>
          <<StudyAdmin, JoinRequestKey(u, request[u].round)>> \in notices

Exclusion == \A p, q \in Jobs : p # q => Holds(p) \cap Holds(q) = {}

\* The applicant whose row an application or approval holds is inside.
ApplicantInv ==
    \A p \in Jobs : job[p].op \in {"join", "approved"} /\ job[p].held >= 2 => job[p].user \in inside

MinistryInv ==
    /\ StateType
    /\ RoleInv
    /\ LeaderIsMember
    /\ RulingInv
    /\ Exclusion
    /\ ApplicantInv
    /\ OnlyInsidersApply
=============================================================================
