---------------------------- MODULE CheckinsProofs ----------------------------
(***************************************************************************)
(* Proofs about check-ins and study weeks, for any requests, dates, weeks, *)
(* drafts and changes.  CheckinsInv is inductive: it follows a request     *)
(* from what it has found to the row it inserts.                           *)
(***************************************************************************)
EXTENDS Checkins, FiniteSetTheorems, WellFoundedInduction, TLAPS

AllKinds == DailyKinds \cup WeeklyKinds

\* What the unique key compares beside kind, date and task.
Parts == {<<>>} \cup (Nat \X (Verses \cup {""})) \cup {<<s>> : s \in SUBSET Nat} \cup {<<t>> : t \in Nat}

RowType ==
    [kind : AllKinds, date : Dates, task : Nat, week : Nat, verse : Verses \cup {""},
     pages : SUBSET Nat, deleted : BOOLEAN, part : Parts, key : Key]

RequestType ==
    [pc : Pcs, kind : AllKinds, date : Nat, task : Nat, week : Nat, verse : Verses \cup {""},
     period : BOOLEAN, pages : SUBSET Nat, answer : Nat]

AdminType == [pc : {"idle", "replace", "delete"}, week : Nat]

StateType ==
    /\ rows \in Seq(RowType)
    /\ tasks \in [DOMAIN tasks -> Task]
    /\ weeks \in [DOMAIN weeks -> Slots]
    /\ req \in [Requests -> RequestType]
    /\ admin \in AdminType

CheckinsInv ==
    /\ StateType
    /\ TypeOK
    /\ RowInv
    /\ RequestInv
    /\ LockInv
    /\ InsertInv
    /\ TasksKept
    /\ OneCompletion

-----------------------------------------------------------------------------
(* Lookups                                                                  *)

\* A set of natural numbers that is not empty has a least element.
LEMMA LeastNatural ==
    ASSUME NEW S \in SUBSET Nat, S # {}
    PROVE  \E m \in S : \A n \in S : m <= n
<1>1. \E m \in S : \A n \in S : <<n, m>> \notin OpToRel(<, Nat)
  BY NatLessThanWellFounded, WFMin
<1>2. \A m, n \in Nat : <<n, m>> \notin OpToRel(<, Nat) => m <= n
  BY DEF OpToRel
<1> QED
  BY <1>1, <1>2

\* The rows have IDs from one.
LEMMA RowTypes ==
    ASSUME StateType
    PROVE  /\ DOMAIN rows = 1..Len(rows) /\ Len(rows) \in Nat
           /\ \A i \in DOMAIN rows : i \in Nat /\ rows[i] \in RowType
<1>1. rows \in Seq(RowType)
  BY DEF StateType
<1> QED
  BY <1>1

\* A lookup by ID finds a row when there is one.
LEMMA LowestFinds ==
    ASSUME NEW S \in SUBSET Nat, Lowest(S) = {}
    PROVE  S = {}
BY LeastNatural DEF Lowest

\* So does a lookup by date and ID.
LEMMA FirstFinds ==
    ASSUME StateType, ConstantsAssumption, NEW S \in SUBSET Active, First(S) = {}
    PROVE  S = {}
<1> SUFFICES ASSUME S # {} PROVE FALSE
  OBVIOUS
<1>1. \A i \in S : i \in Nat /\ rows[i].date \in Nat
  BY RowTypes DEF Active, RowType, ConstantsAssumption
<1> DEFINE D == {rows[i].date : i \in S}
<1>2. PICK d \in D : \A e \in D : d <= e
  <2>1. D \in SUBSET Nat /\ D # {}
    BY <1>1
  <2> HIDE DEF D
  <2> QED
    BY <2>1, LeastNatural
<1> DEFINE I == {i \in S : rows[i].date = d}
<1>3. PICK m \in I : \A n \in I : m <= n
  <2>1. I \in SUBSET Nat /\ I # {}
    BY <1>1, <1>2
  <2> HIDE DEF I
  <2> QED
    BY <2>1, LeastNatural
<1>4. \A j \in S : rows[j].date \in D
  OBVIOUS
<1>5. \A j \in S \ {m} : rows[m].date < rows[j].date \/ (rows[m].date = rows[j].date /\ m < j)
  <2> TAKE j \in S \ {m}
  <2>1. rows[m].date = d /\ m \in S /\ d <= rows[j].date
    BY <1>2, <1>3, <1>4
  <2>2. CASE rows[j].date = d
    <3>1. m <= j
      BY <1>3, <2>2
    <3> QED
      BY <1>1, <2>1, <2>2, <3>1
  <2>3. CASE rows[j].date # d
    BY <1>1, <2>1, <2>3
  <2> QED
    BY <2>2, <2>3
<1>6. m \in First(S)
  BY <1>3, <1>5 DEF First
<1> QED
  BY <1>6

LEMMA FirstOfFinds ==
    ASSUME StateType, ConstantsAssumption, NEW S \in SUBSET Active, NEW T \in SUBSET Active,
           FirstOf(S, T) = {}
    PROVE  S = {} /\ T = {}
BY FirstFinds DEF FirstOf

-----------------------------------------------------------------------------
(* The steps of a request                                                   *)

\* A statement of a request that leaves the tables alone keeps the invariant when the
\* request's new state fits, holds its locks rightly, and stands on what it read.
LEMMA RequestMoves ==
    ASSUME CheckinsInv, NEW p \in Requests, NEW r \in RequestType,
           req' = [req EXCEPT ![p] = r],
           UNCHANGED <<rows, tasks, weeks, nextTask, nextWeek, settings, admin, changes, imported>>,
           enqueued' \subseteq DOMAIN rows,
           InOrder(r),
           r.pc \in {"read", "insert"} => \A q \in Requests \ {p} : ~HoldsUser(q),
           r.kind \in WeeklyKinds /\ r.pc \in {"lockUser", "read", "insert"} =>
               r.week \in DOMAIN weeks /\ ~HoldsWeek(r.week),
           r.pc = "insert" =>
               /\ ~r.period => ValidTarget(r)
               /\ \A i \in Active : ~Completes(rows[i], NewRow(r))
    PROVE  CheckinsInv'
<1>1. /\ req' \in [Requests -> RequestType] /\ req'[p] = r
      /\ \A q \in Requests \ {p} : req'[q] = req[q]
  BY DEF CheckinsInv, StateType
<1>2. StateType'
  BY <1>1 DEF CheckinsInv, StateType
<1>3. TypeOK'
  BY <1>1 DEF CheckinsInv, StateType, TypeOK, RequestType
<1>4. RowInv'
  BY DEF CheckinsInv, RowInv
<1>5. RequestInv'
  <2> SUFFICES ASSUME NEW q \in Requests PROVE InOrder(req[q])'
    BY DEF RequestInv
  <2>1. CASE q = p
    BY <1>1, <2>1 DEF InOrder
  <2>2. CASE q # p
    BY <1>1, <2>2 DEF InOrder, CheckinsInv, RequestInv
  <2> QED
    BY <2>1, <2>2
<1>6. LockInv'
  <2>1. \A q \in Requests \ {p} : HoldsUser(q)' => HoldsUser(q)
    BY <1>1 DEF HoldsUser
  <2>2. HoldsUser(p)' => r.pc \in {"read", "insert"}
    BY <1>1 DEF HoldsUser
  <2>3. \A q1, q2 \in Requests : (HoldsUser(q1) /\ HoldsUser(q2))' => q1 = q2
    BY <2>1, <2>2 DEF CheckinsInv, LockInv
  <2>4. \A q \in Requests : SharesWeek(q, req[q].week)' =>
            (req[q].week \in DOMAIN weeks /\ ~HoldsWeek(req[q].week))'
    BY <1>1 DEF CheckinsInv, LockInv, SharesWeek, HoldsWeek
  <2> QED
    BY <2>3, <2>4 DEF CheckinsInv, LockInv
<1>7. InsertInv'
  BY <1>1, SMTT(40) DEF CheckinsInv, InsertInv, ValidTarget, Active, Completes, SameAsset, NewRow
<1>8. TasksKept' /\ OneCompletion'
  BY DEF CheckinsInv, TasksKept, OneCompletion, Active, Completes, SameAsset
<1> QED
  BY <1>2, <1>3, <1>4, <1>5, <1>6, <1>7, <1>8 DEF CheckinsInv

\* Every lookup gives IDs of check-ins that count.
LEMMA FoundActive ==
    /\ \A kind, date : FindExistingDaily(kind, date) \subseteq Active
    /\ \A date, verse : FindPeriodVerse(date, verse) \subseteq Active
    /\ \A r : FindExisting(r) \subseteq Active /\ findExistingWeeklyTask(r) \subseteq Active
<1>1. \A S : First(S) \subseteq S /\ Lowest(S) \subseteq S
  BY DEF First, Lowest
<1>2. \A S, T \in SUBSET Active : FirstOf(S, T) \subseteq Active
  BY <1>1 DEF FirstOf
<1>3. \A r : findExistingWeeklyTask(r) \subseteq Active
  BY <1>2 DEF findExistingWeeklyTask, ByTask
<1>4. \A r : findExistingWeeklyBook(r) \subseteq Active
  BY <1>2 DEF findExistingWeeklyBook, ByTask
<1> QED
  BY <1>1, <1>3, <1>4 DEF FindExistingDaily, FindPeriodVerse, FindExisting

\* A request that ends needs no lock, and its answer may be any row.
LEMMA AnswerInv ==
    ASSUME CheckinsInv, NEW p \in Requests, NEW id \in DOMAIN rows \cup {0},
           UNCHANGED <<rows, tasks, weeks, nextTask, nextWeek, settings, admin, changes, imported>>,
           enqueued' \subseteq DOMAIN rows, req[p].pc # "new", Answer(p, id)
    PROVE  CheckinsInv'
<1> DEFINE r == [req[p] EXCEPT !.pc = "done", !.answer = id]
<1>1. id \in Nat
  BY RowTypes DEF CheckinsInv
<1>2. r \in RequestType /\ r.pc = "done" /\ req' = [req EXCEPT ![p] = r]
  BY <1>1 DEF Answer, Go, CheckinsInv, StateType, RequestType, Pcs
<1>3. InOrder(r)
  <2>1. req[p] \in RequestType /\ InOrder(req[p])
    BY DEF CheckinsInv, RequestInv, StateType
  <2> QED
    BY <1>2, <2>1 DEF InOrder, RequestType
<1> HIDE DEF r
<1> QED
  BY <1>2, <1>3, RequestMoves

LEMMA StartInv ==
    ASSUME CheckinsInv, ConstantsAssumption, NEW p \in Requests, Start(p)
    PROVE  CheckinsInv'
<1>1. UNCHANGED <<rows, tasks, weeks, nextTask, nextWeek, settings, admin, enqueued, changes, imported>>
      /\ enqueued' \subseteq DOMAIN rows
  BY DEF Start, CheckinsInv, TypeOK
<1>2. PICK d \in Dates :
          \/ \E k \in Kinds \cap DailyKinds :
                Go(p, [NoRequest EXCEPT !.pc = "admit", !.kind = k, !.date = d])
          \/ \E t \in DOMAIN tasks :
                /\ tasks[t].kind \in Kinds /\ tasks[t].enabled
                /\ Go(p, [NoRequest EXCEPT !.pc = "find", !.kind = tasks[t].kind, !.date = d,
                            !.task = t, !.week = tasks[t].week, !.pages = tasks[t].pages])
  BY DEF Start
<1>3. d \in Nat
  BY DEF ConstantsAssumption
<1>4. ASSUME NEW k \in Kinds \cap DailyKinds,
             Go(p, [NoRequest EXCEPT !.pc = "admit", !.kind = k, !.date = d])
      PROVE  CheckinsInv'
  <2> DEFINE r == [NoRequest EXCEPT !.pc = "admit", !.kind = k, !.date = d]
  <2>1. r \in RequestType /\ r.pc = "admit" /\ req' = [req EXCEPT ![p] = r]
    BY <1>3, <1>4 DEF Go, NoRequest, RequestType, Pcs, AllKinds, NoWeek
  <2>2. InOrder(r)
    <3>1. nextTask \in Nat \ {0} /\ nextWeek \in Nat \ {0} /\ 0 \notin DOMAIN tasks
      BY DEF CheckinsInv, TypeOK, ConstantsAssumption
    <3> QED
      BY <3>1 DEF NoRequest, InOrder, NoWeek, DailyKinds, WeeklyKinds
  <2> HIDE DEF r
  <2> QED
    BY <1>1, <2>1, <2>2, RequestMoves
<1>5. ASSUME NEW t \in DOMAIN tasks,
             Go(p, [NoRequest EXCEPT !.pc = "find", !.kind = tasks[t].kind, !.date = d,
                            !.task = t, !.week = tasks[t].week, !.pages = tasks[t].pages])
      PROVE  CheckinsInv'
  <2> DEFINE r == [NoRequest EXCEPT !.pc = "find", !.kind = tasks[t].kind, !.date = d,
                            !.task = t, !.week = tasks[t].week, !.pages = tasks[t].pages]
  <2>1. tasks[t] \in Task /\ t \in 1..nextTask - 1 /\ nextTask \in Nat
    BY DEF CheckinsInv, TypeOK, ConstantsAssumption
  <2>2. /\ tasks[t].week \in 0..nextWeek - 1 /\ tasks[t].kind \in WeeklyKinds
        /\ tasks[t].pages \in SUBSET Nat /\ WeeklyKinds \cap DailyKinds = {}
    BY <2>1 DEF Task, CheckinsInv, TypeOK, ConstantsAssumption, WeeklyKinds, DailyKinds
  <2>3. req' = [req EXCEPT ![p] = r]
    BY <1>5 DEF Go
  <2>4. NoRequest \in RequestType
    BY <2>1 DEF NoRequest, RequestType, Pcs, AllKinds, NoWeek, DailyKinds
  <2>5. r \in RequestType
    <3>1. t \in Nat /\ tasks[t].week \in Nat
      BY <2>1 DEF Task
    <3> QED
      BY <1>3, <2>2, <2>4, <3>1 DEF RequestType, Pcs, AllKinds
  <2>6. /\ r.pc = "find" /\ r.date = d /\ r.task = t /\ r.kind = tasks[t].kind
        /\ r.week = tasks[t].week /\ ~r.period /\ r.pages = tasks[t].pages
    BY DEF NoRequest
  <2>7. InOrder(r)
    <3> HIDE DEF r
    <3> QED
      BY <2>1, <2>2, <2>6 DEF InOrder, NoWeek
  <2> HIDE DEF r
  <2> QED
    BY <1>1, <2>3, <2>5, <2>6, <2>7, RequestMoves
<1> QED
  BY <1>2, <1>4, <1>5

LEMMA AdmitInv ==
    ASSUME CheckinsInv, NEW p \in Requests, createAdmittedCheckin(p)
    PROVE  CheckinsInv'
<1> DEFINE verse == req[p].kind = "daily_verse"
           r == [req[p] EXCEPT !.pc = IF verse /\ settings.weekly THEN "lockUser" ELSE "find",
                               !.verse = IF verse THEN settings.verse ELSE "",
                               !.period = verse /\ settings.weekly]
<1>1. UNCHANGED <<rows, tasks, weeks, nextTask, nextWeek, settings, admin, enqueued, changes, imported>>
      /\ enqueued' \subseteq DOMAIN rows /\ req[p].pc = "admit"
  BY DEF createAdmittedCheckin, CheckinsInv, TypeOK
<1>2. CASE ~settings.enabled
  BY <1>1, <1>2, AnswerInv DEF createAdmittedCheckin
<1>3. CASE settings.enabled
  <2>1. req' = [req EXCEPT ![p] = r]
    BY <1>3 DEF createAdmittedCheckin, Go
  <2>2. /\ req[p] \in RequestType /\ InOrder(req[p]) /\ settings.verse \in Verses
        /\ settings.weekly \in BOOLEAN
    BY DEF CheckinsInv, StateType, RequestInv, TypeOK, Settings
  <2>3. r \in RequestType
    BY <2>2 DEF RequestType, Pcs
  <2>4. InOrder(r)
    BY <1>1, <2>2 DEF InOrder, RequestType
  <2>5. r.pc \notin {"read", "insert"} /\ (r.pc = "lockUser" => r.kind \notin WeeklyKinds)
    BY <1>1, <2>2 DEF RequestType, WeeklyKinds, InOrder
  <2> HIDE DEF r
  <2> QED
    BY <1>1, <2>1, <2>3, <2>4, <2>5, RequestMoves
<1> QED
  BY <1>2, <1>3

\* A request that only goes on to the next statement, without the member's lock.
LEMMA AtInv ==
    ASSUME CheckinsInv, NEW p \in Requests, NEW pc \in Pcs \ {"read", "insert", "enqueue", "new"},
           UNCHANGED <<rows, tasks, weeks, nextTask, nextWeek, settings, admin, changes, imported>>,
           enqueued' \subseteq DOMAIN rows,
           At(p, pc), req[p].pc # "new",
           pc \in {"admit", "insertDaily"} => req[p].kind \in DailyKinds,
           pc \in {"lockWeek", "lockUser"} => req[p].kind \in WeeklyKinds,
           pc \in {"find", "insertDaily", "lockWeek"} => ~req[p].period,
           pc = "lockUser" => req[p].week \in DOMAIN weeks /\ ~HoldsWeek(req[p].week)
    PROVE  CheckinsInv'
<1> DEFINE r == [req[p] EXCEPT !.pc = pc]
<1>1. req[p] \in RequestType /\ InOrder(req[p])
  BY DEF CheckinsInv, StateType, RequestInv
<1>2. r \in RequestType /\ r.pc = pc /\ r.week = req[p].week /\ req' = [req EXCEPT ![p] = r]
  BY <1>1 DEF At, Go, RequestType
<1>3. InOrder(r)
  BY <1>1 DEF InOrder, RequestType
<1> HIDE DEF r
<1> QED
  BY <1>2, <1>3, RequestMoves

LEMMA FindInv ==
    ASSUME CheckinsInv, NEW p \in Requests, Find(p)
    PROVE  CheckinsInv'
<1>1. UNCHANGED <<rows, tasks, weeks, nextTask, nextWeek, settings, admin, enqueued, changes, imported>>
      /\ enqueued' \subseteq DOMAIN rows /\ req[p].pc = "find"
  BY DEF Find, CheckinsInv, TypeOK
<1>2. ~req[p].period /\ req[p].kind \in AllKinds
  BY <1>1 DEF CheckinsInv, RequestInv, InOrder, StateType, RequestType
<1>3. \/ \E id \in DOMAIN rows \cup {0} : Answer(p, id)
      \/ At(p, IF req[p].kind \in DailyKinds THEN "insertDaily" ELSE "lockWeek")
  BY FoundActive DEF Find, Active
<1>4. ASSUME At(p, IF req[p].kind \in DailyKinds THEN "insertDaily" ELSE "lockWeek") PROVE CheckinsInv'
  <2>1. CASE req[p].kind \in DailyKinds
    BY <1>1, <1>2, <1>4, <2>1, AtInv DEF Pcs
  <2>2. CASE req[p].kind \notin DailyKinds
    BY <1>1, <1>2, <1>4, <2>2, AtInv DEF Pcs, AllKinds
  <2> QED
    BY <2>1, <2>2
<1> QED
  BY <1>1, <1>3, <1>4, AnswerInv

LEMMA FindAgainInv ==
    ASSUME CheckinsInv, NEW p \in Requests, FindAgain(p)
    PROVE  CheckinsInv'
<1>1. UNCHANGED <<rows, tasks, weeks, nextTask, nextWeek, settings, admin, enqueued, changes, imported>>
      /\ enqueued' \subseteq DOMAIN rows /\ req[p].pc = "findAgain"
  BY DEF FindAgain, CheckinsInv, TypeOK
<1>2. \E id \in DOMAIN rows \cup {0} : Answer(p, id)
  BY FoundActive DEF FindAgain, Active
<1> QED
  BY <1>1, <1>2, AnswerInv

LEMMA LockWeekInv ==
    ASSUME CheckinsInv, NEW p \in Requests, LockWeek(p)
    PROVE  CheckinsInv'
<1>1. UNCHANGED <<rows, tasks, weeks, nextTask, nextWeek, settings, admin, enqueued, changes, imported>>
      /\ enqueued' \subseteq DOMAIN rows /\ req[p].pc = "lockWeek" /\ ~HoldsWeek(req[p].week)
  BY DEF LockWeek, CheckinsInv, TypeOK
<1>2. req[p].kind \in WeeklyKinds
  BY <1>1 DEF CheckinsInv, RequestInv, InOrder
<1>3. CASE req[p].week \in DOMAIN weeks
  <2>1. At(p, "lockUser")
    BY <1>3 DEF LockWeek
  <2> QED
    BY <1>1, <1>2, <1>3, <2>1, AtInv DEF Pcs
<1>4. CASE req[p].week \notin DOMAIN weeks
  BY <1>1, <1>4, AnswerInv DEF LockWeek
<1> QED
  BY <1>3, <1>4

LEMMA LockUserInv ==
    ASSUME CheckinsInv, NEW p \in Requests, LockUser(p)
    PROVE  CheckinsInv'
<1> DEFINE r == [req[p] EXCEPT !.pc = "read"]
<1>1. UNCHANGED <<rows, tasks, weeks, nextTask, nextWeek, settings, admin, enqueued, changes, imported>>
      /\ enqueued' \subseteq DOMAIN rows /\ req[p].pc = "lockUser"
      /\ \A q \in Requests : ~HoldsUser(q)
  BY DEF LockUser, CheckinsInv, TypeOK
<1>2. req[p] \in RequestType /\ InOrder(req[p])
  BY DEF CheckinsInv, StateType, RequestInv
<1>3. r \in RequestType /\ r.pc = "read" /\ req' = [req EXCEPT ![p] = r]
  BY <1>2 DEF At, Go, RequestType, LockUser, Pcs
<1>4. InOrder(r)
  BY <1>1, <1>2 DEF InOrder, RequestType
<1>5. r.kind \in WeeklyKinds => r.week \in DOMAIN weeks /\ ~HoldsWeek(r.week)
  <2>1. r.kind = req[p].kind /\ r.week = req[p].week
    BY <1>2 DEF RequestType
  <2> QED
    BY <1>1, <2>1 DEF CheckinsInv, LockInv, SharesWeek
<1> HIDE DEF r
<1> QED
  BY <1>1, <1>3, <1>4, <1>5, RequestMoves

LEMMA EnqueueInv ==
    ASSUME CheckinsInv, NEW p \in Requests, Enqueue(p)
    PROVE  CheckinsInv'
<1>1. /\ UNCHANGED <<rows, tasks, weeks, nextTask, nextWeek, settings, admin, changes, imported>>
      /\ req[p].pc = "enqueue" /\ At(p, "done")
  BY DEF Enqueue
<1>2. enqueued' \subseteq DOMAIN rows
  BY DEF Enqueue, CheckinsInv, TypeOK, RequestInv, InOrder
<1> QED
  BY <1>1, <1>2, AtInv DEF Pcs

LEMMA VictimInv ==
    ASSUME CheckinsInv, NEW p \in Requests, Victim(p)
    PROVE  CheckinsInv'
BY AnswerInv DEF Victim, SharesWeek, CheckinsInv, TypeOK

-----------------------------------------------------------------------------
(* A lookup that finds nothing, and the row that is inserted after it       *)

\* The row of a request, field by field.
LEMMA NewRowFields ==
    ASSUME NEW r, r.period => r.kind = "daily_verse"
    PROVE  LET y == NewRow(r) IN
           /\ y.kind = r.kind /\ y.date = r.date /\ y.task = r.task /\ y.week = r.week
           /\ y.verse = r.verse /\ y.pages = r.pages /\ y.deleted = FALSE
           /\ r.period => y.part = <<Slot[r.date], r.verse>>
           /\ ~r.period /\ r.kind = "weekly_book" => y.part = <<r.pages>>
           /\ ~r.period /\ r.kind = "weekly_video" => y.part = <<r.task>>
           /\ ~r.period /\ r.kind \notin {"weekly_book", "weekly_video"} => y.part = <<>>
           /\ y.key = <<"active", IF r.kind = "weekly_book" THEN r.task ELSE 0>>
BY DEF NewRow

\* No verse of the week: the row of the week-long verse has no double.
LEMMA PeriodIsFree ==
    ASSUME CheckinsInv, NEW r, r.period, r.kind = "daily_verse",
           FindPeriodVerse(r.date, r.verse) = {}
    PROVE  \A i \in Active : ~Completes(rows[i], NewRow(r))
<1> DEFINE y == NewRow(r)
<1>1. y.kind = "daily_verse" /\ y.part = <<Slot[r.date], r.verse>> /\ y.part # <<>>
  <2>1. y.kind = "daily_verse" /\ y.part = <<Slot[r.date], r.verse>>
    BY NewRowFields
  <2>2. \A a, b : <<a, b>> # <<>>
    OBVIOUS
  <2> QED
    BY <2>1, <2>2
<1> HIDE DEF y
<1>2. \A i \in Active : ~(/\ rows[i].kind = "daily_verse" /\ rows[i].verse = r.verse
                          /\ Slot[rows[i].date] = Slot[r.date])
  BY LowestFinds, RowTypes DEF FindPeriodVerse, Active, CheckinsInv
<1> SUFFICES ASSUME NEW i \in Active, Completes(rows[i], y) PROVE FALSE
  BY DEF y
<1>3. rows[i].kind = "daily_verse" /\ rows[i].part = <<Slot[r.date], r.verse>> /\ rows[i].part # <<>>
  BY <1>1 DEF Completes
<1>4. rows[i].part = <<Slot[rows[i].date], rows[i].verse>>
  BY <1>3 DEF CheckinsInv, RowInv, Active
<1> QED
  BY <1>2, <1>3, <1>4

\* No completion of the book: neither by its task, nor by its title, nor by its pages.
LEMMA BookIsFree ==
    ASSUME CheckinsInv, ConstantsAssumption, NEW r, ~r.period, r.kind = "weekly_book", ValidTarget(r),
           tasks[r.task].pages = r.pages, findExistingWeeklyBook(r) = {}
    PROVE  \A i \in Active : ~Completes(rows[i], NewRow(r))
<1> DEFINE y == NewRow(r)
           inWeek == {i \in Active : /\ rows[i].kind = "weekly_book" /\ r.week \in DOMAIN weeks
                                     /\ Slot[rows[i].date] = weeks[r.week]}
           byTitle == {i \in inWeek : rows[i].pages = r.pages}
           byPages == {i \in inWeek : /\ rows[i].week = r.week /\ SameAsset(rows[i].task, r.task)
                                      /\ tasks[r.task].week = r.week
                                      /\ Covers(rows[i].pages, tasks[r.task].pages)}
<1>1. /\ y.kind = "weekly_book" /\ y.task = r.task /\ y.week = r.week /\ y.pages = r.pages
      /\ y.date = r.date
  BY NewRowFields
<1> HIDE DEF y
<1>2. ByTask("weekly_book", r.task) = {} /\ byTitle = {} /\ byPages = {}
  <2>1. FirstOf(ByTask("weekly_book", r.task), IF byTitle # {} THEN byTitle ELSE byPages) = {}
    BY DEF findExistingWeeklyBook
  <2>2. ByTask("weekly_book", r.task) \subseteq Active /\ byTitle \subseteq Active /\ byPages \subseteq Active
    BY DEF ByTask
  <2> HIDE DEF byTitle, byPages
  <2> QED
    BY <2>1, <2>2, FirstOfFinds DEF CheckinsInv
<1>3. /\ r.week \in DOMAIN weeks /\ weeks[r.week] = Slot[r.date]
      /\ tasks[r.task].week = r.week
  BY DEF ValidTarget
<1> SUFFICES ASSUME NEW i \in Active, Completes(rows[i], y) PROVE FALSE
  BY DEF y
<1>4. rows[i].kind = "weekly_book"
  BY <1>1 DEF Completes
<1>5. rows[i].task # r.task
  BY <1>2, <1>4 DEF ByTask
<1>6. ~(Slot[rows[i].date] = Slot[r.date] /\ rows[i].pages = r.pages)
  BY <1>2, <1>3, <1>4
<1>7. ~(/\ rows[i].week = r.week /\ Slot[rows[i].date] = Slot[r.date]
        /\ SameAsset(rows[i].task, r.task) /\ Covers(rows[i].pages, r.pages))
  BY <1>2, <1>3, <1>4
<1> QED
  BY <1>1, <1>4, <1>5, <1>6, <1>7 DEF Completes

\* No completion of the video or the outline.
LEMMA TaskIsFree ==
    ASSUME CheckinsInv, ConstantsAssumption, NEW r, ~r.period,
           r.kind \in {"weekly_video", "weekly_outline"}, findExistingWeeklyTask(r) = {}
    PROVE  \A i \in Active : ~Completes(rows[i], NewRow(r))
<1> DEFINE y == NewRow(r)
           byAsset == {i \in Active : /\ r.kind = "weekly_video" /\ rows[i].kind = "weekly_video"
                                      /\ SameAsset(rows[i].task, r.task)}
           byWeek == {i \in Active : /\ rows[i].kind = r.kind /\ rows[i].week = r.week
                                     /\ \/ r.kind # "weekly_video"
                                        \/ r.task \in DOMAIN tasks => tasks[r.task].asset = 0}
<1>1. y.kind = r.kind /\ y.task = r.task /\ y.week = r.week
  BY NewRowFields
<1> HIDE DEF y
<1>2. ByTask(r.kind, r.task) = {} /\ byAsset = {} /\ byWeek = {}
  <2>1. FirstOf(ByTask(r.kind, r.task), IF byAsset # {} THEN byAsset ELSE byWeek) = {}
    BY DEF findExistingWeeklyTask
  <2>2. ByTask(r.kind, r.task) \subseteq Active /\ byAsset \subseteq Active /\ byWeek \subseteq Active
    BY DEF ByTask
  <2> HIDE DEF byAsset, byWeek
  <2> QED
    BY <2>1, <2>2, FirstOfFinds DEF CheckinsInv
<1> SUFFICES ASSUME NEW i \in Active, Completes(rows[i], y) PROVE FALSE
  BY DEF y
<1>3. rows[i].kind = r.kind
  BY <1>1 DEF Completes
<1>4. rows[i].task # r.task
  BY <1>2, <1>3 DEF ByTask
<1>5. CASE r.kind = "weekly_video"
  <2>1. SameAsset(rows[i].task, r.task)
    BY <1>1, <1>3, <1>4, <1>5 DEF Completes
  <2> QED
    BY <1>2, <1>3, <1>5, <2>1
<1>6. CASE r.kind = "weekly_outline"
  <2>1. rows[i].week = r.week
    BY <1>1, <1>3, <1>6 DEF Completes
  <2> QED
    BY <1>2, <1>3, <1>6, <2>1
<1> QED
  BY <1>5, <1>6

LEMMA ReadInv ==
    ASSUME CheckinsInv, ConstantsAssumption, NEW p \in Requests, Read(p)
    PROVE  CheckinsInv'
<1> DEFINE found == IF req[p].period THEN FindPeriodVerse(req[p].date, req[p].verse) ELSE FindExisting(req[p])
           r == [req[p] EXCEPT !.pc = "insert"]
<1>1. UNCHANGED <<rows, tasks, weeks, nextTask, nextWeek, settings, admin, enqueued, changes, imported>>
      /\ enqueued' \subseteq DOMAIN rows /\ req[p].pc = "read"
  BY DEF Read, CheckinsInv, TypeOK
<1>2. req[p] \in RequestType /\ InOrder(req[p])
  BY DEF CheckinsInv, StateType, RequestInv
<1>3. CASE \E id \in DOMAIN rows \cup {0} : Answer(p, id)
  BY <1>1, <1>3, AnswerInv
<1>4. CASE (req[p].period \/ ValidTarget(req[p])) /\ found = {} /\ At(p, "insert")
  <2>1. r \in RequestType /\ r.pc = "insert" /\ req' = [req EXCEPT ![p] = r]
    BY <1>2, <1>4 DEF At, Go, RequestType, Pcs
  <2>2. InOrder(r)
    BY <1>1, <1>2 DEF InOrder, RequestType
  <2>3. /\ r.kind = req[p].kind /\ r.week = req[p].week /\ r.period = req[p].period
        /\ r.task = req[p].task /\ r.date = req[p].date /\ r.verse = req[p].verse /\ r.pages = req[p].pages
    BY <1>2 DEF RequestType
  <2>4. \A q \in Requests \ {p} : ~HoldsUser(q)
    BY <1>1 DEF CheckinsInv, LockInv, HoldsUser
  <2>5. r.kind \in WeeklyKinds => r.week \in DOMAIN weeks /\ ~HoldsWeek(r.week)
    BY <1>1, <2>3 DEF CheckinsInv, LockInv, SharesWeek
  <2>6. ~r.period => ValidTarget(r)
    BY <1>4, <2>3 DEF ValidTarget
  <2>7. \A i \in Active : ~Completes(rows[i], NewRow(req[p]))
    <3>1. req[p].period => req[p].kind = "daily_verse"
      BY <1>2 DEF InOrder
    <3>2. CASE req[p].period
      BY <1>4, <3>1, <3>2, PeriodIsFree
    <3>3. CASE ~req[p].period /\ req[p].kind = "weekly_book"
      <4>1. findExistingWeeklyBook(req[p]) = {} /\ ValidTarget(req[p])
        BY <1>4, <3>3 DEF FindExisting
      <4>2. tasks[req[p].task].pages = req[p].pages
        BY <1>2, <4>1 DEF InOrder, ValidTarget
      <4> QED
        BY <3>3, <4>1, <4>2, BookIsFree
    <3>4. CASE ~req[p].period /\ req[p].kind # "weekly_book"
      <4>1. findExistingWeeklyTask(req[p]) = {}
        BY <1>4, <3>4 DEF FindExisting
      <4>2. req[p].kind \in {"weekly_video", "weekly_outline"}
        BY <1>1, <1>2, <3>4 DEF InOrder, WeeklyKinds
      <4> QED
        BY <3>4, <4>1, <4>2, TaskIsFree
    <3> QED
      BY <3>2, <3>3, <3>4
  <2>8. NewRow(r) = NewRow(req[p])
    BY <2>3 DEF NewRow
  <2> HIDE DEF r
  <2> QED
    BY <1>1, <2>1, <2>2, <2>4, <2>5, <2>6, <2>7, <2>8, RequestMoves
<1> QED
  BY <1>3, <1>4, FoundActive DEF Read, Active

-----------------------------------------------------------------------------
(* The row is inserted, or withdrawn                                        *)

LEMMA NewRowTyped ==
    ASSUME ConstantsAssumption, NEW r \in RequestType, r.date \in Dates, r.period => r.kind = "daily_verse"
    PROVE  NewRow(r) \in RowType
<1> DEFINE y == NewRow(r)
<1>1. r.pages \in SUBSET Nat /\ r.task \in Nat /\ r.verse \in Verses \cup {""} /\ r.kind \in AllKinds
      /\ r.week \in Nat /\ Slot[r.date] \in Nat
  BY DEF RequestType, ConstantsAssumption
<1>2. y.part \in Parts
  <2>1. \/ y.part = <<Slot[r.date], r.verse>>
        \/ y.part = <<r.pages>>
        \/ y.part = <<r.task>>
        \/ y.part = <<>>
    BY NewRowFields
  <2>2. <<Slot[r.date], r.verse>> \in Nat \X (Verses \cup {""})
    BY <1>1
  <2>3. <<r.pages>> \in {<<s>> : s \in SUBSET Nat} /\ <<r.task>> \in {<<t>> : t \in Nat}
    BY <1>1
  <2> QED
    BY <2>1, <2>2, <2>3 DEF Parts
<1>3. y.key \in Key
  <2>1. \A n \in Nat : <<"active", n>> \in Key
    BY DEF Key
  <2> QED
    BY <1>1, <2>1, NewRowFields
<1>4. \A part \in Parts, key \in Key :
          [kind |-> r.kind, date |-> r.date, task |-> r.task, week |-> r.week, verse |-> r.verse,
           pages |-> r.pages, deleted |-> FALSE, part |-> part, key |-> key] \in RowType
  BY <1>1 DEF RowType
<1> QED
  BY <1>2, <1>3, <1>4 DEF NewRow

\* What completes what depends on the tasks only through their resources.
LEMMA SameCompletes ==
    ASSUME tasks' = tasks
    PROVE  \A x, y : Completes(x, y)' <=> Completes(x, y)
BY DEF Completes, Covers, SameAsset

\* The new row keeps the invariant when no row that counts completes the same and it
\* completes nothing that another request is about to insert.
LEMMA AppendInv ==
    ASSUME CheckinsInv, ConstantsAssumption, NEW p \in Requests,
           rows' = Append(rows, NewRow(req[p])),
           Go(p, [req[p] EXCEPT !.pc = "enqueue", !.answer = Len(rows) + 1]),
           UNCHANGED <<tasks, weeks, nextTask, nextWeek, settings, admin, enqueued, changes, imported>>,
           req[p].pc \in {"insertDaily", "insert"},
           req[p].kind \in WeeklyKinds => ValidTarget(req[p]),
           \A i \in Active : ~Completes(rows[i], NewRow(req[p])),
           \A q \in Requests \ {p} : req[q].pc = "insert" => ~Completes(NewRow(req[p]), NewRow(req[q]))
    PROVE  CheckinsInv'
<1> DEFINE y == NewRow(req[p])
           n == Len(rows) + 1
           r == [req[p] EXCEPT !.pc = "enqueue", !.answer = n]
<1>1. req[p] \in RequestType /\ InOrder(req[p])
  BY DEF CheckinsInv, StateType, RequestInv
<1>2. req[p].date \in Dates /\ (req[p].period => req[p].kind = "daily_verse")
  BY <1>1 DEF InOrder
<1>3. /\ y \in RowType
      /\ y.kind = req[p].kind /\ y.date = req[p].date /\ y.task = req[p].task /\ y.week = req[p].week
      /\ y.verse = req[p].verse /\ y.pages = req[p].pages /\ y.deleted = FALSE
      /\ req[p].period => y.part = <<Slot[req[p].date], req[p].verse>>
      /\ ~req[p].period /\ req[p].kind = "weekly_book" => y.part = <<req[p].pages>>
      /\ ~req[p].period /\ req[p].kind = "weekly_video" => y.part = <<req[p].task>>
      /\ ~req[p].period /\ req[p].kind \notin {"weekly_book", "weekly_video"} => y.part = <<>>
      /\ y.key = <<"active", IF req[p].kind = "weekly_book" THEN req[p].task ELSE 0>>
  BY <1>1, <1>2, NewRowTyped, NewRowFields
<1>4. /\ Len(rows) \in Nat /\ n \in Nat \ {0} /\ DOMAIN rows = 1..Len(rows) /\ DOMAIN rows' = DOMAIN rows \cup {n}
      /\ n \notin DOMAIN rows /\ rows'[n] = y /\ \A i \in DOMAIN rows : rows'[i] = rows[i]
  BY <1>3, RowTypes DEF CheckinsInv, StateType
<1>5. r \in RequestType /\ r.pc = "enqueue" /\ r.answer = n
  BY <1>1, <1>4 DEF RequestType, Pcs
<1>6. req' \in [Requests -> RequestType] /\ req'[p] = r /\ \A q \in Requests \ {p} : req'[q] = req[q]
  BY <1>5 DEF CheckinsInv, StateType, Go
<1>7. Active' = Active \cup {n}
  BY <1>3, <1>4 DEF Active
<1>8. /\ r.kind = req[p].kind /\ r.date = req[p].date /\ r.task = req[p].task /\ r.week = req[p].week
      /\ r.period = req[p].period /\ r.pages = req[p].pages
  BY <1>1 DEF RequestType
<1> HIDE DEF y, n, r
<1>same. \A a, b : Completes(a, b)' <=> Completes(a, b)
  BY SameCompletes
<1>9. StateType'
  <2>1. rows' \in Seq(RowType)
    BY <1>3 DEF CheckinsInv, StateType, y
  <2> QED
    BY <1>6, <2>1 DEF CheckinsInv, StateType
<1>10. TypeOK'
  <2>1. y.kind \in AllKinds /\ y.date \in Dates /\ y.week \in Nat /\ y.pages \in SUBSET Nat
        /\ y.task \in 0..nextTask - 1 /\ (y.kind \in WeeklyKinds <=> y.task # 0)
    BY <1>1, <1>2, <1>3 DEF RequestType, InOrder
  <2>2. y.kind \in {"daily_devotion", "weekly_outline"} => y.part = <<>>
    BY <1>2, <1>3
  <2>3. \A q \in Requests : req'[q].pc \in Pcs
    BY <1>6 DEF RequestType
  <2>4. /\ y.deleted \in BOOLEAN
        /\ y.key = IF y.deleted THEN <<"deleted", n>>
                   ELSE <<"active", IF y.kind = "weekly_book" THEN y.task ELSE 0>>
    BY <1>3
  <2>5. enqueued \subseteq DOMAIN rows' /\ imported \subseteq DOMAIN rows'
    BY <1>4 DEF CheckinsInv, TypeOK
  <2>6. IsRow(y, n)
    BY <2>1, <2>2, <2>4 DEF IsRow, AllKinds
  <2>7. \A i \in DOMAIN rows' : IsRow(rows'[i], i) /\ rows'[i].task \in 0..nextTask - 1
    BY <1>4, <2>1, <2>6 DEF CheckinsInv, TypeOK
  <2> QED
    BY <2>3, <2>5, <2>7 DEF CheckinsInv, TypeOK
<1>11. RowInv'
  <2>1. CASE y.kind \in WeeklyKinds
    <3>2. y.week \in 0..nextWeek - 1
      BY <1>1, <1>3 DEF InOrder
    <3>3. CASE y.kind = "weekly_book"
      <4>1. y.part = <<y.pages>>
        BY <1>2, <1>3, <3>3
      <4> QED
        BY <1>4, <3>2, <3>3, <4>1 DEF CheckinsInv, RowInv
    <3>4. CASE y.kind = "weekly_video"
      <4>1. y.part = <<y.task>>
        BY <1>2, <1>3, <3>4
      <4> QED
        BY <1>4, <3>2, <3>4, <4>1 DEF CheckinsInv, RowInv
    <3>5. CASE y.kind = "weekly_outline"
      <4>1. y.part = <<>>
        BY <1>2, <1>3, <3>5
      <4> QED
        BY <1>4, <3>2, <3>5, <4>1 DEF CheckinsInv, RowInv
    <3> QED
      BY <2>1, <3>3, <3>4, <3>5 DEF WeeklyKinds
  <2>2. CASE y.kind \in DailyKinds
    <3>1. y.week = 0 /\ 0 \notin DOMAIN weeks /\ 0 \in 0..nextWeek - 1
      BY <1>1, <1>3, <2>2 DEF InOrder, NoWeek, CheckinsInv, TypeOK, ConstantsAssumption
    <3>2. CASE y.kind = "daily_verse"
      <4>1. y.part \in {<<>>, <<Slot[y.date], y.verse>>}
        BY <1>3, <3>2
      <4> QED
        BY <1>4, <3>1, <3>2, <4>1 DEF CheckinsInv, RowInv
    <3>3. CASE y.kind = "daily_devotion"
      <4>1. y.part = <<>>
        BY <1>2, <1>3, <3>3
      <4> QED
        BY <1>4, <3>1, <3>3, <4>1 DEF CheckinsInv, RowInv
    <3> QED
      BY <2>2, <3>2, <3>3 DEF DailyKinds
  <2> QED
    BY <1>1, <1>3, <2>1, <2>2 DEF RequestType, AllKinds
<1>12. RequestInv'
  <2> SUFFICES ASSUME NEW q \in Requests PROVE InOrder(req[q])'
    BY DEF RequestInv
  <2>1. CASE q = p
    BY <1>1, <1>2, <1>4, <1>5, <1>6, <1>8, <2>1 DEF InOrder
  <2>2. CASE q # p
    BY <1>4, <1>6, <2>2 DEF InOrder, CheckinsInv, RequestInv
  <2> QED
    BY <2>1, <2>2
<1>13. LockInv'
  <2>1. \A q \in Requests : HoldsUser(q)' => HoldsUser(q)
    BY <1>5, <1>6 DEF HoldsUser
  <2>2. \A q \in Requests : SharesWeek(q, req[q].week)' => q # p
    BY <1>5, <1>6 DEF SharesWeek
  <2>3. \A q \in Requests : SharesWeek(q, req[q].week)' =>
            (req[q].week \in DOMAIN weeks /\ ~HoldsWeek(req[q].week))'
    BY <1>6, <2>2 DEF CheckinsInv, LockInv, SharesWeek, HoldsWeek
  <2> QED
    BY <2>1, <2>3 DEF CheckinsInv, LockInv
<1>14. InsertInv'
  <2> SUFFICES ASSUME NEW q \in Requests, req'[q].pc = "insert"
               PROVE  /\ ~req'[q].period => ValidTarget(req[q])'
                      /\ \A i \in Active' : ~Completes(rows[i], NewRow(req[q]))'
    BY DEF InsertInv
  <2>1. q # p /\ req'[q] = req[q] /\ req[q].pc = "insert"
    BY <1>5, <1>6
  <2>2. ~req'[q].period => ValidTarget(req[q])'
    BY <2>1 DEF CheckinsInv, InsertInv, ValidTarget
  <2>3. \A i \in Active : ~Completes(rows[i], NewRow(req[q]))
    BY <2>1 DEF CheckinsInv, InsertInv
  <2>4. ~Completes(y, NewRow(req[q]))
    BY <2>1 DEF y
  <2>5. ASSUME NEW i \in Active' PROVE ~Completes(rows[i], NewRow(req[q]))'
    <3>1. CASE i = n
      <4>1. rows'[i] = y /\ NewRow(req[q])' = NewRow(req[q])
        BY <1>4, <2>1, <3>1 DEF NewRow
      <4> QED
        BY <1>same, <2>4, <4>1
    <3>2. CASE i # n
      <4>1. i \in Active /\ rows'[i] = rows[i]
        BY <1>4, <1>7, <3>2 DEF Active
      <4>2. NewRow(req[q])' = NewRow(req[q])
        BY <2>1 DEF NewRow
      <4> QED
        BY <1>same, <2>3, <4>1, <4>2
    <3> QED
      BY <3>1, <3>2
  <2> QED
    BY <2>2, <2>5
<1>15. TasksKept'
  <2>1. y.task # 0 => y.task \in DOMAIN tasks
    BY <1>1, <1>3 DEF InOrder, ValidTarget
  <2> QED
    BY <1>4, <2>1 DEF CheckinsInv, TasksKept
<1>16. OneCompletion'
  <2> SUFFICES ASSUME NEW i \in Active', NEW j \in Active', i < j
               PROVE  ~Completes(rows[i], rows[j])'
    BY DEF OneCompletion
  <2>1. i \in Active /\ rows'[i] = rows[i]
    BY <1>4, <1>7 DEF Active
  <2>2. CASE j = n
    <3>1. ~Completes(rows[i], y)
      BY <2>1 DEF y
    <3> QED
      BY <1>4, <1>same, <2>1, <2>2, <3>1
  <2>3. CASE j # n
    <3>1. j \in Active /\ rows'[j] = rows[j]
      BY <1>4, <1>7, <2>3 DEF Active
    <3>2. ~Completes(rows[i], rows[j])
      BY <2>1, <3>1 DEF CheckinsInv, OneCompletion
    <3> QED
      BY <1>same, <2>1, <3>1, <3>2
  <2> QED
    BY <2>2, <2>3
<1> QED
  BY <1>9, <1>10, <1>11, <1>12, <1>13, <1>14, <1>15, <1>16 DEF CheckinsInv

\* The unique key keeps daily check-ins apart: no row that counts has the new row's kind,
\* date and part.
LEMMA DailyIsFree ==
    ASSUME CheckinsInv, NEW r, r.kind \in DailyKinds, ~r.period, ~Duplicate(NewRow(r))
    PROVE  \A i \in Active : ~Completes(rows[i], NewRow(r))
<1> DEFINE y == NewRow(r)
<1>1. y.kind = r.kind /\ y.date = r.date /\ y.part = <<>> /\ y.key = <<"active", 0>>
  BY NewRowFields DEF DailyKinds
<1> HIDE DEF y
<1> SUFFICES ASSUME NEW i \in Active, Completes(rows[i], y) PROVE FALSE
  BY DEF y
<1>2. rows[i].kind = y.kind /\ IsRow(rows[i], i) /\ i \in DOMAIN rows /\ ~rows[i].deleted
  BY DEF Completes, Active, CheckinsInv, TypeOK
<1>3. rows[i].key = y.key
  BY <1>1, <1>2 DEF IsRow, DailyKinds
<1>4. rows[i].date = y.date /\ rows[i].part = y.part
  <2>1. CASE y.kind = "daily_devotion"
    BY <1>1, <1>2, <2>1 DEF Completes, IsRow
  <2>2. CASE y.kind = "daily_verse"
    BY <1>1, <1>2, <2>2 DEF Completes
  <2> QED
    BY <1>1, <2>1, <2>2 DEF DailyKinds
<1> QED
  BY <1>2, <1>3, <1>4 DEF Duplicate, y

\* A daily check-in completes nothing that is about to be inserted under the member's lock.
LEMMA DailyStandsApart ==
    ASSUME CheckinsInv, NEW r, r.kind \in DailyKinds, ~r.period,
           NEW q \in Requests, req[q].pc = "insert"
    PROVE  ~Completes(NewRow(r), NewRow(req[q]))
<1> DEFINE x == NewRow(r)
           y == NewRow(req[q])
<1>1. x.kind = r.kind /\ x.part = <<>>
  BY NewRowFields DEF DailyKinds
<1>2. InOrder(req[q])
  BY DEF CheckinsInv, RequestInv
<1>3. y.kind = req[q].kind /\ (req[q].period => y.part = <<Slot[req[q].date], req[q].verse>>)
  BY <1>2, NewRowFields DEF InOrder
<1>4. req[q].kind \in WeeklyKinds \/ (req[q].period /\ req[q].kind = "daily_verse")
  BY <1>2 DEF InOrder
<1>5. \A a, b : <<a, b>> # <<>>
  OBVIOUS
<1>6. y.kind \in WeeklyKinds \/ (y.kind = "daily_verse" /\ y.part # <<>>)
  BY <1>3, <1>4, <1>5
<1> HIDE DEF x, y
<1>7. y.kind \in WeeklyKinds => ~Completes(x, y)
  BY <1>1 DEF Completes, DailyKinds, WeeklyKinds
<1>8. y.kind = "daily_verse" /\ y.part # <<>> => ~Completes(x, y)
  BY <1>1 DEF Completes
<1>9. ~Completes(x, y)
  BY <1>6, <1>7, <1>8
<1> QED
  BY <1>9 DEF x, y

\* A row is inserted, or the request goes on after error 1062.
LEMMA CreateRecordInv ==
    ASSUME CheckinsInv, ConstantsAssumption, NEW p \in Requests, NEW next \in {"findAgain", "done"},
           createRecord(p, next),
           req[p].pc \in {"insertDaily", "insert"},
           req[p].kind \in WeeklyKinds => ValidTarget(req[p]),
           ~Duplicate(NewRow(req[p])) => \A i \in Active : ~Completes(rows[i], NewRow(req[p])),
           \A q \in Requests \ {p} : req[q].pc = "insert" => ~Completes(NewRow(req[p]), NewRow(req[q]))
    PROVE  CheckinsInv'
<1>1. UNCHANGED <<tasks, weeks, nextTask, nextWeek, settings, admin, enqueued, changes, imported>>
      /\ enqueued' = enqueued /\ enqueued \subseteq DOMAIN rows /\ req[p].pc # "new"
  BY DEF createRecord, CheckinsInv, TypeOK
<1>2. CASE Duplicate(NewRow(req[p]))
  <2>1. rows' = rows /\ (IF next = "done" THEN Answer(p, 0) ELSE At(p, next))
    BY <1>2 DEF createRecord
  <2>2. CASE next = "done"
    BY <1>1, <2>1, <2>2, AnswerInv
  <2>3. CASE next = "findAgain"
    BY <1>1, <2>1, <2>3, AtInv DEF Pcs
  <2> QED
    BY <2>2, <2>3
<1>3. CASE ~Duplicate(NewRow(req[p]))
  <2>1. /\ rows' = Append(rows, NewRow(req[p]))
        /\ Go(p, [req[p] EXCEPT !.pc = "enqueue", !.answer = Len(rows) + 1])
    BY <1>3 DEF createRecord
  <2> QED
    BY <1>1, <1>3, <2>1, AppendInv
<1> QED
  BY <1>2, <1>3

LEMMA InsertDailyInv ==
    ASSUME CheckinsInv, ConstantsAssumption, NEW p \in Requests, InsertDaily(p)
    PROVE  CheckinsInv'
<1>1. req[p].pc = "insertDaily" /\ createRecord(p, "findAgain")
  BY DEF InsertDaily
<1>2. req[p].kind \in DailyKinds /\ ~req[p].period /\ req[p].kind \notin WeeklyKinds
  BY <1>1 DEF CheckinsInv, RequestInv, InOrder, DailyKinds, WeeklyKinds
<1> QED
  BY <1>1, <1>2, DailyIsFree, DailyStandsApart, CreateRecordInv

LEMMA InsertStepInv ==
    ASSUME CheckinsInv, ConstantsAssumption, NEW p \in Requests, Insert(p)
    PROVE  CheckinsInv'
<1>1. /\ req[p].pc = "insert"
      /\ createRecord(p, IF req[p].kind = "weekly_video" THEN "findAgain" ELSE "done")
  BY DEF Insert
<1>2. req[p].kind \in WeeklyKinds => ~req[p].period
  BY DEF CheckinsInv, RequestInv, InOrder, WeeklyKinds
<1>3. /\ req[p].kind \in WeeklyKinds => ValidTarget(req[p])
      /\ \A i \in Active : ~Completes(rows[i], NewRow(req[p]))
  BY <1>1, <1>2 DEF CheckinsInv, InsertInv
<1>4. \A q \in Requests \ {p} : req[q].pc # "insert"
  BY <1>1 DEF CheckinsInv, LockInv, HoldsUser
<1> QED
  BY <1>1, <1>3, <1>4, CreateRecordInv

LEMMA DeleteCheckinInv ==
    ASSUME CheckinsInv, NEW i \in DOMAIN rows, DeleteCheckin(i)
    PROVE  CheckinsInv'
<1> DEFINE x == [rows[i] EXCEPT !.deleted = TRUE, !.key = <<"deleted", i>>]
<1>1. /\ rows' = [rows EXCEPT ![i].deleted = TRUE, ![i].key = <<"deleted", i>>]
      /\ UNCHANGED <<tasks, weeks, nextTask, nextWeek, settings, req, admin, enqueued, changes, imported>>
  BY DEF DeleteCheckin
<1>2. rows[i] \in RowType /\ i \in Nat /\ DOMAIN rows = 1..Len(rows) /\ Len(rows) \in Nat
  BY RowTypes DEF CheckinsInv
<1>3. x \in RowType
  BY <1>2 DEF RowType, Key
<1>4. /\ x.kind = rows[i].kind /\ x.date = rows[i].date /\ x.task = rows[i].task
      /\ x.week = rows[i].week /\ x.verse = rows[i].verse /\ x.pages = rows[i].pages
      /\ x.part = rows[i].part /\ x.deleted = TRUE /\ x.key = <<"deleted", i>>
  BY <1>2 DEF RowType
<1>5. rows' = [rows EXCEPT ![i] = x]
  BY <1>1, <1>2 DEF CheckinsInv, StateType
<1> HIDE DEF x
<1>6. /\ rows' \in Seq(RowType) /\ DOMAIN rows' = DOMAIN rows /\ rows'[i] = x
      /\ \A j \in DOMAIN rows \ {i} : rows'[j] = rows[j]
  BY <1>2, <1>3, <1>5 DEF CheckinsInv, StateType
<1>7. Active' = Active \ {i}
  BY <1>4, <1>6 DEF Active
<1>8. \A j \in Active' : j \in Active /\ rows'[j] = rows[j]
  BY <1>6, <1>7 DEF Active
<1>9. \A a, b : Completes(a, b)' <=> Completes(a, b)
  BY <1>1, SameCompletes
<1>10. StateType'
  BY <1>1, <1>6 DEF CheckinsInv, StateType
<1>11. TypeOK'
  <2>1. IsRow(rows[i], i) /\ rows[i].task \in 0..nextTask - 1
    BY DEF CheckinsInv, TypeOK
  <2>2. IsRow(x, i) /\ x.task \in 0..nextTask - 1
    BY <1>4, <2>1 DEF IsRow
  <2> QED
    BY <1>1, <1>6, <2>2 DEF CheckinsInv, TypeOK
<1>12. RowInv'
  BY <1>1, <1>4, <1>6 DEF CheckinsInv, RowInv
<1>13. RequestInv' /\ LockInv'
  BY <1>1, <1>6 DEF CheckinsInv, RequestInv, InOrder, LockInv, HoldsUser, SharesWeek, HoldsWeek
<1>14. InsertInv'
  <2> SUFFICES ASSUME NEW q \in Requests, req'[q].pc = "insert"
               PROVE  /\ ~req'[q].period => ValidTarget(req[q])'
                      /\ \A j \in Active' : ~Completes(rows[j], NewRow(req[q]))'
    BY DEF InsertInv
  <2>1. ~req'[q].period => ValidTarget(req[q])'
    BY <1>1 DEF CheckinsInv, InsertInv, ValidTarget
  <2>2. NewRow(req[q])' = NewRow(req[q])
    BY <1>1 DEF NewRow
  <2>3. \A j \in Active : ~Completes(rows[j], NewRow(req[q]))
    BY <1>1 DEF CheckinsInv, InsertInv
  <2> QED
    BY <1>8, <1>9, <2>1, <2>2, <2>3
<1>15. TasksKept'
  BY <1>1, <1>4, <1>6 DEF CheckinsInv, TasksKept
<1>16. OneCompletion'
  <2> SUFFICES ASSUME NEW j \in Active', NEW k \in Active', j < k
               PROVE  ~Completes(rows[j], rows[k])'
    BY DEF OneCompletion
  <2>1. j \in Active /\ k \in Active /\ rows'[j] = rows[j] /\ rows'[k] = rows[k]
    BY <1>8
  <2>2. ~Completes(rows[j], rows[k])
    BY <2>1 DEF CheckinsInv, OneCompletion
  <2> QED
    BY <1>9, <2>1, <2>2
<1> QED
  BY <1>10, <1>11, <1>12, <1>13, <1>14, <1>15, <1>16 DEF CheckinsInv

-----------------------------------------------------------------------------
(* The steps of administrators                                              *)

LEMMA IdsBelow ==
    ASSUME NEW a \in Nat, NEW b \in Nat, a <= b
    PROVE  \A n \in 0..a - 1 : n \in 0..b - 1 /\ n < a
OBVIOUS

\* A change of the tasks and weeks keeps the invariant when tasks that stay keep their
\* resource and pages, tasks of check-ins stay, new IDs are new, and no week or task that
\* a request has locked is touched.
LEMMA TablesChange ==
    ASSUME CheckinsInv, ConstantsAssumption,
           UNCHANGED <<rows, req, enqueued>>, settings' \in Settings,
           imported \subseteq imported', imported' \subseteq DOMAIN rows,
           admin' \in AdminType, admin'.pc # "idle" => admin'.week \in DOMAIN weeks',
           changes' \in 0..MaxChanges,
           tasks' \in [DOMAIN tasks' -> Task], weeks' \in [DOMAIN weeks' -> Slots],
           nextTask' \in nextTask..MaxTasks + 1, nextWeek' \in nextWeek..MaxWeeks + 1,
           DOMAIN tasks' \subseteq 1..nextTask' - 1, DOMAIN weeks' \subseteq 1..nextWeek' - 1,
           \A t \in DOMAIN tasks' : tasks'[t].week < nextWeek',
           \A t \in DOMAIN tasks' : t < nextTask =>
               /\ t \in DOMAIN tasks
               /\ tasks'[t].asset = tasks[t].asset /\ tasks'[t].pages = tasks[t].pages,
           \A i \in DOMAIN rows : rows[i].task \in DOMAIN tasks =>
               rows[i].task \in DOMAIN tasks' \/ i \in imported',
           \A p \in Requests : SharesWeek(p, req[p].week) =>
               /\ req[p].week \in DOMAIN weeks' /\ ~HoldsWeek(req[p].week)'
               /\ weeks'[req[p].week] = weeks[req[p].week],
           \A p \in Requests : req[p].pc = "insert" /\ ~req[p].period =>
               req[p].task \in DOMAIN tasks' /\ tasks'[req[p].task] = tasks[req[p].task]
    PROVE  CheckinsInv'
<1>1. nextTask \in Nat /\ nextTask' \in Nat /\ nextTask <= nextTask'
      /\ nextWeek \in Nat /\ nextWeek' \in Nat /\ nextWeek <= nextWeek'
  BY DEF CheckinsInv, TypeOK, ConstantsAssumption
<1>2. StateType'
  BY DEF CheckinsInv, StateType
<1>3. TypeOK'
  <2>1. \A i \in DOMAIN rows : IsRow(rows[i], i) /\ rows[i].task \in 0..nextTask' - 1
    BY <1>1, SMTT(40) DEF CheckinsInv, TypeOK
  <2>2. admin'.pc \in {"idle", "replace", "delete"}
    BY DEF AdminType
  <2>3. nextTask' \in 1..MaxTasks + 1 /\ nextWeek' \in 1..MaxWeeks + 1
    BY <1>1 DEF CheckinsInv, TypeOK, ConstantsAssumption
  <2> QED
    BY <2>1, <2>2, <2>3 DEF CheckinsInv, TypeOK
<1>4. RowInv'
  <2> SUFFICES ASSUME NEW i \in DOMAIN rows PROVE rows[i].week \in 0..nextWeek' - 1
    BY DEF CheckinsInv, RowInv
  <2>1. rows[i].week \in 0..nextWeek - 1
    BY DEF CheckinsInv, RowInv
  <2> QED
    BY <1>1, <2>1, SMTT(40)
<1>ids. /\ \A n \in 0..nextTask - 1 : n \in 0..nextTask' - 1 /\ n < nextTask
        /\ \A n \in 0..nextWeek - 1 : n \in 0..nextWeek' - 1 /\ n < nextWeek
  BY <1>1, IdsBelow
<1>5. RequestInv'
  <2> SUFFICES ASSUME NEW q \in Requests PROVE InOrder(req[q])'
    BY DEF RequestInv
  <2>1. InOrder(req[q])
    BY DEF CheckinsInv, RequestInv
  <2>2. /\ req[q].task \in 0..nextTask - 1 /\ req[q].week \in 0..nextWeek - 1
        /\ req[q].task \in DOMAIN tasks => tasks[req[q].task].pages = req[q].pages
    BY <2>1 DEF InOrder
  <2>3. req[q].task \in 0..nextTask' - 1 /\ req[q].week \in 0..nextWeek' - 1 /\ req[q].task < nextTask
    BY <1>ids, <2>2
  <2>4. req[q].task \in DOMAIN tasks' => tasks'[req[q].task].pages = req[q].pages
    BY <2>2, <2>3
  <2> QED
    BY <2>1, <2>3, <2>4 DEF InOrder
<1>6. LockInv'
  BY DEF CheckinsInv, LockInv, HoldsUser, SharesWeek
<1>7. \A a, b : a.task \in 0..nextTask - 1 /\ b.task \in 0..nextTask - 1 /\ Completes(a, b)' => Completes(a, b)
  <2>1. \A t, u \in 0..nextTask - 1 : SameAsset(t, u)' => SameAsset(t, u)
    BY <1>1, SMTT(40) DEF SameAsset
  <2> QED
    BY <2>1 DEF Completes, Covers
<1>8. InsertInv'
  <2> SUFFICES ASSUME NEW q \in Requests, req[q].pc = "insert"
               PROVE  /\ ~req[q].period => ValidTarget(req[q])'
                      /\ \A i \in Active : ~Completes(rows[i], NewRow(req[q]))'
    BY DEF InsertInv, Active
  <2>1. InOrder(req[q])
    BY DEF CheckinsInv, RequestInv
  <2>2. ASSUME ~req[q].period PROVE ValidTarget(req[q])'
    <3>1. ValidTarget(req[q])
      BY <2>2 DEF CheckinsInv, InsertInv
    <3>2. SharesWeek(q, req[q].week)
      BY <2>1, <2>2 DEF InOrder, SharesWeek
    <3>3. req[q].week \in DOMAIN weeks' /\ weeks'[req[q].week] = weeks[req[q].week]
      BY <3>2
    <3> QED
      BY <2>2, <3>1, <3>3 DEF ValidTarget
  <2>3. ASSUME NEW i \in Active PROVE ~Completes(rows[i], NewRow(req[q]))'
    <3>1. NewRow(req[q])' = NewRow(req[q]) /\ NewRow(req[q]).task = req[q].task
      BY DEF NewRow
    <3>2. ~Completes(rows[i], NewRow(req[q]))
      BY DEF CheckinsInv, InsertInv
    <3>3. rows[i].task \in 0..nextTask - 1 /\ req[q].task \in 0..nextTask - 1
      BY <2>1 DEF InOrder, CheckinsInv, TypeOK, Active
    <3> QED
      BY <1>7, <3>1, <3>2, <3>3
  <2> QED
    BY <2>2, <2>3
<1>9. TasksKept'
  BY DEF CheckinsInv, TasksKept
<1>10. OneCompletion'
  <2> SUFFICES ASSUME NEW i \in Active, NEW j \in Active, i < j
               PROVE  ~Completes(rows[i], rows[j])'
    BY DEF OneCompletion, Active
  <2>1. ~Completes(rows[i], rows[j])
    BY DEF CheckinsInv, OneCompletion
  <2>2. rows[i].task \in 0..nextTask - 1 /\ rows[j].task \in 0..nextTask - 1
    BY DEF CheckinsInv, TypeOK, Active
  <2> QED
    BY <1>7, <2>1, <2>2
<1> QED
  BY <1>2, <1>3, <1>4, <1>5, <1>6, <1>8, <1>9, <1>10 DEF CheckinsInv

\* Tasks without check-ins go, the others keep their resource and pages; other weeks'
\* tasks stay as they are.
LEMMA WithoutKeeps ==
    ASSUME CheckinsInv, NEW w
    PROVE  LET old == WithoutWeekTasks(w) IN
           /\ DOMAIN old \subseteq DOMAIN tasks /\ old \in [DOMAIN old -> Task]
           /\ \A t \in DOMAIN old : /\ old[t].asset = tasks[t].asset /\ old[t].pages = tasks[t].pages
                                    /\ old[t].week \in {0, tasks[t].week}
           /\ \A t \in DOMAIN tasks : tasks[t].week # w => t \in DOMAIN old /\ old[t] = tasks[t]
           /\ \A i \in DOMAIN rows : rows[i].task \in DOMAIN tasks => rows[i].task \in DOMAIN old
<1> DEFINE used == {rows[i].task : i \in DOMAIN rows}
           kept == {t \in DOMAIN tasks : tasks[t].week # w \/ t \in used}
           gone(t) == [tasks[t] EXCEPT !.week = NoWeek, !.enabled = FALSE]
           old == WithoutWeekTasks(w)
<1>1. \A t \in DOMAIN tasks : tasks[t] \in Task
  BY DEF CheckinsInv, TypeOK
<1>2. \A t \in DOMAIN tasks :
          /\ gone(t) \in Task /\ gone(t).week = 0
          /\ gone(t).asset = tasks[t].asset /\ gone(t).pages = tasks[t].pages
  BY <1>1 DEF Task, NoWeek
<1>3. old = [t \in kept |-> IF tasks[t].week = w THEN gone(t) ELSE tasks[t]]
  BY DEF WithoutWeekTasks
<1> HIDE DEF gone, old
<1>4. DOMAIN old = kept /\ kept \subseteq DOMAIN tasks
  BY <1>3
<1>5. \A t \in kept : old[t] = IF tasks[t].week = w THEN gone(t) ELSE tasks[t]
  BY <1>3
<1>6. \A t \in DOMAIN tasks : tasks[t].week # w => t \in kept
  OBVIOUS
<1>7. \A i \in DOMAIN rows : rows[i].task \in DOMAIN tasks => rows[i].task \in kept
  OBVIOUS
<1> HIDE DEF kept
<1>8. old \in [DOMAIN old -> Task]
  BY <1>1, <1>2, <1>3, <1>4
<1>9. \A t \in DOMAIN old : /\ old[t].asset = tasks[t].asset /\ old[t].pages = tasks[t].pages
                            /\ old[t].week \in {0, tasks[t].week}
  BY <1>2, <1>4, <1>5
<1> QED
  BY <1>4, <1>5, <1>6, <1>7, <1>8, <1>9 DEF old

\* The tasks of a draft have new IDs, and those that were left are as they were.
LEMMA InsertKeeps ==
    ASSUME CheckinsInv, ConstantsAssumption, NEW stay, NEW w \in Nat, NEW draft \in Seq(Task),
           DOMAIN stay \subseteq DOMAIN tasks, stay \in [DOMAIN stay -> Task],
           \A t \in DOMAIN stay : /\ stay[t].asset = tasks[t].asset /\ stay[t].pages = tasks[t].pages
                                  /\ stay[t].week \in {0, tasks[t].week},
           InsertTasks(stay, w, draft)
    PROVE  /\ tasks' \in [DOMAIN tasks' -> Task]
           /\ nextTask' \in nextTask..MaxTasks + 1 /\ DOMAIN tasks' \subseteq 1..nextTask' - 1
           /\ \A t \in DOMAIN tasks' : tasks'[t].week \in {0, w} \/ tasks'[t].week < nextWeek
           /\ \A t \in DOMAIN tasks' : t < nextTask =>
                  /\ t \in DOMAIN tasks
                  /\ tasks'[t].asset = tasks[t].asset /\ tasks'[t].pages = tasks[t].pages
           /\ \A t \in DOMAIN stay : t \in DOMAIN tasks' /\ tasks'[t] = stay[t]
<1> DEFINE top == nextTask + Len(draft)
           added == nextTask..nextTask + Len(draft) - 1
           put(t) == [draft[t - nextTask + 1] EXCEPT !.week = w]
<1>1. nextTask \in Nat \ {0} /\ MaxTasks \in Nat /\ Len(draft) \in Nat /\ top \in Nat
  BY DEF CheckinsInv, TypeOK, ConstantsAssumption
<1>2. /\ nextTask + Len(draft) - 1 <= MaxTasks /\ nextTask' = top
      /\ tasks' = [t \in DOMAIN stay \cup added |-> IF t \in added THEN put(t) ELSE stay[t]]
  BY Zenon DEF InsertTasks
<1>3. \A t \in added : put(t) \in Task /\ put(t).week = w
  <2> SUFFICES ASSUME NEW t \in added PROVE put(t) \in Task /\ put(t).week = w
    OBVIOUS
  <2>1. t - nextTask + 1 \in 1..Len(draft)
    BY <1>1
  <2>2. draft[t - nextTask + 1] \in Task
    BY <2>1
  <2> QED
    BY <2>2 DEF Task
<1>5. \A t \in DOMAIN tasks : t \in 1..nextTask - 1 /\ tasks[t].week < nextWeek /\ t \notin added
  BY <1>1 DEF CheckinsInv, TypeOK
<1>6. \A t \in added : t \in 1..top - 1 /\ ~(t < nextTask)
  BY <1>1
<1>7. \A t \in DOMAIN tasks : t \in 1..top - 1
  BY <1>1, <1>5
<1>8. top \in nextTask..MaxTasks + 1
  BY <1>1, <1>2
<1> HIDE DEF added, top, put
<1>9. /\ DOMAIN tasks' = DOMAIN stay \cup added
      /\ \A t \in added : tasks'[t] = put(t)
      /\ \A t \in DOMAIN stay : tasks'[t] = stay[t]
  BY <1>2, <1>5
<1>10. tasks' \in [DOMAIN tasks' -> Task]
  BY <1>2, <1>3
<1>11. nextTask' \in nextTask..MaxTasks + 1 /\ DOMAIN tasks' \subseteq 1..nextTask' - 1
  BY <1>2, <1>6, <1>7, <1>8, <1>9
<1>12. ASSUME NEW t \in DOMAIN tasks'
       PROVE  /\ tasks'[t].week \in {0, w} \/ tasks'[t].week < nextWeek
              /\ t < nextTask =>
                     /\ t \in DOMAIN tasks
                     /\ tasks'[t].asset = tasks[t].asset /\ tasks'[t].pages = tasks[t].pages
  <2>1. CASE t \in added
    BY <1>3, <1>6, <1>9, <2>1
  <2>2. CASE t \in DOMAIN stay
    BY <1>5, <1>9, <2>2
  <2> QED
    BY <1>9, <2>1, <2>2
<1> QED
  BY <1>9, <1>10, <1>11, <1>12

\* The new tasks of a week have new IDs.
LEMMA ReplaceKeeps ==
    ASSUME CheckinsInv, ConstantsAssumption, NEW w \in Nat, NEW draft \in Seq(Task),
           ReplaceWeekTasks(w, draft)
    PROVE  /\ tasks' \in [DOMAIN tasks' -> Task]
           /\ nextTask' \in nextTask..MaxTasks + 1 /\ DOMAIN tasks' \subseteq 1..nextTask' - 1
           /\ \A t \in DOMAIN tasks' : tasks'[t].week \in {0, w} \/ tasks'[t].week < nextWeek
           /\ \A t \in DOMAIN tasks' : t < nextTask =>
                  /\ t \in DOMAIN tasks
                  /\ tasks'[t].asset = tasks[t].asset /\ tasks'[t].pages = tasks[t].pages
           /\ \A t \in DOMAIN tasks : tasks[t].week # w => t \in DOMAIN tasks' /\ tasks'[t] = tasks[t]
           /\ \A i \in DOMAIN rows : rows[i].task \in DOMAIN tasks => rows[i].task \in DOMAIN tasks'
<1> DEFINE stay == WithoutWeekTasks(w)
<1>1. InsertTasks(stay, w, draft)
  BY DEF ReplaceWeekTasks
<1>2. /\ DOMAIN stay \subseteq DOMAIN tasks /\ stay \in [DOMAIN stay -> Task]
      /\ \A t \in DOMAIN stay : /\ stay[t].asset = tasks[t].asset /\ stay[t].pages = tasks[t].pages
                               /\ stay[t].week \in {0, tasks[t].week}
      /\ \A t \in DOMAIN tasks : tasks[t].week # w => t \in DOMAIN stay /\ stay[t] = tasks[t]
      /\ \A i \in DOMAIN rows : rows[i].task \in DOMAIN tasks => rows[i].task \in DOMAIN stay
  BY WithoutKeeps
<1> HIDE DEF stay
<1>3. /\ tasks' \in [DOMAIN tasks' -> Task]
      /\ nextTask' \in nextTask..MaxTasks + 1 /\ DOMAIN tasks' \subseteq 1..nextTask' - 1
      /\ \A t \in DOMAIN tasks' : tasks'[t].week \in {0, w} \/ tasks'[t].week < nextWeek
      /\ \A t \in DOMAIN tasks' : t < nextTask =>
             /\ t \in DOMAIN tasks
             /\ tasks'[t].asset = tasks[t].asset /\ tasks'[t].pages = tasks[t].pages
      /\ \A t \in DOMAIN stay : t \in DOMAIN tasks' /\ tasks'[t] = stay[t]
  BY <1>1, <1>2, InsertKeeps
<1> QED
  BY <1>2, <1>3

\* What a request that inserts knows of its task and week.
LEMMA InsertTarget ==
    ASSUME CheckinsInv, NEW p \in Requests, req[p].pc = "insert", ~req[p].period
    PROVE  /\ SharesWeek(p, req[p].week) /\ req[p].week \in DOMAIN weeks
           /\ req[p].task \in DOMAIN tasks /\ tasks[req[p].task].week = req[p].week
<1>1. req[p].kind \in WeeklyKinds
  BY DEF CheckinsInv, RequestInv, InOrder
<1> QED
  BY <1>1 DEF CheckinsInv, InsertInv, ValidTarget, SharesWeek

\* The tables are left alone, and a week that an administrator takes is not shared.
LEMMA TablesStay ==
    ASSUME CheckinsInv, ConstantsAssumption,
           UNCHANGED <<rows, tasks, weeks, nextTask, nextWeek, req, enqueued, imported>>, settings' \in Settings,
           admin' \in AdminType, admin'.pc # "idle" => admin'.week \in DOMAIN weeks,
           changes' \in 0..MaxChanges,
           \A p \in Requests : SharesWeek(p, req[p].week) => ~HoldsWeek(req[p].week)'
    PROVE  CheckinsInv'
<1>1. nextTask \in Nat /\ nextWeek \in Nat /\ nextTask <= MaxTasks + 1 /\ nextWeek <= MaxWeeks + 1
      /\ MaxTasks \in Nat /\ MaxWeeks \in Nat
  BY DEF CheckinsInv, TypeOK, ConstantsAssumption
<1>2. nextTask \in nextTask..MaxTasks + 1 /\ nextWeek \in nextWeek..MaxWeeks + 1
  BY <1>1
<1>3. /\ tasks \in [DOMAIN tasks -> Task] /\ weeks \in [DOMAIN weeks -> Slots]
      /\ DOMAIN tasks \subseteq 1..nextTask - 1 /\ DOMAIN weeks \subseteq 1..nextWeek - 1
      /\ \A t \in DOMAIN tasks : tasks[t].week < nextWeek
  BY DEF CheckinsInv, TypeOK, StateType
<1>4. \A p \in Requests : SharesWeek(p, req[p].week) => req[p].week \in DOMAIN weeks
  BY DEF CheckinsInv, LockInv
<1>5. \A t \in DOMAIN tasks' : t < nextTask =>
          t \in DOMAIN tasks /\ tasks'[t].asset = tasks[t].asset /\ tasks'[t].pages = tasks[t].pages
  OBVIOUS
<1>6. \A p \in Requests : req[p].pc = "insert" /\ ~req[p].period =>
          req[p].task \in DOMAIN tasks' /\ tasks'[req[p].task] = tasks[req[p].task]
  BY InsertTarget
<1>7. \A p \in Requests : SharesWeek(p, req[p].week) =>
          /\ req[p].week \in DOMAIN weeks' /\ ~HoldsWeek(req[p].week)'
          /\ weeks'[req[p].week] = weeks[req[p].week]
  BY <1>4
<1>8. imported \subseteq imported' /\ imported' \subseteq DOMAIN rows
  BY DEF CheckinsInv, TypeOK
<1> QED
  BY <1>2, <1>3, <1>5, <1>6, <1>7, <1>8, TablesChange

LEMMA AdminWaitsInv ==
    ASSUME CheckinsInv, ConstantsAssumption,
           \/ SaveSettings
           \/ \E w \in DOMAIN weeks : DeleteWeek(w) \/ SaveWeek(w)
           \/ AdminVictim
    PROVE  CheckinsInv'
<1>1. /\ changes \in 0..MaxChanges /\ MaxChanges \in Nat /\ admin \in AdminType /\ settings \in Settings
      /\ DOMAIN weeks \subseteq Nat
  BY DEF CheckinsInv, TypeOK, StateType, ConstantsAssumption
<1>2. Change => changes' \in 0..MaxChanges
  BY <1>1 DEF Change
<1>3. CASE SaveSettings
  <2>1. settings' \in Settings /\ changes' \in 0..MaxChanges
        /\ UNCHANGED <<rows, tasks, weeks, nextTask, nextWeek, req, admin, enqueued, imported>>
    BY <1>2, <1>3 DEF SaveSettings
  <2>2. /\ \A p \in Requests : SharesWeek(p, req[p].week) => ~HoldsWeek(req[p].week)'
        /\ admin'.pc # "idle" => admin'.week \in DOMAIN weeks
    BY <2>1 DEF CheckinsInv, LockInv, HoldsWeek
  <2> QED
    BY <1>1, <2>1, <2>2, TablesStay
<1>4. ASSUME NEW w \in DOMAIN weeks, DeleteWeek(w) PROVE CheckinsInv'
  <2>1. /\ admin' = [pc |-> "delete", week |-> w]
        /\ changes' \in 0..MaxChanges
        /\ UNCHANGED <<rows, tasks, weeks, nextTask, nextWeek, settings, req, enqueued, imported>>
    BY <1>2, <1>4 DEF DeleteWeek
  <2>2. admin' \in AdminType /\ admin'.pc = "delete" /\ admin'.week = w
    BY <1>1, <2>1 DEF AdminType
  <2>3. \A p \in Requests : ~HoldsWeek(req[p].week)'
    BY <2>2 DEF HoldsWeek
  <2> QED
    BY <1>1, <2>1, <2>2, <2>3, TablesStay
<1>5. ASSUME NEW w \in DOMAIN weeks, SaveWeek(w) PROVE CheckinsInv'
  <2>1. admin' = [pc |-> "replace", week |-> w]
    BY <1>5 DEF SaveWeek
  <2>2. /\ changes' \in 0..MaxChanges /\ \A p \in Requests : ~SharesWeek(p, w)
        /\ UNCHANGED <<rows, tasks, weeks, nextTask, nextWeek, settings, req, enqueued, imported>>
    BY <1>2, <1>5 DEF SaveWeek
  <2>3. admin' \in AdminType /\ admin'.week = w
    BY <1>1, <2>1 DEF AdminType
  <2>4. \A p \in Requests : SharesWeek(p, req[p].week) => ~HoldsWeek(req[p].week)'
    BY <2>2, <2>3 DEF HoldsWeek
  <2> QED
    BY <1>1, <2>2, <2>3, <2>4, TablesStay
<1>6. CASE AdminVictim
  <2>1. /\ admin' = NoAdmin /\ changes' \in 0..MaxChanges
        /\ UNCHANGED <<rows, tasks, weeks, nextTask, nextWeek, settings, req, enqueued, imported>>
    BY <1>1, <1>6 DEF AdminVictim
  <2>2. admin' \in AdminType /\ admin'.pc = "idle" /\ \A p \in Requests : ~HoldsWeek(req[p].week)'
    BY <2>1 DEF NoAdmin, AdminType, NoWeek, HoldsWeek
  <2> QED
    BY <1>1, <2>1, <2>2, TablesStay
<1> QED
  BY <1>3, <1>4, <1>5, <1>6

LEMMA FinishSaveWeekInv ==
    ASSUME CheckinsInv, ConstantsAssumption, NEW slot \in Slots, NEW force \in BOOLEAN,
           FinishSaveWeek(slot, force)
    PROVE  CheckinsInv'
<1> DEFINE w == admin.week
<1>1. /\ admin.pc = "replace" /\ admin' = NoAdmin
      /\ UNCHANGED <<rows, nextWeek, settings, req, enqueued, changes, imported>>
  BY DEF FinishSaveWeek
<1>2. /\ changes' \in 0..MaxChanges /\ settings' \in Settings
      /\ admin' \in AdminType /\ admin'.pc = "idle"
  BY <1>1 DEF CheckinsInv, TypeOK, NoAdmin, AdminType, NoWeek
<1>3. /\ \A p \in Requests : ~HoldsWeek(req[p].week)'
      /\ \A p \in Requests : SharesWeek(p, req[p].week) => req[p].week \in DOMAIN weeks
  BY <1>2 DEF CheckinsInv, LockInv, HoldsWeek
<1>4. CASE UNCHANGED <<tasks, weeks, nextTask>>
  BY <1>1, <1>2, <1>3, <1>4, TablesStay
<1>5. ASSUME NEW draft \in Drafts, weeks' = [weeks EXCEPT ![w] = slot], ReplaceWeekTasks(w, draft)
      PROVE  CheckinsInv'
  <2>1. w \in Nat /\ draft \in Seq(Task)
    BY DEF CheckinsInv, StateType, AdminType, ConstantsAssumption
  <2>2. nextWeek \in Nat \ {0} /\ w < nextWeek /\ MaxWeeks \in Nat /\ nextWeek <= MaxWeeks + 1
    BY <1>1 DEF CheckinsInv, LockInv, TypeOK, ConstantsAssumption
  <2>3. nextWeek' \in nextWeek..MaxWeeks + 1
    BY <1>1, <2>2
  <2>4. /\ tasks' \in [DOMAIN tasks' -> Task]
        /\ nextTask' \in nextTask..MaxTasks + 1 /\ DOMAIN tasks' \subseteq 1..nextTask' - 1
        /\ \A t \in DOMAIN tasks' : tasks'[t].week \in {0, w} \/ tasks'[t].week < nextWeek
        /\ \A t \in DOMAIN tasks' : t < nextTask =>
               /\ t \in DOMAIN tasks
               /\ tasks'[t].asset = tasks[t].asset /\ tasks'[t].pages = tasks[t].pages
        /\ \A t \in DOMAIN tasks : tasks[t].week # w => t \in DOMAIN tasks' /\ tasks'[t] = tasks[t]
        /\ \A i \in DOMAIN rows : rows[i].task \in DOMAIN tasks => rows[i].task \in DOMAIN tasks'
    BY <1>5, <2>1, ReplaceKeeps
  <2>5. \A t \in DOMAIN tasks' : tasks'[t].week < nextWeek'
    BY <1>1, <2>2, <2>4, SMTT(40)
  <2>6. /\ weeks' \in [DOMAIN weeks' -> Slots] /\ DOMAIN weeks' \subseteq 1..nextWeek' - 1
        /\ DOMAIN weeks' = DOMAIN weeks /\ \A v \in DOMAIN weeks \ {w} : weeks'[v] = weeks[v]
    BY <1>1, <1>5 DEF CheckinsInv, StateType, TypeOK
  <2>7. \A p \in Requests : req[p].pc = "insert" /\ ~req[p].period =>
            req[p].task \in DOMAIN tasks' /\ tasks'[req[p].task] = tasks[req[p].task]
    <3> SUFFICES ASSUME NEW p \in Requests, req[p].pc = "insert", ~req[p].period
                 PROVE  req[p].task \in DOMAIN tasks' /\ tasks'[req[p].task] = tasks[req[p].task]
      OBVIOUS
    <3>1. /\ SharesWeek(p, req[p].week) /\ req[p].task \in DOMAIN tasks
          /\ tasks[req[p].task].week = req[p].week
      BY InsertTarget
    <3>2. req[p].week # w
      BY <1>1, <3>1 DEF CheckinsInv, LockInv, HoldsWeek
    <3> QED
      BY <2>4, <3>1, <3>2
  <2>8. \A p \in Requests : SharesWeek(p, req[p].week) =>
            /\ req[p].week \in DOMAIN weeks' /\ ~HoldsWeek(req[p].week)'
            /\ weeks'[req[p].week] = weeks[req[p].week]
    <3>1. \A p \in Requests : SharesWeek(p, req[p].week) => req[p].week # w
      BY <1>1 DEF CheckinsInv, LockInv, HoldsWeek
    <3> QED
      BY <1>3, <2>6, <3>1
  <2>9. imported \subseteq imported' /\ imported' \subseteq DOMAIN rows
    BY <1>1 DEF CheckinsInv, TypeOK
  <2> HIDE DEF w
  <2> QED
    BY <1>1, <1>2, <2>3, <2>4, <2>5, <2>6, <2>7, <2>8, <2>9, TablesChange
<1> QED
  BY <1>4, <1>5 DEF FinishSaveWeek

LEMMA CreateWeekInv ==
    ASSUME CheckinsInv, ConstantsAssumption, NEW slot \in Slots, CreateWeek(slot)
    PROVE  CheckinsInv'
<1>1. /\ Change /\ nextWeek <= MaxWeeks /\ nextWeek' = nextWeek + 1
      /\ weeks' = [w \in DOMAIN weeks \cup {nextWeek} |-> IF w = nextWeek THEN slot ELSE weeks[w]]
      /\ UNCHANGED <<rows, settings, req, admin, enqueued, imported>>
  BY DEF CreateWeek
<1>2. PICK draft \in Drafts : ReplaceWeekTasks(nextWeek, draft)
  BY DEF CreateWeek
<1>3. /\ changes' \in 0..MaxChanges /\ settings' \in Settings /\ admin' \in AdminType
      /\ nextWeek \in Nat \ {0} /\ MaxWeeks \in Nat /\ draft \in Seq(Task)
  BY <1>1, SMTT(40) DEF Change, CheckinsInv, TypeOK, StateType, ConstantsAssumption
<1>4. nextWeek' \in nextWeek..MaxWeeks + 1
  BY <1>1, <1>3
<1>5. /\ tasks' \in [DOMAIN tasks' -> Task]
      /\ nextTask' \in nextTask..MaxTasks + 1 /\ DOMAIN tasks' \subseteq 1..nextTask' - 1
      /\ \A t \in DOMAIN tasks' : tasks'[t].week \in {0, nextWeek} \/ tasks'[t].week < nextWeek
      /\ \A t \in DOMAIN tasks' : t < nextTask =>
             /\ t \in DOMAIN tasks
             /\ tasks'[t].asset = tasks[t].asset /\ tasks'[t].pages = tasks[t].pages
      /\ \A t \in DOMAIN tasks : tasks[t].week # nextWeek => t \in DOMAIN tasks' /\ tasks'[t] = tasks[t]
      /\ \A i \in DOMAIN rows : rows[i].task \in DOMAIN tasks => rows[i].task \in DOMAIN tasks'
  BY <1>2, <1>3, ReplaceKeeps
<1>6. \A t \in DOMAIN tasks' : tasks'[t].week < nextWeek'
  <2> SUFFICES ASSUME NEW t \in DOMAIN tasks' PROVE tasks'[t].week < nextWeek + 1
    BY <1>1
  <2>1. tasks'[t].week \in Nat
    BY <1>5 DEF Task
  <2> QED
    <3>1. \A n \in Nat : n \in {0, nextWeek} \/ n < nextWeek => n < nextWeek + 1
      BY <1>3
    <3> QED
      BY <1>5, <2>1, <3>1
<1>7. /\ weeks \in [DOMAIN weeks -> Slots] /\ DOMAIN weeks \subseteq 1..nextWeek - 1
      /\ nextWeek \notin DOMAIN weeks
  BY <1>3 DEF CheckinsInv, StateType, TypeOK
<1>8. /\ weeks' \in [DOMAIN weeks' -> Slots] /\ DOMAIN weeks' = DOMAIN weeks \cup {nextWeek}
      /\ \A v \in DOMAIN weeks' : v < nextWeek => v \in DOMAIN weeks /\ weeks'[v] = weeks[v]
  BY <1>1, <1>3, <1>7
<1>9. DOMAIN weeks' \subseteq 1..nextWeek' - 1
  <2>1. \A v \in 1..nextWeek - 1 : v \in 1..(nextWeek + 1) - 1
    BY <1>3
  <2>2. nextWeek \in 1..(nextWeek + 1) - 1
    BY <1>3
  <2> QED
    BY <1>1, <1>7, <1>8, <2>1, <2>2
<1>10. \A p \in Requests : req[p].pc = "insert" /\ ~req[p].period =>
           req[p].task \in DOMAIN tasks' /\ tasks'[req[p].task] = tasks[req[p].task]
  <2> SUFFICES ASSUME NEW p \in Requests, req[p].pc = "insert", ~req[p].period
               PROVE  req[p].task \in DOMAIN tasks' /\ tasks'[req[p].task] = tasks[req[p].task]
    OBVIOUS
  <2>1. /\ req[p].week \in DOMAIN weeks /\ req[p].task \in DOMAIN tasks
        /\ tasks[req[p].task].week = req[p].week
    BY InsertTarget
  <2> QED
    BY <1>5, <1>7, <2>1
<1>11. /\ \A p \in Requests : SharesWeek(p, req[p].week) =>
              /\ req[p].week \in DOMAIN weeks' /\ ~HoldsWeek(req[p].week)'
              /\ weeks'[req[p].week] = weeks[req[p].week]
       /\ admin'.pc # "idle" => admin'.week \in DOMAIN weeks'
       /\ imported \subseteq imported' /\ imported' \subseteq DOMAIN rows
  BY <1>1, <1>7, <1>8 DEF CheckinsInv, LockInv, HoldsWeek, TypeOK
<1> QED
  BY <1>1, <1>3, <1>4, <1>5, <1>6, <1>8, <1>9, <1>10, <1>11, TablesChange

\* An import leaves none of the tasks and weeks, and no request shares a week.
LEMMA ImportWeeksInv ==
    ASSUME CheckinsInv, ConstantsAssumption, NEW slot \in Slots, ImportWeeks(slot)
    PROVE  CheckinsInv'
<1>1. /\ Change /\ admin.pc = "idle" /\ nextWeek <= MaxWeeks /\ nextWeek' = nextWeek + 1
      /\ \A p \in Requests, w \in DOMAIN weeks : ~SharesWeek(p, w)
      /\ weeks' = [w \in {nextWeek} |-> slot] /\ imported' = DOMAIN rows
      /\ UNCHANGED <<rows, settings, req, admin, enqueued>>
  BY DEF ImportWeeks
<1>2. PICK draft \in Drafts : InsertTasks(<<>>, nextWeek, draft)
  BY DEF ImportWeeks
<1>3. /\ changes' \in 0..MaxChanges /\ settings' \in Settings /\ admin' \in AdminType
      /\ nextWeek \in Nat \ {0} /\ MaxWeeks \in Nat /\ draft \in Seq(Task)
  BY <1>1, SMTT(40) DEF Change, CheckinsInv, TypeOK, StateType, ConstantsAssumption
<1>4. nextWeek' \in nextWeek..MaxWeeks + 1
  BY <1>1, <1>3
<1>5. DOMAIN <<>> = {} /\ <<>> \in [{} -> Task]
  OBVIOUS
<1>6. /\ tasks' \in [DOMAIN tasks' -> Task]
      /\ nextTask' \in nextTask..MaxTasks + 1 /\ DOMAIN tasks' \subseteq 1..nextTask' - 1
      /\ \A t \in DOMAIN tasks' : tasks'[t].week \in {0, nextWeek} \/ tasks'[t].week < nextWeek
      /\ \A t \in DOMAIN tasks' : t < nextTask =>
             /\ t \in DOMAIN tasks
             /\ tasks'[t].asset = tasks[t].asset /\ tasks'[t].pages = tasks[t].pages
  BY <1>2, <1>3, <1>5, InsertKeeps
<1>7. \A t \in DOMAIN tasks' : tasks'[t].week < nextWeek'
  <2>1. \A n \in Nat : n \in {0, nextWeek} \/ n < nextWeek => n < nextWeek + 1
    BY <1>3
  <2>2. \A t \in DOMAIN tasks' : tasks'[t].week \in Nat
    BY <1>6 DEF Task
  <2> QED
    BY <1>1, <1>6, <2>1, <2>2
<1>8. /\ weeks' \in [DOMAIN weeks' -> Slots] /\ DOMAIN weeks' = {nextWeek}
      /\ DOMAIN weeks' \subseteq 1..nextWeek' - 1
  BY <1>1, <1>3
<1>9. \A p \in Requests : ~SharesWeek(p, req[p].week)
  BY <1>1 DEF CheckinsInv, LockInv
<1>10. \A p \in Requests : ~(req[p].pc = "insert" /\ ~req[p].period)
  BY <1>9, InsertTarget
<1>11. /\ admin'.pc = "idle" /\ imported \subseteq imported' /\ imported' \subseteq DOMAIN rows
       /\ \A i \in DOMAIN rows : i \in imported'
  BY <1>1 DEF CheckinsInv, TypeOK
<1> QED
  BY <1>1, <1>3, <1>4, <1>6, <1>7, <1>8, <1>9, <1>10, <1>11, TablesChange

LEMMA FinishDeleteWeekInv ==
    ASSUME CheckinsInv, ConstantsAssumption, FinishDeleteWeek
    PROVE  CheckinsInv'
<1> DEFINE w == admin.week
<1>1. /\ admin.pc = "delete" /\ admin' = NoAdmin /\ \A p \in Requests : ~SharesWeek(p, w)
      /\ tasks' = WithoutWeekTasks(w)
      /\ weeks' = [v \in DOMAIN weeks \ {w} |-> weeks[v]]
      /\ UNCHANGED <<rows, nextTask, nextWeek, settings, req, enqueued, changes, imported>>
  BY DEF FinishDeleteWeek
<1>2. /\ changes' \in 0..MaxChanges /\ settings' \in Settings
      /\ admin' \in AdminType /\ admin'.pc = "idle"
  BY <1>1 DEF CheckinsInv, TypeOK, NoAdmin, AdminType, NoWeek
<1>3. /\ nextTask \in Nat /\ nextWeek \in Nat \ {0} /\ nextTask <= MaxTasks + 1 /\ nextWeek <= MaxWeeks + 1
      /\ MaxTasks \in Nat /\ MaxWeeks \in Nat
  BY DEF CheckinsInv, TypeOK, ConstantsAssumption
<1>4. nextTask' \in nextTask..MaxTasks + 1 /\ nextWeek' \in nextWeek..MaxWeeks + 1
  BY <1>1, <1>3
<1>5. /\ DOMAIN tasks' \subseteq DOMAIN tasks /\ tasks' \in [DOMAIN tasks' -> Task]
      /\ \A t \in DOMAIN tasks' : /\ tasks'[t].asset = tasks[t].asset /\ tasks'[t].pages = tasks[t].pages
                                  /\ tasks'[t].week \in {0, tasks[t].week}
      /\ \A t \in DOMAIN tasks : tasks[t].week # w => t \in DOMAIN tasks' /\ tasks'[t] = tasks[t]
      /\ \A i \in DOMAIN rows : rows[i].task \in DOMAIN tasks => rows[i].task \in DOMAIN tasks'
  BY <1>1, WithoutKeeps
<1>6. /\ DOMAIN tasks' \subseteq 1..nextTask' - 1 /\ \A t \in DOMAIN tasks' : tasks'[t].week < nextWeek'
  <2>1. /\ DOMAIN tasks \subseteq 1..nextTask - 1
        /\ \A t \in DOMAIN tasks : tasks[t].week < nextWeek
    BY DEF CheckinsInv, TypeOK
  <2>2. DOMAIN tasks' \subseteq 1..nextTask - 1
    BY <1>5, <2>1
  <2>3. \A t \in DOMAIN tasks' : tasks'[t].week < nextWeek
    BY <1>3, <1>5, <2>1
  <2> QED
    BY <1>1, <2>2, <2>3
<1>7. /\ weeks' \in [DOMAIN weeks' -> Slots] /\ DOMAIN weeks' = DOMAIN weeks \ {w}
      /\ DOMAIN weeks' \subseteq 1..nextWeek' - 1
      /\ \A v \in DOMAIN weeks' : v \in DOMAIN weeks /\ weeks'[v] = weeks[v]
  BY <1>1 DEF CheckinsInv, StateType, TypeOK
<1>8. \A p \in Requests : SharesWeek(p, req[p].week) =>
          /\ req[p].week \in DOMAIN weeks' /\ ~HoldsWeek(req[p].week)'
          /\ weeks'[req[p].week] = weeks[req[p].week]
  BY <1>1, <1>2, <1>7 DEF CheckinsInv, LockInv, HoldsWeek
<1>10. imported \subseteq imported' /\ imported' \subseteq DOMAIN rows
  BY <1>1 DEF CheckinsInv, TypeOK
<1>9. \A p \in Requests : req[p].pc = "insert" /\ ~req[p].period =>
          req[p].task \in DOMAIN tasks' /\ tasks'[req[p].task] = tasks[req[p].task]
  <2> SUFFICES ASSUME NEW p \in Requests, req[p].pc = "insert", ~req[p].period
               PROVE  req[p].task \in DOMAIN tasks' /\ tasks'[req[p].task] = tasks[req[p].task]
    OBVIOUS
  <2>1. /\ SharesWeek(p, req[p].week) /\ req[p].task \in DOMAIN tasks
        /\ tasks[req[p].task].week = req[p].week
    BY InsertTarget
  <2> QED
    BY <1>1, <1>5, <2>1
<1> HIDE DEF w
<1> QED
  BY <1>1, <1>2, <1>4, <1>5, <1>6, <1>7, <1>8, <1>9, <1>10, TablesChange

-----------------------------------------------------------------------------
(* The theorems                                                             *)

LEMMA StepInv == ASSUME ConstantsAssumption, CheckinsInv, [Next]_vars PROVE CheckinsInv'
<1>1. ASSUME NEW p \in Requests, Start(p) \/ RequestStep(p) PROVE CheckinsInv'
  BY <1>1, StartInv, AdmitInv, FindInv, InsertDailyInv, FindAgainInv, LockWeekInv, LockUserInv, ReadInv,
     InsertStepInv, EnqueueInv, VictimInv DEF RequestStep
<1>2. ASSUME NEW i \in DOMAIN rows, DeleteCheckin(i) PROVE CheckinsInv'
  BY <1>2, DeleteCheckinInv
<1>3. CASE \E w \in DOMAIN weeks : DeleteWeek(w) \/ SaveWeek(w)
  BY <1>3, AdminWaitsInv
<1>4. ASSUME NEW slot \in Slots, CreateWeek(slot) \/ ImportWeeks(slot) PROVE CheckinsInv'
  BY <1>4, CreateWeekInv, ImportWeeksInv
<1>5. CASE SaveSettings \/ AdminStep
  BY <1>5, AdminWaitsInv, FinishSaveWeekInv, FinishDeleteWeekInv DEF AdminStep
<1>6. CASE UNCHANGED vars
  <2>1. /\ UNCHANGED <<rows, tasks, weeks, nextTask, nextWeek, settings, req, admin, enqueued, changes, imported>>
        /\ changes' \in 0..MaxChanges /\ settings' \in Settings /\ admin' \in AdminType
        /\ admin'.pc # "idle" => admin'.week \in DOMAIN weeks
        /\ \A p \in Requests : SharesWeek(p, req[p].week) => ~HoldsWeek(req[p].week)'
    BY <1>6 DEF vars, CheckinsInv, TypeOK, StateType, LockInv, HoldsWeek
  <2> QED
    BY <2>1, TablesStay
<1> QED
  BY <1>1, <1>2, <1>3, <1>4, <1>5, <1>6 DEF Next

LEMMA InitInv == ASSUME ConstantsAssumption, Init PROVE CheckinsInv
<1>1. PICK n \in 0..MaxWeeks : Slots = 1..n
  BY DEF ConstantsAssumption
<1>2. n \in Nat /\ MaxWeeks \in Nat /\ n <= MaxWeeks
  BY <1>1 DEF ConstantsAssumption
<1>3. Cardinality(Slots) = n
  BY <1>1, <1>2, FS_Interval
<1>4. nextWeek = n + 1 /\ nextTask = Len(InitialTasks) + 1
  BY <1>3 DEF Init
<1>5. PICK W \in SUBSET Slots :
          /\ weeks = [w \in W |-> w]
          /\ tasks = [t \in {u \in DOMAIN InitialTasks : InitialTasks[u].week \in W} |-> InitialTasks[t]]
  BY DEF Init
<1>6. /\ rows = <<>> /\ settings \in Settings /\ req = [p \in Requests |-> NoRequest]
      /\ admin = NoAdmin /\ enqueued = {} /\ imported = {} /\ changes = 0
  BY DEF Init
<1>7. /\ InitialTasks \in Seq(Task) /\ Len(InitialTasks) \in Nat /\ Len(InitialTasks) <= MaxTasks
      /\ DOMAIN InitialTasks = 1..Len(InitialTasks) /\ MaxTasks \in Nat /\ MaxChanges \in Nat
      /\ \A t \in DOMAIN InitialTasks : InitialTasks[t] \in Task
  BY DEF ConstantsAssumption
<1>8. /\ weeks \in [DOMAIN weeks -> Slots] /\ DOMAIN weeks \subseteq 1..nextWeek - 1
      /\ \A w \in DOMAIN weeks : weeks[w] \in Slots
  <2>1. DOMAIN weeks = W /\ \A w \in W : weeks[w] = w /\ w \in Slots
    BY <1>5
  <2>2. \A w \in Slots : w \in 1..nextWeek - 1
    BY <1>1, <1>2, <1>4
  <2>3. weeks \in [DOMAIN weeks -> Slots]
    BY <1>5, <2>1
  <2> QED
    BY <2>1, <2>2, <2>3
<1>9. /\ tasks \in [DOMAIN tasks -> Task] /\ DOMAIN tasks \subseteq 1..nextTask - 1
      /\ \A t \in DOMAIN tasks : tasks[t] \in Task /\ tasks[t].week < nextWeek
  <2>1. \A t \in DOMAIN tasks : /\ t \in DOMAIN InitialTasks /\ tasks[t] = InitialTasks[t]
                                /\ InitialTasks[t].week \in W
    BY <1>5
  <2>2. \A w \in W : w < nextWeek
    BY <1>1, <1>2, <1>4
  <2>3. DOMAIN InitialTasks = 1..nextTask - 1
    BY <1>4, <1>7
  <2>4. \A t \in DOMAIN tasks : tasks[t] \in Task /\ tasks[t].week < nextWeek
    BY <1>7, <2>1, <2>2
  <2>5. tasks \in [DOMAIN tasks -> Task]
    BY <1>5, <2>4
  <2> QED
    BY <2>1, <2>3, <2>4, <2>5
<1>10. /\ NoRequest \in RequestType /\ NoAdmin \in AdminType /\ NoRequest.pc = "new" /\ NoAdmin.pc = "idle"
       /\ NoRequest.kind = "daily_devotion" /\ NoRequest.task = 0 /\ NoRequest.week = 0 /\ ~NoRequest.period
  BY DEF NoRequest, RequestType, NoAdmin, AdminType, NoWeek, Pcs, AllKinds, DailyKinds
<1>11. \A p \in Requests : req[p] = NoRequest
  BY <1>6
<1>12. StateType
  BY <1>6, <1>8, <1>9, <1>10 DEF StateType
<1>13. TypeOK
  <2>1. nextTask \in 1..MaxTasks + 1 /\ nextWeek \in 1..MaxWeeks + 1
    BY <1>2, <1>4, <1>7
  <2>2. \A p \in Requests : req[p].pc \in Pcs
    BY <1>10, <1>11 DEF Pcs
  <2> QED
    BY <1>6, <1>7, <1>8, <1>9, <1>10, <2>1, <2>2 DEF TypeOK
<1>14. RowInv /\ TasksKept /\ OneCompletion
  BY <1>6 DEF RowInv, TasksKept, OneCompletion, Active
<1>15. RequestInv
  <2>1. 0 \in 0..nextTask - 1 /\ 0 \in 0..nextWeek - 1 /\ 0 \notin DOMAIN tasks
    BY <1>2, <1>4, <1>7, <1>9
  <2> SUFFICES ASSUME NEW p \in Requests PROVE InOrder(req[p])
    BY DEF RequestInv
  <2> QED
    BY <1>10, <1>11, <2>1 DEF InOrder, NoWeek, DailyKinds, WeeklyKinds
<1>16. LockInv
  BY <1>6, <1>10, <1>11 DEF LockInv, HoldsUser, SharesWeek
<1>17. InsertInv
  BY <1>10, <1>11 DEF InsertInv
<1> QED
  BY <1>12, <1>13, <1>14, <1>15, <1>16, <1>17 DEF CheckinsInv

\* What a request has found, holds and is about to insert stays true under every interleaving.
THEOREM CheckinsSafe == Spec => []CheckinsInv
BY InitInv, StepInv, ConstantsAssumption, PTL DEF Spec

\* Every variable keeps its type (the tables of checkins, study_tasks and study_weeks).
THEOREM CheckinsTypes == Spec => []TypeOK
<1>1. CheckinsInv => TypeOK
  BY DEF CheckinsInv
<1> QED
  BY CheckinsSafe, <1>1, PTL

\* However many requests race and administrators change the weeks, no completion is
\* counted twice (Create and createPeriodVerse of checkin/mysql_repository.go).
THEOREM CompletedOnce == Spec => []OneCompletion
<1>1. CheckinsInv => OneCompletion
  BY DEF CheckinsInv
<1> QED
  BY CheckinsSafe, <1>1, PTL

\* However weeks are saved, replaced and deleted, the task of a check-in stays
\* (DeleteWeekTasksTx of learning/mysql_repository.go); an import of the weeks drops those of
\* the check-ins that were there before it, and of no others (DeleteAllWeeksTx).
THEOREM TasksStay == Spec => []TasksKept
<1>1. CheckinsInv => TasksKept
  BY DEF CheckinsInv
<1> QED
  BY CheckinsSafe, <1>1, PTL

\* A weekly check-in is inserted against a task that is valid at that moment (the locks of
\* Create and SaveWeek).
THEOREM TargetsAreCurrent == Spec => TargetIsCurrent
<1>1. ASSUME CheckinsInv, [Next]_vars, rows' # rows, Len(rows') > Len(rows)
      PROVE  LET x == rows'[Len(rows')] IN
             x.task # 0 => /\ x.task \in DOMAIN tasks /\ x.week \in DOMAIN weeks
                           /\ tasks[x.task].week = x.week /\ tasks[x.task].enabled
  <2>1. ASSUME NEW i \in DOMAIN rows, DeleteCheckin(i) PROVE FALSE
    <3>1. Len(rows') = Len(rows) /\ Len(rows) \in Nat
      BY <2>1 DEF DeleteCheckin, CheckinsInv, StateType
    <3> QED
      BY <1>1, <3>1
  <2>2. PICK p \in Requests : InsertDaily(p) \/ Insert(p)
    BY <1>1, <2>1 DEF Next, vars, RequestStep, AdminStep, Start, createAdmittedCheckin, Find, FindAgain,
       LockWeek, LockUser, Read, Enqueue, Victim, DeleteWeek, SaveWeek, CreateWeek, ImportWeeks, SaveSettings,
       FinishSaveWeek, FinishDeleteWeek, AdminVictim
  <2>3. /\ rows' = Append(rows, NewRow(req[p])) /\ req[p].pc \in {"insertDaily", "insert"}
    BY <1>1, <2>2 DEF InsertDaily, Insert, createRecord
  <2>4. rows'[Len(rows')] = NewRow(req[p])
    BY <1>1, <2>3 DEF CheckinsInv, StateType
  <2>5. NewRow(req[p]).task = req[p].task /\ NewRow(req[p]).week = req[p].week
    BY DEF NewRow
  <2>6. InOrder(req[p])
    BY <1>1 DEF CheckinsInv, RequestInv
  <2>7. CASE req[p].task = 0
    BY <2>4, <2>5, <2>7
  <2>8. CASE req[p].task # 0
    <3>1. req[p].pc = "insert" /\ ~req[p].period
      BY <2>3, <2>6, <2>8 DEF InOrder, DailyKinds, WeeklyKinds
    <3>2. ValidTarget(req[p])
      BY <1>1, <3>1 DEF CheckinsInv, InsertInv
    <3> QED
      BY <2>4, <2>5, <3>2 DEF ValidTarget
  <2> QED
    BY <2>7, <2>8
<1>2. CheckinsInv /\ [Next]_vars =>
          [Len(rows') > Len(rows) =>
              LET x == rows'[Len(rows')] IN
              x.task # 0 => /\ x.task \in DOMAIN tasks /\ x.week \in DOMAIN weeks
                            /\ tasks[x.task].week = x.week /\ tasks[x.task].enabled]_rows
  BY <1>1
<1> QED
  BY CheckinsSafe, <1>2, PTL DEF Spec, TargetIsCurrent

=============================================================================
