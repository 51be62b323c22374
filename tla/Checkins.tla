------------------------------- MODULE Checkins -------------------------------
(***************************************************************************)
(* Check-ins of one member of one group (checkin/service.go and            *)
(* mysql_repository.go, behind server/checkins.go), while administrators   *)
(* save, replace and delete the study weeks those check-ins complete       *)
(* (learning/mysql_repository.go).                                         *)
(*                                                                         *)
(* Every request is a process; its steps are its SQL statements.  MySQL is *)
(* modelled by what the code uses of it: a statement outside a transaction *)
(* is atomic; a transaction reads one snapshot, taken at its first plain   *)
(* read; row locks are held to the end of the transaction; the subquery of *)
(* an UPDATE locks the range of check-ins it reads; a cycle of waits makes *)
(* one of the transactions fail.  Who holds which lock follows from where  *)
(* the processes are.                                                      *)
(*                                                                         *)
(* Members do not meet here: the user row that is locked and the unique    *)
(* key of checkin_records are their own.                                   *)
(***************************************************************************)
EXTENDS Integers, Sequences, FiniteSets

CONSTANTS
    Requests,      \* bound: check-in requests, each made once
    Kinds,         \* kinds of check-ins that are made
    Dates,         \* logical dates
    Slot,          \* date -> the calendar week it is in
    Verses,        \* verse references of the daily verse plan
    InitialTasks,  \* the study tasks at the start, of the weeks that exist then
    Drafts,        \* the task lists administrators save for a week
    MaxTasks,      \* bound: study task IDs
    MaxWeeks,      \* bound: study week IDs
    MaxChanges     \* bound: changes by administrators

DailyKinds  == {"daily_devotion", "daily_verse"}
WeeklyKinds == {"weekly_book", "weekly_video", "weekly_outline"}
Slots       == {Slot[d] : d \in Dates}

\* A task: week is NoWeek once it is detached, asset 0 when it has none, pages
\* the page range its title names.
Task == [kind : WeeklyKinds, week : Nat, enabled : BOOLEAN, asset : Nat, pages : SUBSET Nat]

\* The calendar weeks are numbered, and so are the weeks that exist at the start.
ASSUME ConstantsAssumption ==
    /\ Kinds \subseteq DailyKinds \cup WeeklyKinds
    /\ Dates \subseteq Nat /\ Slot \in [Dates -> Nat]
    /\ \E n \in 0..MaxWeeks : Slots = 1..n
    /\ MaxTasks \in Nat /\ MaxWeeks \in Nat /\ MaxChanges \in Nat
    /\ InitialTasks \in Seq(Task) /\ Len(InitialTasks) <= MaxTasks
    /\ Drafts \subseteq Seq(Task)

VARIABLES
    rows,      \* checkin_records of the member: row i has ID i
    tasks,     \* study_tasks with their asset in task_assets: id -> task
    weeks,     \* study_weeks: id -> calendar week
    nextTask,  \* AUTO_INCREMENT of study_tasks
    nextWeek,  \* AUTO_INCREMENT of study_weeks
    settings,  \* the group's daily verse plan and switch
    req,       \* requests -> their local state
    admin,     \* the request of an administrator under way
    enqueued,  \* rows whose notification was handed to the queue
    imported,  \* history: rows that were there when weeks were last imported
    changes    \* bound counter for MaxChanges

vars == <<rows, tasks, weeks, nextTask, nextWeek, settings, req, admin, enqueued, imported, changes>>

NoWeek == 0

Settings == [enabled : BOOLEAN, weekly : BOOLEAN, verse : Verses]

\* The last column of the unique key: active_key is 0, or the task of a book,
\* and the row's own ID after a deletion.
Key == {"active", "deleted"} \X Nat

Pcs == {"new", "admit", "find", "insertDaily", "findAgain", "lockWeek", "lockUser", "read",
        "insert", "enqueue", "done"}

NoRequest == [pc |-> "new", kind |-> "daily_devotion", date |-> 0, task |-> 0, week |-> NoWeek,
              verse |-> "", period |-> FALSE, pages |-> {}, answer |-> 0]

NoAdmin == [pc |-> "idle", week |-> NoWeek]

Init ==
    /\ \E W \in SUBSET Slots :
          /\ weeks = [w \in W |-> w]
          /\ tasks = [t \in {u \in DOMAIN InitialTasks : InitialTasks[u].week \in W} |-> InitialTasks[t]]
    /\ rows = <<>>
    /\ nextTask = Len(InitialTasks) + 1 /\ nextWeek = Cardinality(Slots) + 1
    /\ settings \in {s \in Settings : s.enabled}
    /\ req = [p \in Requests |-> NoRequest] /\ admin = NoAdmin
    /\ enqueued = {} /\ imported = {} /\ changes = 0

Change == changes < MaxChanges /\ changes' = changes + 1

-----------------------------------------------------------------------------
(* Queries *)

Active == {i \in DOMAIN rows : ~rows[i].deleted}

\* ORDER BY logical_date,id LIMIT 1, as a set of at most one ID.
First(S) ==
    {i \in S : \A j \in S \ {i} : rows[i].date < rows[j].date \/ (rows[i].date = rows[j].date /\ i < j)}

\* ORDER BY id LIMIT 1
Lowest(S) == {i \in S : \A j \in S : i <= j}

FindExistingDaily(kind, date) ==
    Lowest({i \in Active : rows[i].kind = kind /\ rows[i].date = date /\ rows[i].part = <<>>})

\* The lookup of createPeriodVerse.
FindPeriodVerse(date, verse) ==
    Lowest({i \in Active : /\ rows[i].kind = "daily_verse" /\ rows[i].verse = verse
                           /\ Slot[rows[i].date] = Slot[date]})

\* validateWeeklyTarget: an enabled task of that week, and the date is in it.
ValidTarget(r) ==
    /\ r.task \in DOMAIN tasks /\ r.week \in DOMAIN weeks
    /\ LET t == tasks[r.task] IN t.week = r.week /\ t.kind = r.kind /\ t.enabled
    /\ weeks[r.week] = Slot[r.date]

SameAsset(t, u) ==
    /\ {t, u} \subseteq DOMAIN tasks
    /\ tasks[t].asset # 0 /\ tasks[t].asset = tasks[u].asset

\* The first of the alternatives that finds anything.
FirstOf(S, T) == IF S # {} THEN First(S) ELSE First(T)

ByTask(kind, task) == {i \in Active : rows[i].kind = kind /\ rows[i].task = task}

\* reading.Covers on explicit page ranges.
Covers(completed, target) == target # {} /\ target \subseteq completed

\* A book is completed by its task, by its title in the week, or by a replaced
\* task of the week with the same resource and at least the same pages.
findExistingWeeklyBook(r) ==
    LET inWeek == {i \in Active : /\ rows[i].kind = "weekly_book" /\ r.week \in DOMAIN weeks
                                  /\ Slot[rows[i].date] = weeks[r.week]}
        byTitle == {i \in inWeek : rows[i].pages = r.pages}
        byPages == {i \in inWeek : /\ rows[i].week = r.week /\ SameAsset(rows[i].task, r.task)
                                   /\ tasks[r.task].week = r.week
                                   /\ Covers(rows[i].pages, tasks[r.task].pages)} IN
    FirstOf(ByTask("weekly_book", r.task), IF byTitle # {} THEN byTitle ELSE byPages)

\* A video is completed by its task, by any task with the same video, or, when
\* it has no video, by any video of the week; other kinds once a week.
findExistingWeeklyTask(r) ==
    LET byAsset == {i \in Active : /\ r.kind = "weekly_video" /\ rows[i].kind = "weekly_video"
                                   /\ SameAsset(rows[i].task, r.task)}
        byWeek == {i \in Active : /\ rows[i].kind = r.kind /\ rows[i].week = r.week
                                  /\ \/ r.kind # "weekly_video"
                                     \/ r.task \in DOMAIN tasks => tasks[r.task].asset = 0} IN
    FirstOf(ByTask(r.kind, r.task), IF byAsset # {} THEN byAsset ELSE byWeek)

FindExisting(r) ==
    IF r.kind = "weekly_book" THEN findExistingWeeklyBook(r) ELSE findExistingWeeklyTask(r)

-----------------------------------------------------------------------------
(* Locks *)

\* Mutant: the week is read without FOR SHARE.
SharesWeek_Unlocked(p, w) == FALSE

\* Weekly requests share their week from lockWeek to the end, SaveWeek has it
\* alone.
SharesWeek(p, w) == /\ req[p].kind \in WeeklyKinds /\ req[p].week = w
                    /\ req[p].pc \in {"lockUser", "read", "insert"}

HoldsUser(p) == req[p].pc \in {"read", "insert"}

HoldsWeek(w) == admin.pc = "replace" /\ admin.week = w

\* The subquery of DeleteWeekTasksTx has locked the check-ins of the group.
RangeLocked == admin.pc = "delete"

-----------------------------------------------------------------------------
(* Requests of the member *)

Go(p, r) == req' = [req EXCEPT ![p] = r]

At(p, pc) == Go(p, [req[p] EXCEPT !.pc = pc])

\* The request ends with the ID of a row, or with an error (0).
Answer(p, id) == Go(p, [req[p] EXCEPT !.pc = "done", !.answer = id])

\* handleCreateCheckin; the page that sends it shows the tasks of now.
Start(p) ==
    /\ req[p].pc = "new"
    /\ \E d \in Dates :
          \/ \E k \in Kinds \cap DailyKinds :
                Go(p, [NoRequest EXCEPT !.pc = "admit", !.kind = k, !.date = d])
          \/ \E t \in DOMAIN tasks :
                /\ tasks[t].kind \in Kinds /\ tasks[t].enabled
                /\ Go(p, [NoRequest EXCEPT !.pc = "find", !.kind = tasks[t].kind, !.date = d,
                            !.task = t, !.week = tasks[t].week, !.pages = tasks[t].pages])
    /\ UNCHANGED <<rows, tasks, weeks, nextTask, nextWeek, settings, admin, enqueued, changes, imported>>

\* createAdmittedCheckin reads the settings; a verse that is learned over a
\* week is completed once in it.
createAdmittedCheckin(p) ==
    LET verse == req[p].kind = "daily_verse" IN
    /\ req[p].pc = "admit"
    /\ IF ~settings.enabled THEN Answer(p, 0)
       ELSE Go(p, [req[p] EXCEPT !.pc = IF verse /\ settings.weekly THEN "lockUser" ELSE "find",
                                 !.verse = IF verse THEN settings.verse ELSE "",
                                 !.period = verse /\ settings.weekly])
    /\ UNCHANGED <<rows, tasks, weeks, nextTask, nextWeek, settings, admin, enqueued, changes, imported>>

\* Service.Create looks for the completion before it writes.
Find(p) ==
    LET r == req[p]
        daily == r.kind \in DailyKinds
        found == IF daily THEN FindExistingDaily(r.kind, r.date) ELSE FindExisting(r) IN
    /\ r.pc = "find"
    /\ IF ~daily /\ ~ValidTarget(r) THEN Answer(p, 0)
       ELSE \/ \E id \in found : Answer(p, id)
            \/ found = {} /\ At(p, IF daily THEN "insertDaily" ELSE "lockWeek")
    /\ UNCHANGED <<rows, tasks, weeks, nextTask, nextWeek, settings, admin, enqueued, changes, imported>>

\* createRecord: what is inserted, with the part and the key that make it
\* unique.
NewRow(r) ==
    [kind |-> r.kind, date |-> r.date, task |-> r.task, week |-> r.week, verse |-> r.verse,
     pages |-> r.pages, deleted |-> FALSE,
     part |-> CASE r.period -> <<Slot[r.date], r.verse>>
                [] r.kind = "weekly_book" -> <<r.pages>>
                [] r.kind = "weekly_video" -> <<r.task>>
                [] OTHER -> <<>>,
     key |-> <<"active", IF r.kind = "weekly_book" THEN r.task ELSE 0>>]

\* uk_one_active_checkin
Duplicate(row) ==
    \E i \in DOMAIN rows : /\ rows[i].kind = row.kind /\ rows[i].date = row.date
                           /\ rows[i].key = row.key /\ rows[i].part = row.part

\* Mutant: the ID is taken before the row is inserted.
createRecord_StaleId(p, next) ==
    /\ ~RangeLocked
    /\ IF Duplicate(NewRow(req[p]))
       THEN (IF next = "done" THEN Answer(p, 0) ELSE At(p, next)) /\ UNCHANGED rows
       ELSE /\ rows' = Append(rows, NewRow(req[p]))
            /\ Go(p, [req[p] EXCEPT !.pc = "enqueue", !.answer = Len(rows)])
    /\ UNCHANGED <<tasks, weeks, nextTask, nextWeek, settings, admin, enqueued, changes, imported>>

\* Mutant: a new row is reported as one that existed.
createRecord_Existing(p, next) ==
    /\ ~RangeLocked
    /\ IF Duplicate(NewRow(req[p]))
       THEN (IF next = "done" THEN Answer(p, 0) ELSE At(p, next)) /\ UNCHANGED rows
       ELSE rows' = Append(rows, NewRow(req[p])) /\ Answer(p, Len(rows) + 1)
    /\ UNCHANGED <<tasks, weeks, nextTask, nextWeek, settings, admin, enqueued, changes, imported>>

\* The row is inserted and committed, or error 1062 sends the request to next.
createRecord(p, next) ==
    /\ ~RangeLocked
    /\ IF Duplicate(NewRow(req[p]))
       THEN (IF next = "done" THEN Answer(p, 0) ELSE At(p, next)) /\ UNCHANGED rows
       ELSE /\ rows' = Append(rows, NewRow(req[p]))
            /\ Go(p, [req[p] EXCEPT !.pc = "enqueue", !.answer = Len(rows) + 1])
    /\ UNCHANGED <<tasks, weeks, nextTask, nextWeek, settings, admin, enqueued, changes, imported>>

InsertDaily(p) == req[p].pc = "insertDaily" /\ createRecord(p, "findAgain")

\* Mutant: waits until the other request's row shows up.
FindAgain_Waits(p) ==
    /\ req[p].pc = "findAgain"
    /\ \E id \in FindExistingDaily(req[p].kind, req[p].date) : Answer(p, id)
    /\ UNCHANGED <<rows, tasks, weeks, nextTask, nextWeek, settings, admin, enqueued, changes, imported>>

\* After error 1062 another request has made the completion.
FindAgain(p) ==
    LET r == req[p]
        found == IF r.kind \in DailyKinds THEN FindExistingDaily(r.kind, r.date)
                 ELSE findExistingWeeklyTask(r) IN
    /\ r.pc = "findAgain"
    /\ \/ \E id \in found : Answer(p, id)
       \/ found = {} /\ Answer(p, 0)
    /\ UNCHANGED <<rows, tasks, weeks, nextTask, nextWeek, settings, admin, enqueued, changes, imported>>

\* SELECT ... FROM study_weeks ... FOR SHARE
LockWeek(p) ==
    /\ req[p].pc = "lockWeek" /\ ~HoldsWeek(req[p].week)
    /\ IF req[p].week \in DOMAIN weeks THEN At(p, "lockUser") ELSE Answer(p, 0)
    /\ UNCHANGED <<rows, tasks, weeks, nextTask, nextWeek, settings, admin, enqueued, changes, imported>>

\* Mutant: the member's row is read without FOR UPDATE.
LockUser_Unlocked(p) ==
    /\ req[p].pc = "lockUser" /\ At(p, "read")
    /\ UNCHANGED <<rows, tasks, weeks, nextTask, nextWeek, settings, admin, enqueued, changes, imported>>

\* SELECT ... FROM users ... FOR UPDATE
LockUser(p) ==
    /\ req[p].pc = "lockUser" /\ \A q \in Requests : ~HoldsUser(q)
    /\ At(p, "read")
    /\ UNCHANGED <<rows, tasks, weeks, nextTask, nextWeek, settings, admin, enqueued, changes, imported>>

\* The plain reads of the transaction, on one snapshot.
Read(p) ==
    LET r == req[p]
        found == IF r.period THEN FindPeriodVerse(r.date, r.verse) ELSE FindExisting(r) IN
    /\ r.pc = "read"
    /\ IF ~r.period /\ ~ValidTarget(r) THEN Answer(p, 0)
       ELSE \/ \E id \in found : Answer(p, id)
            \/ found = {} /\ At(p, "insert")
    /\ UNCHANGED <<rows, tasks, weeks, nextTask, nextWeek, settings, admin, enqueued, changes, imported>>

Insert(p) ==
    /\ req[p].pc = "insert"
    /\ createRecord(p, IF req[p].kind = "weekly_video" THEN "findAgain" ELSE "done")

\* The handler of a new check-in hands it to the notification queue.
Enqueue(p) ==
    /\ req[p].pc = "enqueue" /\ At(p, "done")
    /\ enqueued' = enqueued \cup {req[p].answer}
    /\ UNCHANGED <<rows, tasks, weeks, nextTask, nextWeek, settings, admin, changes, imported>>

\* DeleteOwn and DeleteAny.
DeleteCheckin(i) ==
    /\ i \in Active /\ ~RangeLocked
    /\ rows' = [rows EXCEPT ![i].deleted = TRUE, ![i].key = <<"deleted", i>>]
    /\ UNCHANGED <<tasks, weeks, nextTask, nextWeek, settings, req, admin, enqueued, changes, imported>>

-----------------------------------------------------------------------------
(* Requests of administrators *)

SaveSettings ==
    /\ Change /\ settings' \in Settings \ {settings}
    /\ UNCHANGED <<rows, tasks, weeks, nextTask, nextWeek, req, admin, enqueued, imported>>

\* Mutant: withdrawn check-ins do not keep their task.
WithoutWeekTasks_ActiveOnly(w) ==
    LET used == {rows[i].task : i \in Active}
        kept == {t \in DOMAIN tasks : tasks[t].week # w \/ t \in used} IN
    [t \in kept |-> IF tasks[t].week = w THEN [tasks[t] EXCEPT !.week = NoWeek, !.enabled = FALSE]
                    ELSE tasks[t]]

\* DeleteWeekTasksTx: tasks with check-ins, deleted ones too, are detached with
\* their resources, the others go.
WithoutWeekTasks(w) ==
    LET used == {rows[i].task : i \in DOMAIN rows}
        kept == {t \in DOMAIN tasks : tasks[t].week # w \/ t \in used} IN
    [t \in kept |-> IF tasks[t].week = w THEN [tasks[t] EXCEPT !.week = NoWeek, !.enabled = FALSE]
                    ELSE tasks[t]]

\* The tasks of a draft get new IDs beside those that are left.
InsertTasks(old, w, draft) ==
    LET new == nextTask..nextTask + Len(draft) - 1 IN
    /\ nextTask + Len(draft) - 1 <= MaxTasks
    /\ nextTask' = nextTask + Len(draft)
    /\ tasks' = [t \in DOMAIN old \cup new |->
                    IF t \in new
                    THEN [draft[t - nextTask + 1] EXCEPT !.week = w]
                    ELSE old[t]]

\* ReplaceWeekTasksTx
ReplaceWeekTasks(w, draft) == InsertTasks(WithoutWeekTasks(w), w, draft)

\* SaveWeek of a week that exists takes its row lock.
SaveWeek(w) ==
    /\ Change /\ admin.pc = "idle" /\ w \in DOMAIN weeks
    /\ \A p \in Requests : ~SharesWeek(p, w)
    /\ admin' = [pc |-> "replace", week |-> w]
    /\ UNCHANGED <<rows, tasks, weeks, nextTask, nextWeek, settings, req, enqueued, imported>>

\* The week gets the dates and the tasks of the request.  Without force a week with check-ins
\* is left alone; uk_group_week refuses the dates of another week.
FinishSaveWeek(slot, force) ==
    /\ admin.pc = "replace" /\ admin' = NoAdmin
    /\ IF \/ ~force /\ \E i \in Active : rows[i].week = admin.week
          \/ \E w \in DOMAIN weeks \ {admin.week} : weeks[w] = slot
       THEN UNCHANGED <<tasks, weeks, nextTask>>
       ELSE /\ weeks' = [weeks EXCEPT ![admin.week] = slot]
            /\ \E draft \in Drafts : ReplaceWeekTasks(admin.week, draft)
    /\ UNCHANGED <<rows, nextWeek, settings, req, enqueued, changes, imported>>

\* SaveWeek of a new week; uk_group_week keeps its dates unique.
CreateWeek(slot) ==
    /\ Change /\ admin.pc = "idle" /\ nextWeek <= MaxWeeks
    /\ slot \notin {weeks[w] : w \in DOMAIN weeks}
    /\ weeks' = [w \in DOMAIN weeks \cup {nextWeek} |-> IF w = nextWeek THEN slot ELSE weeks[w]]
    /\ nextWeek' = nextWeek + 1
    /\ \E draft \in Drafts : ReplaceWeekTasks(nextWeek, draft)
    /\ UNCHANGED <<rows, settings, req, admin, enqueued, imported>>

\* handleAdminImportStudyWeeksExcel, by ReplaceStudyWeeks: DeleteAllWeeksTx deletes every
\* task and week of the group, whatever refers to them, and waits for requests that share
\* a week; then those of the file are inserted.  The file has one week.
ImportWeeks(slot) ==
    /\ Change /\ admin.pc = "idle" /\ nextWeek <= MaxWeeks
    /\ \A p \in Requests, w \in DOMAIN weeks : ~SharesWeek(p, w)
    /\ weeks' = [w \in {nextWeek} |-> slot]
    /\ nextWeek' = nextWeek + 1
    /\ \E draft \in Drafts : InsertTasks(<<>>, nextWeek, draft)
    /\ imported' = DOMAIN rows
    /\ UNCHANGED <<rows, settings, req, admin, enqueued>>

\* DeleteWeek decides on the tasks first and locks the week's row last.
DeleteWeek(w) ==
    /\ Change /\ admin.pc = "idle" /\ w \in DOMAIN weeks
    /\ admin' = [pc |-> "delete", week |-> w]
    /\ UNCHANGED <<rows, tasks, weeks, nextTask, nextWeek, settings, req, enqueued, imported>>

FinishDeleteWeek ==
    /\ admin.pc = "delete" /\ \A p \in Requests : ~SharesWeek(p, admin.week)
    /\ admin' = NoAdmin
    /\ tasks' = WithoutWeekTasks(admin.week)
    /\ weeks' = [w \in DOMAIN weeks \ {admin.week} |-> weeks[w]]
    /\ UNCHANGED <<rows, nextTask, nextWeek, settings, req, enqueued, changes, imported>>

\* A check-in waits for the range that the deletion of a week has locked, while
\* the deletion waits for a check-in that shares the week and is either that one
\* or waits for its user lock: one of them fails.
Deadlocked ==
    /\ RangeLocked /\ \E p \in Requests : req[p].pc = "insert"
    /\ \E q \in Requests : SharesWeek(q, admin.week)

Victim(p) ==
    /\ Deadlocked
    /\ req[p].pc = "insert" \/ SharesWeek(p, admin.week)
    /\ Answer(p, 0)
    /\ UNCHANGED <<rows, tasks, weeks, nextTask, nextWeek, settings, admin, enqueued, changes, imported>>

AdminVictim ==
    /\ Deadlocked /\ admin' = NoAdmin
    /\ UNCHANGED <<rows, tasks, weeks, nextTask, nextWeek, settings, req, enqueued, changes, imported>>

-----------------------------------------------------------------------------
RequestStep(p) ==
    \/ createAdmittedCheckin(p) \/ Find(p) \/ InsertDaily(p) \/ FindAgain(p)
    \/ LockWeek(p) \/ LockUser(p) \/ Read(p) \/ Insert(p) \/ Enqueue(p) \/ Victim(p)

AdminStep ==
    \/ \E slot \in Slots, force \in BOOLEAN : FinishSaveWeek(slot, force)
    \/ FinishDeleteWeek \/ AdminVictim

Next ==
    \/ \E p \in Requests : Start(p) \/ RequestStep(p)
    \/ \E i \in DOMAIN rows : DeleteCheckin(i)
    \/ \E w \in DOMAIN weeks : DeleteWeek(w) \/ SaveWeek(w)
    \/ \E slot \in Slots : CreateWeek(slot) \/ ImportWeeks(slot)
    \/ SaveSettings \/ AdminStep

\* Statements return, lock waits end and the server detects deadlocks.
Fairness == (\A p \in Requests : WF_vars(RequestStep(p))) /\ WF_vars(AdminStep)

Spec == Init /\ [][Next]_vars /\ Fairness

-----------------------------------------------------------------------------
(* Properties *)

\* A row is of a task or of no task as its kind is, and whether it counts is in its key.
IsRow(x, i) ==
    /\ x.kind \in DailyKinds \cup WeeklyKinds /\ x.date \in Dates
    /\ x.week \in Nat /\ x.pages \in SUBSET Nat
    /\ x.kind \in WeeklyKinds <=> x.task # 0
    /\ x.kind \in {"daily_devotion", "weekly_outline"} => x.part = <<>>
    /\ x.deleted \in BOOLEAN
    /\ x.key = IF x.deleted THEN <<"deleted", i>>
               ELSE <<"active", IF x.kind = "weekly_book" THEN x.task ELSE 0>>

\* Every variable keeps its type, and IDs that were not given yet are in no table.
TypeOK ==
    /\ \A i \in DOMAIN rows : IsRow(rows[i], i) /\ rows[i].task \in 0..nextTask - 1
    /\ DOMAIN tasks \subseteq 1..nextTask - 1
    /\ \A t \in DOMAIN tasks : tasks[t] \in Task /\ tasks[t].week < nextWeek
    /\ DOMAIN weeks \subseteq 1..nextWeek - 1 /\ \A w \in DOMAIN weeks : weeks[w] \in Slots
    /\ nextTask \in 1..MaxTasks + 1 /\ nextWeek \in 1..MaxWeeks + 1 /\ settings \in Settings
    /\ \A p \in Requests : req[p].pc \in Pcs
    /\ admin.pc \in {"idle", "replace", "delete"}
    /\ enqueued \subseteq DOMAIN rows /\ imported \subseteq DOMAIN rows /\ changes \in 0..MaxChanges

\* x, the earlier row, already completes what y completes.
Completes(x, y) ==
    /\ x.kind = y.kind
    /\ CASE x.kind = "daily_devotion" -> x.date = y.date
         [] x.kind = "daily_verse" -> \/ x.part = <<>> /\ y.part = <<>> /\ x.date = y.date
                                      \/ x.part # <<>> /\ x.part = y.part
         [] x.kind = "weekly_book" ->
               \/ x.task = y.task
               \/ Slot[x.date] = Slot[y.date] /\ x.pages = y.pages
               \/ /\ x.week = y.week /\ Slot[x.date] = Slot[y.date]
                  /\ SameAsset(x.task, y.task) /\ Covers(x.pages, y.pages)
         [] x.kind = "weekly_video" -> x.task = y.task \/ SameAsset(x.task, y.task)
         [] OTHER -> x.week = y.week

\* Concurrent, repeated and retried requests, on whatever dates of the week,
\* for whichever of two weeks that share a video, and across replacements of
\* the week's tasks and dates, never leave two active check-ins for one completion.
OneCompletion == \A i, j \in Active : i < j => ~Completes(rows[i], rows[j])

\* A weekly check-in is committed against a task that at that moment is an
\* enabled task of an existing week, whatever administrators did since the
\* request looked it up.
TargetIsCurrent ==
    [][Len(rows') > Len(rows) =>
          LET x == rows'[Len(rows')] IN
          x.task # 0 => /\ x.task \in DOMAIN tasks /\ x.week \in DOMAIN weeks
                        /\ tasks[x.task].week = x.week /\ tasks[x.task].enabled]_rows

\* The task of a check-in stays in study_tasks, with the resource that later
\* check-ins are compared by, however its week is saved, replaced or deleted:
\* only an import that came after the check-in drops it (DeleteAllWeeksTx).
TasksKept ==
    \A i \in DOMAIN rows : rows[i].task # 0 => rows[i].task \in DOMAIN tasks \/ i \in imported

\* The inductive invariant: what the requests under way know and hold.

\* The part of the unique key follows from the rest of a row.
RowInv ==
    \A i \in DOMAIN rows :
        /\ CASE rows[i].kind = "weekly_book"  -> rows[i].part = <<rows[i].pages>>
             [] rows[i].kind = "weekly_video" -> rows[i].part = <<rows[i].task>>
             [] rows[i].kind = "daily_verse"  -> rows[i].part \in {<<>>, <<Slot[rows[i].date], rows[i].verse>>}
             [] OTHER                         -> rows[i].part = <<>>
        /\ rows[i].week \in 0..nextWeek - 1

\* Which statement comes next for which kind of check-in, and what it knows of its task.
InOrder(r) ==
    /\ r.pc # "new" => r.date \in Dates
    /\ r.task \in 0..nextTask - 1 /\ (r.kind \in WeeklyKinds <=> r.task # 0)
    /\ r.task \in DOMAIN tasks => tasks[r.task].pages = r.pages
    /\ r.week \in 0..nextWeek - 1 /\ (r.kind \in DailyKinds => r.week = NoWeek)
    /\ r.period => r.kind = "daily_verse" /\ r.pc \notin {"find", "insertDaily", "lockWeek"}
    /\ r.pc \in {"admit", "insertDaily"} => r.kind \in DailyKinds
    /\ r.pc \in {"lockWeek", "lockUser", "read", "insert"} => r.kind \in WeeklyKinds \/ r.period
    /\ r.pc = "enqueue" => r.answer \in DOMAIN rows

RequestInv == \A p \in Requests : InOrder(req[p])

\* One request holds the member's row, a week that is shared exists and is not replaced,
\* and the week an administrator works on exists.
LockInv ==
    /\ \A p, q \in Requests : HoldsUser(p) /\ HoldsUser(q) => p = q
    /\ \A p \in Requests : SharesWeek(p, req[p].week) =>
          req[p].week \in DOMAIN weeks /\ ~HoldsWeek(req[p].week)
    /\ admin.pc # "idle" => admin.week \in DOMAIN weeks

\* What a request found before it inserts is still so: its target is valid and no check-in
\* that counts completes the same.
InsertInv ==
    \A p \in Requests : req[p].pc = "insert" =>
        /\ ~req[p].period => ValidTarget(req[p])
        /\ \A i \in Active : ~Completes(rows[i], NewRow(req[p]))

\* Every check-in request is answered: no cycle of lock waits is left alone.
RequestsEnd == \A p \in Requests : req[p].pc # "new" ~> req[p].pc = "done"

\* Every new check-in is handed to the notification queue.
CompletionsAnnounced ==
    \A i \in 1..Cardinality(Requests) : i \in DOMAIN rows ~> i \in enqueued
=============================================================================
