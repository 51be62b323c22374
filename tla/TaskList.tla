------------------------------- MODULE TaskList -------------------------------
(***************************************************************************)
(* The list of the day: which record each shown task takes as the member's *)
(* own, and what a click on it does (legacy-app.js: currentTaskOptions,    *)
(* mergeTodayHubTasks, checkinMatchesTask, toggleCheckin).  The page joins *)
(* three answers of the server: the week with its tasks, the hub of the    *)
(* day, in which the server has matched records already, and the check-ins *)
(* of the week; administrators change the week meanwhile.                  *)
(*                                                                         *)
(* A load is one step here, and so is what the server does of a click.     *)
(* Titles are the pages they name.  Left out: links, icons, summaries and  *)
(* personal books.                                                         *)
(***************************************************************************)
EXTENDS Naturals, Sequences, FiniteSets

CONSTANTS
    Dates, WeekOf,            \* WeekOf: date -> its week; today is the last date
    InitialTasks, Drafts,     \* the tasks of the weeks; what administrators save instead
    MaxTasks, MaxRecords, MaxActs

VARIABLES
    tasks, records, separate, \* the server's: week 0 is a task that was taken out of its week
    selectedDate, view,       \* the page's
    done, undone, acts        \* the last click: what it completed or took back

server == <<tasks, records, separate>>
vars   == <<server, selectedDate, view, done, undone, acts>>

Daily == {"daily_devotion", "daily_scripture"}
Today == CHOOSE d \in Dates : \A e \in Dates : e <= d

\* What a row of the list and of the hub is known by.
Row(type, t, w, pages) == [type |-> type, task |-> t, week |-> w, part |-> pages]
Nothing == [rows |-> {}, hub |-> {}, checkins |-> {}]

Init ==
    /\ tasks = InitialTasks /\ records = <<>> /\ separate \in BOOLEAN
    /\ selectedDate = Today /\ view = Nothing /\ done = {} /\ undone = {} /\ acts = 0

Act == acts < MaxActs /\ acts' = acts + 1

-----------------------------------------------------------------------------
(* The server: the rows of a day and the record each of them has.            *)
Active == {i \in 1..Len(records) : ~records[i].deleted}
Asset(t) == IF t \in 1..Len(tasks) THEN tasks[t].asset ELSE 0
SameAsset(r, t) == Asset(r.task) # 0 /\ Asset(r.task) = Asset(t)

\* currentTaskOptions: the daily rows, then one for each task of the week.
DailyRows(apart) == {Row(k, 0, 0, {}) : k \in IF apart THEN Daily ELSE {"daily_devotion"}}

currentTaskOptions(d) ==
    DailyRows(separate)
    \cup {Row(tasks[t].kind, t, tasks[t].week, tasks[t].pages) : t \in {u \in 1..Len(tasks) : tasks[u].week = WeekOf[d]}}

\* A book is known by its task, its title, or more pages of the same resource.
BookRecord(r, row) ==
    \/ r.task = row.task \/ r.part = row.part
    \/ r.week = row.week /\ SameAsset(r, row.task) /\ row.part # {} /\ row.part \subseteq r.part

VideoRecord(r, row) ==
    r.task = row.task \/ SameAsset(r, row.task) \/ (Asset(row.task) = 0 /\ r.week = row.week)

matchingTodayRecord(i, row, d) ==
    LET r == records[i] IN
    /\ r.type = row.type
    /\ CASE row.type = "weekly_book"  -> WeekOf[r.date] = WeekOf[d] /\ BookRecord(r, row)
         [] row.type = "weekly_video" -> (WeekOf[r.date] = WeekOf[d] \/ SameAsset(r, row.task)) /\ VideoRecord(r, row)
         [] row.type = "weekly_outline" -> WeekOf[r.date] = WeekOf[d] /\ (r.task = row.task \/ r.week = row.week)
         [] OTHER -> r.date = d

\* The newest of them, as a set of at most one.
Newest(S) == {i \in S : \A j \in S \ {i} : records[j].date < records[i].date
                                           \/ (records[j].date = records[i].date /\ j < i)}

\* A video that was seen in another week is completed without a record to take back.
Carried(i, row) == row.type = "weekly_video" /\ SameAsset(records[i], row.task) /\ records[i].task # row.task

HubRow(row, d) ==
    LET found == Newest({i \in Active : matchingTodayRecord(i, row, d)}) IN
    [row |-> row, completed |-> found # {}, record |-> {i \in found : ~Carried(i, row)}]

Hub(d) == {HubRow(row, d) : row \in currentTaskOptions(d)}

-----------------------------------------------------------------------------
(* The page.                                                                 *)

\* Mistake: a video is known by its week.
checkinMatchesTask_ByWeek(i, row, d) == records[i].type = row.type /\ records[i].week = row.week

\* checkinMatchesTask, on the records of the week.
checkinMatchesTask(i, row, d) ==
    LET r == records[i] IN
    /\ r.type = row.type
    /\ CASE row.type = "weekly_book"  -> r.task = row.task \/ (row.part # {} /\ r.part = row.part)
         [] row.type = "weekly_video" -> r.task = row.task
         [] row.type = "weekly_outline" -> r.task = row.task \/ r.week = row.week \/ r.date = d
         [] OTHER -> r.date = d

\* Mistake: the first task of the type will do.
findTodayHubTask_OfType(row) == {h \in view.hub : h.row.type = row.type}

\* findTodayHubTask: by the task, and by the title only where the hub has no tasks of the type.
findTodayHubTask(row) ==
    LET ofType == {h \in view.hub : h.row.type = row.type} IN
    IF row.task # 0 /\ \E h \in ofType : h.row.task # 0
    THEN {h \in ofType : h.row.task = row.task}
    ELSE {h \in ofType : row.type = "weekly_book" => row.part # {} /\ h.row.part = row.part}

ownRecord(row) ==
    LET hub == UNION {h.record : h \in findTodayHubTask(row)} IN
    IF hub # {} THEN hub ELSE Newest({i \in view.checkins : checkinMatchesTask(i, row, selectedDate)})

\* Mistake: only a record that can be taken back completes a row.
completed_Own(row) == ownRecord(row) # {}

completed(row) == ownRecord(row) # {} \/ \E h \in findTodayHubTask(row) : h.completed

\* The head of the list counts by the hub while it has as many tasks as the list.
checkinSnapshot ==
    LET usesHub == Cardinality(view.hub) = Cardinality(view.rows) IN
    [completed |-> IF usesHub THEN Cardinality({h \in view.hub : h.completed})
                   ELSE Cardinality({row \in view.rows : ownRecord(row) # {}}),
     total |-> IF usesHub THEN Cardinality(view.hub) ELSE Cardinality(view.rows)]

\* loadAll: the answers of one moment.
Loaded(d) == [rows |-> currentTaskOptions(d), hub |-> Hub(d),
              checkins |-> {i \in Active : WeekOf[records[i].date] = WeekOf[d]}]

Load ==
    /\ view # Loaded(selectedDate) /\ view' = Loaded(selectedDate)
    /\ UNCHANGED <<server, selectedDate, done, undone, acts>>

setSelectedDate(d) ==
    /\ Act /\ d \in Dates \ {selectedDate} /\ selectedDate' = d /\ view' = Nothing
    /\ done' = {} /\ undone' = {} /\ UNCHANGED server

\* Saving the learning settings refreshes the settings and the hub, not the week.
SaveSettings ==
    /\ Act /\ separate' = ~separate /\ done' = {} /\ undone' = {}
    /\ LET weekly(rows) == {row \in rows : row.type \notin Daily} IN
       view' = [view EXCEPT
           !.rows = IF @ = {} THEN @ ELSE weekly(@) \cup DailyRows(~separate),
           !.hub = {HubRow(row, selectedDate) :
                      row \in weekly(currentTaskOptions(selectedDate)) \cup DailyRows(~separate)}]
    /\ UNCHANGED <<tasks, records, selectedDate>>

-----------------------------------------------------------------------------
(* toggleCheckin: the record of the row is taken back, or the server looks   *)
(* for a completion and makes one when there is none.                        *)

\* Mistake: any check-in of the kind in the week is taken for the completion.
findExisting_OfWeek(row, d) ==
    {i \in Active : records[i].type = row.type /\ WeekOf[records[i].date] = WeekOf[d]}

findExisting(row, d) ==
    {i \in Active :
        /\ records[i].type = row.type
        /\ CASE row.type \in Daily -> records[i].date = d
             [] row.type = "weekly_book" -> records[i].task = row.task
                                            \/ (WeekOf[records[i].date] = WeekOf[d] /\ BookRecord(records[i], row))
             [] row.type = "weekly_video" -> VideoRecord(records[i], row)
             [] OTHER -> records[i].task = row.task \/ records[i].week = row.week}

ValidTarget(row, d) == row.type \in Daily \/ (tasks[row.task].week = row.week /\ WeekOf[d] = row.week)

\* What is completed without a record of its own cannot be clicked.
Clickable(row) == row \in view.rows /\ (completed(row) => ownRecord(row) # {})

Check(row) ==
    /\ Act /\ Clickable(row) /\ ownRecord(row) = {}
    /\ IF ~ValidTarget(row, selectedDate) THEN UNCHANGED <<records, done>>
       ELSE /\ done' = {row}
            /\ IF findExisting(row, selectedDate) # {} THEN UNCHANGED records
               ELSE /\ Len(records) < MaxRecords
                    /\ records' = Append(records, [type |-> row.type, task |-> row.task, week |-> row.week,
                                                   date |-> selectedDate, part |-> row.part, deleted |-> FALSE])
    /\ undone' = {} /\ UNCHANGED <<tasks, separate, selectedDate, view>>

\* A record that is gone already is an error, and the list is not loaded again.
Uncheck(row) ==
    /\ Act /\ Clickable(row) /\ \E i \in ownRecord(row) :
          /\ records' = IF i \in Active THEN [records EXCEPT ![i].deleted = TRUE] ELSE records
          /\ undone' = IF i \in Active THEN {row} ELSE undone
    /\ done' = {} /\ UNCHANGED <<tasks, separate, selectedDate, view>>

\* An administrator saves another task for a week: those it had are out of it, and stay known
\* to the check-ins they have.
SaveWeek(w, draft) ==
    /\ Act /\ Len(tasks) < MaxTasks
    /\ tasks' = Append([t \in 1..Len(tasks) |-> [tasks[t] EXCEPT !.week = IF @ = w THEN 0 ELSE @]],
                       [draft EXCEPT !.week = w])
    /\ done' = {} /\ undone' = {} /\ UNCHANGED <<records, separate, selectedDate, view>>

Next ==
    \/ Load \/ SaveSettings
    \/ \E d \in Dates : setSelectedDate(d)
    \/ \E row \in view.rows : Check(row) \/ Uncheck(row)
    \/ \E d \in Dates, draft \in Drafts : SaveWeek(WeekOf[d], draft)

Spec == Init /\ [][Next]_vars

-----------------------------------------------------------------------------
\* Types: what the page shows as a record is a record.
TypeOK == selectedDate \in Dates /\ view.checkins \subseteq 1..Len(records)

\* A check-in the server accepted is shown as done once the page has loaded again: what the
\* server takes for a completion, the hub and the page take for one too.
CheckedIsShown ==
    view = Loaded(selectedDate) => \A row \in done : row \in view.rows /\ completed(row)

\* The head of a list that has just been loaded counts the rows shown as done.
HeadAgrees ==
    view = Loaded(selectedDate) => checkinSnapshot.completed = Cardinality({row \in view.rows : completed(row)})

\* What was taken back is no longer shown as done.
UndoneIsPending ==
    view = Loaded(selectedDate) => \A row \in undone : ~completed(row)

\* A record is the completion of one shown task: taking it back leaves the others alone,
\* except books whose pages it covers and videos that have no resource, which any video of
\* the week completes.
Overlap(r1, r2) ==
    \/ r1.type = "weekly_book" /\ (r1.part \subseteq r2.part \/ r2.part \subseteq r1.part)
    \/ r1.type = "weekly_video" /\ 0 \in {Asset(r1.task), Asset(r2.task)}

OneTaskPerRecord ==
    \A r1, r2 \in view.rows :
        r1 # r2 /\ ownRecord(r1) \cap ownRecord(r2) # {} => r1.type = r2.type /\ Overlap(r1, r2)
=============================================================================
