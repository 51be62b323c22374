------------------------------ MODULE Attendance ------------------------------
(***************************************************************************)
(* The attendance sheet of a ministry: CountingAttendance.vue.  A sheet is *)
(* loaded for the ministry and the month that are chosen, with the fixed   *)
(* weekday and the extra date of the ministry's settings; marks and        *)
(* settings are saved one at a time.  A load compares nothing when its     *)
(* answer comes: mixed says that calls have overlapped since a load was    *)
(* last asked alone, and then the sheet may be an older one.  What was     *)
(* stored though its answer was lost is taken for refused, and loads       *)
(* nothing: unsure is what it concerned, until a load is asked alone.      *)
(*                                                                         *)
(* One member with one day a month, one weekday and one extra date that    *)
(* are chosen or not stand for all.  Left out: sorting, the export, which  *)
(* only reads, and the rights of the account, which the server checks.     *)
(***************************************************************************)
EXTENDS Naturals, FiniteSets

CONSTANTS Groups, Months, None, MaxActs, MaxMishaps, MaxCalls

VARIABLES
    present, days, extra,            \* server
    groupId, active, month,          \* what is chosen
    sheet, loading, saving,
    weekdays, extraDates,            \* the settings as edited
    running,                         \* calls
    mixed, touched, unsure,          \* overlapping calls; edits while saving; what was lost
    wanted,                          \* the extra date as the member left it
    acts, mishaps

server  == <<present, days, extra>>
chosen  == <<groupId, active, month>>
drafts  == <<weekdays, extraDates>>
history == <<mixed, touched, unsure, wanted>>
bounds  == <<acts, mishaps>>
vars    == <<server, chosen, sheet, loading, saving, drafts, running, history, bounds>>

Init ==
    /\ present = [g \in Groups |-> [m \in Months |-> FALSE]]
    /\ days = [g \in Groups |-> FALSE] /\ extra = [g \in Groups |-> FALSE]
    /\ groupId \in Groups /\ active = FALSE /\ month \in Months
    /\ sheet = None /\ loading = FALSE /\ saving = FALSE
    /\ weekdays = FALSE /\ extraDates = FALSE /\ running = {}
    /\ mixed = FALSE /\ touched = FALSE /\ unsure = {} /\ wanted = FALSE
    /\ acts = 0 /\ mishaps = 0

-----------------------------------------------------------------------------
Act   == acts < MaxActs /\ acts' = acts + 1 /\ UNCHANGED mishaps
Room  == Cardinality(running) < MaxCalls
Shown == active /\ ~loading /\ sheet # None

\* now: the member whose mark is saved is still of the sheet that is shown; keeps: the extra
\* date put back after the load, <<>> when the load leaves its own.
Call(op, g, m, value, keeps) ==
    [op |-> op, group |-> g, month |-> m, value |-> value, keeps |-> keeps, previous |-> weekdays,
     now |-> TRUE, ph |-> "sent", ans |-> None]

Load(g, m, keeps, rest) ==
    /\ loading' = TRUE /\ running' = rest \cup {Call("load", g, m, [days |-> FALSE, extra |-> FALSE], keeps)}
    /\ mixed' = (rest # {}) /\ unsure' = IF rest = {} THEN {} ELSE unsure

\* The watch of the ministry and of the tab.
Switch(g, on) ==
    /\ Act /\ <<g, on>> # <<groupId, active>> /\ groupId' = g /\ active' = on
    /\ IF on THEN Room /\ Load(g, month, <<>>, running) ELSE UNCHANGED <<loading, running, mixed, unsure>>
    /\ UNCHANGED <<server, month, sheet, saving, drafts, touched, wanted>>

\* The arrows, and the field of the month.
ShiftMonth(m) ==
    /\ Act /\ Room /\ active /\ m # month /\ month' = m
    /\ Load(groupId, m, <<>>, running)
    /\ UNCHANGED <<server, groupId, active, sheet, saving, drafts, touched, wanted>>

\* addExtraDate and removeExtraDate.
EditExtraDate ==
    /\ Act /\ Shown /\ extraDates' = ~extraDates /\ wanted' = ~extraDates
    /\ touched' = saving
    /\ UNCHANGED <<server, chosen, sheet, loading, saving, weekdays, running, mixed, unsure>>

-----------------------------------------------------------------------------
(* Saving.  The dates as edited are taken when it begins.                   *)
Saves(op, value, keeps) ==
    /\ saving' = TRUE /\ touched' = FALSE
    /\ running' = running \cup {Call(op, groupId, sheet.month, value, keeps)}
    /\ mixed' = (mixed \/ running # {}) /\ UNCHANGED unsure

\* toggleWeekday shows the choice before it is saved, with the dates the server has.
toggleWeekday ==
    /\ Act /\ Room /\ Shown /\ ~saving /\ weekdays' = ~weekdays
    /\ Saves("weekday", [days |-> ~weekdays, extra |-> sheet.extra], <<extraDates>>)
    /\ UNCHANGED <<server, chosen, sheet, loading, extraDates, wanted>>

saveSettings ==
    /\ Act /\ Room /\ Shown /\ ~saving
    /\ Saves("settings", [days |-> weekdays, extra |-> extraDates], <<>>)
    /\ UNCHANGED <<server, chosen, sheet, loading, drafts, wanted>>

toggleAttendance ==
    /\ Act /\ Room /\ Shown /\ ~saving
    /\ Saves("mark", [days |-> ~sheet.present, extra |-> FALSE], <<>>)
    /\ UNCHANGED <<server, chosen, sheet, loading, drafts, wanted>>

-----------------------------------------------------------------------------
(* The server.                                                              *)
OtherCalls(c) == running \ {c}
Answered(c, ph, ans) ==
    /\ c.ph = "sent" /\ running' = OtherCalls(c) \cup {[c EXCEPT !.ph = ph, !.ans = ans]}
    /\ UNCHANGED <<chosen, sheet, loading, saving, drafts, mixed, touched, wanted, acts>>

ServeLoad(c) ==
    /\ c.op = "load"
    /\ Answered(c, "ok", [group |-> c.group, month |-> c.month, present |-> present[c.group][c.month],
                          days |-> days[c.group], extra |-> extra[c.group]])
    /\ UNCHANGED <<server, unsure, mishaps>>

Mishap == mishaps < MaxMishaps /\ mishaps' = mishaps + 1

Stores(c) ==
    /\ c.op \in {"weekday", "settings", "mark"}
    /\ IF c.op = "mark"
       THEN present' = [present EXCEPT ![c.group][c.month] = c.value.days] /\ UNCHANGED <<days, extra>>
       ELSE /\ days' = [days EXCEPT ![c.group] = c.value.days]
            /\ extra' = [extra EXCEPT ![c.group] = c.value.extra] /\ UNCHANGED present

ServeSave(c) == Stores(c) /\ Answered(c, "ok", None) /\ UNCHANGED <<unsure, mishaps>>

\* What the server stored, and the page takes for refused.
Lose(c) == Stores(c) /\ Answered(c, "error", None) /\ Mishap /\ unsure' = unsure \cup {c.op}

Refuse(c) == Answered(c, "error", None) /\ Mishap /\ UNCHANGED <<server, unsure>>

-----------------------------------------------------------------------------
(* The answers.                                                             *)

\* Mistake: the dates as edited are not put back.
PutBack_Not(c) == IF c.ph = "ok" THEN c.ans.extra ELSE extraDates

\* The dates as edited, after a weekday alone was saved, whether or not the sheet came.
PutBack(c) ==
    IF c.keeps # <<>> THEN c.keeps[1] ELSE IF c.ph = "ok" THEN c.ans.extra ELSE extraDates

\* A sheet is shown whatever was chosen since, and loading ends whatever else loads.  The
\* rest of a saving ends with its load.
LoadDone(c) ==
    /\ c.op = "load" /\ c.ph \in {"ok", "error"}
    /\ running' = {[d EXCEPT !.now = FALSE] : d \in OtherCalls(c)}
    /\ loading' = FALSE /\ sheet' = c.ans
    /\ weekdays' = IF c.ph = "ok" THEN c.ans.days ELSE weekdays
    /\ extraDates' = PutBack(c)
    /\ wanted' = IF c.keeps # <<>> /\ ~touched THEN wanted ELSE extraDates'
    /\ saving' = (saving /\ c.value.days = FALSE)
    /\ UNCHANGED <<server, chosen, mixed, touched, unsure, bounds>>

\* The load that a saving waits for, of what is chosen by then.
Reloads(c) ==
    /\ loading' = TRUE /\ mixed' = (mixed \/ OtherCalls(c) # {})
    /\ unsure' = IF OtherCalls(c) = {} THEN {} ELSE unsure
    /\ running' = OtherCalls(c) \cup
         {Call("load", groupId, month, [days |-> TRUE, extra |-> FALSE], c.keeps)}

SettingsSaved(c) ==
    /\ c.op \in {"weekday", "settings"} /\ c.ph = "ok"
    /\ IF c.group = groupId THEN Reloads(c) /\ UNCHANGED saving
       ELSE running' = OtherCalls(c) /\ saving' = FALSE /\ UNCHANGED <<loading, mixed, unsure>>
    /\ UNCHANGED <<server, chosen, sheet, drafts, touched, wanted, bounds>>

\* Mistake: a weekday that was not saved stays shown.
Restored_Not(c) == weekdays

Restored(c) == IF c.op = "weekday" /\ c.group = groupId THEN c.previous ELSE weekdays

SettingsFail(c) ==
    /\ c.op \in {"weekday", "settings"} /\ c.ph = "error"
    /\ running' = OtherCalls(c) /\ saving' = FALSE /\ weekdays' = Restored(c)
    /\ UNCHANGED <<server, chosen, sheet, loading, extraDates, history, bounds>>

\* The mark goes to the member of the sheet it was made on.
MarkDone(c) ==
    /\ c.op = "mark" /\ c.ph \in {"ok", "error"}
    /\ running' = OtherCalls(c) /\ saving' = FALSE
    /\ sheet' = IF c.ph = "ok" /\ c.now /\ sheet # None THEN [sheet EXCEPT !.present = c.value.days] ELSE sheet
    /\ UNCHANGED <<server, chosen, loading, drafts, history, bounds>>

Next ==
    \/ \E g \in Groups, on \in BOOLEAN : Switch(g, on)
    \/ \E m \in Months : ShiftMonth(m)
    \/ EditExtraDate \/ toggleWeekday \/ saveSettings \/ toggleAttendance
    \/ \E c \in running : ServeLoad(c) \/ ServeSave(c) \/ Lose(c) \/ Refuse(c)
    \/ \E c \in running : LoadDone(c) \/ SettingsSaved(c) \/ SettingsFail(c) \/ MarkDone(c)

Spec == Init /\ [][Next]_vars

-----------------------------------------------------------------------------
\* Types: a sheet is of a ministry and a month, each flag is set or not.
TypeOK ==
    /\ present \in [Groups -> [Months -> BOOLEAN]] /\ days \in [Groups -> BOOLEAN]
    /\ extra \in [Groups -> BOOLEAN] /\ groupId \in Groups /\ month \in Months
    /\ unsure \subseteq {"weekday", "settings", "mark"}
    /\ loading \in BOOLEAN /\ saving \in BOOLEAN /\ weekdays \in BOOLEAN /\ extraDates \in BOOLEAN

\* With nothing under way and nothing that overlapped, the sheet is of the ministry and the
\* month that are chosen and shows the marks as the server has them, but for one whose answer
\* was lost since the last load.
SheetOfChoice ==
    running = {} /\ active /\ sheet # None /\ ~mixed =>
        /\ sheet.group = groupId /\ sheet.month = month
        /\ "mark" \in unsure \/ sheet.present = present[groupId][month]

\* The weekday shown is the one that is saved, after a refusal too: toggleWeekday takes the
\* choice back (CountingAttendance.vue:100).  It takes back as well what was stored though the
\* answer was lost; an answer lost by saveSettings leaves the weekday that was stored.
WeekdayIsSaved ==
    running = {} /\ Shown /\ ~mixed => "weekday" \in unsure \/ weekdays = days[groupId]

\* Saving a weekday leaves the extra dates as the member edited them, except what was
\* edited while it was being saved.
DatesAreKept ==
    running = {} /\ Shown /\ ~mixed => extraDates = wanted

\* The buttons are free again when nothing is under way.
SheetUnlocks == running = {} => ~saving /\ ~loading
=============================================================================
