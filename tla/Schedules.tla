------------------------------ MODULE Schedules ------------------------------
(***************************************************************************)
(* The plan of the days: dailySchedule.ts, the editor of AdminConsole.vue  *)
(* and what the server keeps of it (config_history.go).  A plan starts on  *)
(* a day and counts chapters or sections from there.  When the start moves *)
(* forward the server puts the version before it into the history, so that *)
(* past days keep what they showed; page and server choose the version of  *)
(* a day each in a way of its own.                                         *)
(*                                                                         *)
(* A field that was never set is 0; what an old version lacks is taken     *)
(* from the present one.  The devotion and the reading, which have a start *)
(* each, are one record here.  Left out: files, titles and formats.        *)
(***************************************************************************)
EXTENDS Naturals, Sequences, SequencesExt, FiniteSetsExt

CONSTANTS
    MaxDay,
    Bible,                    \* chapters of every book
    MaxPer,                   \* chapters a day
    MaxEdits, MaxSaves

Days  == 1..MaxDay
Books == 1..Len(Bible)
Fields == {"start", "per", "book", "mode"}

VARIABLES
    saved, history,           \* server: the configuration and its older versions
    draft,                    \* as edited
    day,                      \* dailyPlanDate
    edits, saves

vars == <<saved, history, draft, day, edits, saves>>

\* The section of a plan that has none.
Blank   == 2 * MaxDay
NoPlans == [d \in Days |-> 0]
Init ==
    /\ saved \in {[start |-> s, per |-> 0, book |-> b, mode |-> 0, plans |-> NoPlans] : s \in 0..1, b \in Books}
    /\ history = <<>> /\ draft = saved /\ day = 1
    /\ edits = 0 /\ saves = 0

-----------------------------------------------------------------------------
(* The version of a day.                                                    *)

\* What the version lacks comes from the configuration.
Merged(v, c) ==
    [f \in Fields \cup {"plans"} |->
        IF f = "plans" THEN IF v.mode = 0 THEN c.plans ELSE v.plans
        ELSE IF v[f] # 0 THEN v[f] ELSE c[f]]


\* Mistake: a version takes effect on the day after its start.
Upto_Before(s, d) == SelectSeq(s, LAMBDA v : v.start < d)

Upto(s, d) == SelectSeq(s, LAMBDA v : v.start <= d)

\* resolveEffectiveSchedule: the versions in the order of their starts, the configuration
\* after those of its day; the last that has started, or the first.
resolveEffectiveSchedule(c, h, d) ==
    LET candidates == IF c.start = 0 THEN h
                      ELSE SelectSeq(h, LAMBDA v : v.start <= c.start) \o <<c>>
                           \o SelectSeq(h, LAMBDA v : v.start > c.start)
    IN IF candidates = <<>> THEN c
       ELSE Merged(IF Upto(candidates, d) = <<>> THEN Head(candidates) ELSE Last(Upto(candidates, d)), c)

\* effectiveDailyComponent of the server: one pass that keeps the earliest version and the
\* latest that has started.
effectiveDailyComponent(c, h, d) ==
    LET consider(best, v) ==
            IF v.start = 0 THEN best
            ELSE [earliest |-> IF best.earliest = <<>> \/ v.start < best.earliest[1].start THEN <<v>> ELSE best.earliest,
                  selected |-> IF v.start <= d /\ (best.selected = <<>> \/ v.start >= best.selected[1].start)
                               THEN <<v>> ELSE best.selected]
        best == FoldLeft(consider, [earliest |-> <<>>, selected |-> <<>>], Append(h, c))
        chosen == IF best.selected = <<>> THEN best.earliest ELSE best.selected
    IN IF chosen = <<>> THEN c ELSE Merged(chosen[1], c)

-----------------------------------------------------------------------------
(* What a day shows.                                                        *)
Per(v) == IF v.per = 0 THEN 1 ELSE v.per
Chapters(first) == FlattenSeq([i \in 1..(Len(Bible) - first + 1) |-> [k \in 1..Bible[first + i - 1] |-> <<first + i - 1, k>>]])

\* Mistake: the first reading begins again at its own first book.
Reading_Again(v, n) ==
    LET initial == Chapters(v.book) IN initial[(n % Len(initial)) + 1]

\* The chapter at a position: from the chosen book to the end, then the whole Bible again.
Reading(v, n) ==
    LET initial == Chapters(v.book) cycle == Chapters(1) IN
    IF n < Len(initial) THEN initial[n + 1] ELSE cycle[((n - Len(initial)) % Len(cycle)) + 1]

scriptureChaptersForDate(v, d) ==
    LET start == IF v.start = 0 THEN d ELSE v.start IN
    IF d < start THEN <<>>
    ELSE [i \in 1..Per(v) |-> Reading(v, (d - start) * Per(v) + i - 1)]

numberedSectionForDate(v, d) ==
    IF v.start = 0 \/ d < v.start THEN 1 ELSE 1 + d - v.start

pdfPageForDate(v, d) == IF v.start = 0 \/ d < v.start THEN 0 ELSE 1 + d - v.start

\* getDailyDevotionPlan: the plan of the day when days are planned one by one, 0 for none.
getDailyDevotionPlan(v, d) ==
    IF v.mode = 2 THEN v.plans[d] ELSE numberedSectionForDate(v, d)

Shows(c, h, d) ==
    LET v == resolveEffectiveSchedule(c, h, d) IN
    <<scriptureChaptersForDate(v, d), getDailyDevotionPlan(v, d), pdfPageForDate(v, d)>>

-----------------------------------------------------------------------------
(* The editor.                                                              *)
Edit(next) ==
    /\ edits < MaxEdits /\ edits' = edits + 1 /\ next # draft /\ draft' = next
    /\ UNCHANGED <<saved, history, saves>>

\* The first day of the reading and of the devotion, and the chapters of a day.
EditStart(s) == Edit([draft EXCEPT !.start = s]) /\ UNCHANGED day
EditPer(n)   == Edit([draft EXCEPT !.per = n]) /\ UNCHANGED day

updateScriptureBook(b) == Edit([draft EXCEPT !.book = b]) /\ UNCHANGED day

setDevotionPlanMode(m) == Edit([draft EXCEPT !.mode = m]) /\ UNCHANGED day

selectDailyPlanDate(d) ==
    /\ edits < MaxEdits /\ edits' = edits + 1 /\ d # day /\ day' = d
    /\ UNCHANGED <<saved, history, draft, saves>>

\* A plan of the day with a section, or with a file alone.
Planned(section) == [draft EXCEPT !.mode = 2, !.plans[day] = section]

updateDailyPlan(section) == Edit(Planned(section)) /\ UNCHANGED day
updateDailyPlanFile == draft.plans[day] = 0 /\ Edit(Planned(Blank)) /\ UNCHANGED day

Days_With(c) == {d \in Days : c.plans[d] # 0}

\* The section after the one of the day before, or the one the day has without plans.
nextDailyDevotionPlan(last, d) ==
    IF last \in Days /\ draft.plans[last] \notin {0, Blank} THEN draft.plans[last] + 1
    ELSE numberedSectionForDate(resolveEffectiveSchedule(draft, history, d), d)

\* The day after the last one that is planned.
addDailyPlan ==
    LET last == IF Days_With(draft) = {} THEN day - 1 ELSE Max(Days_With(draft))
    IN /\ last + 1 \in Days /\ day' = last + 1
       /\ Edit([draft EXCEPT !.mode = 2, !.plans[last + 1] = nextDailyDevotionPlan(last, last + 1)])

\* Mistake: only the version before is kept.
Upserted_Last(h, v) == <<v>>

\* upsertScheduleVersion, sorted.
Upserted(h, v) ==
    SelectSeq(h, LAMBDA w : w.start < v.start) \o <<v>> \o SelectSeq(h, LAMBDA w : w.start > v.start)

\* What the server keeps when a configuration is saved (preserveDailyScheduleHistory).
Saves(next) ==
    /\ saves < MaxSaves /\ saves' = saves + 1 /\ next # saved /\ saved' = next /\ draft' = next
    /\ history' = IF saved.start # 0 /\ next.start > saved.start THEN Upserted(history, saved) ELSE history
    /\ UNCHANGED <<day, edits>>

saveLearningConfig == Saves(draft)
saveDailyPlan   == Saves(Planned(IF draft.plans[day] = 0 THEN Blank ELSE draft.plans[day]))
deleteDailyPlan == draft.plans[day] # 0 /\ Saves(Planned(0))

Next ==
    \/ \E s \in Days : EditStart(s) \/ selectDailyPlanDate(s)
    \/ \E n \in 1..MaxPer : EditPer(n)
    \/ \E b \in Books : updateScriptureBook(b)
    \/ \E m \in {1, 2} : setDevotionPlanMode(m)
    \/ updateDailyPlan(1) \/ updateDailyPlanFile \/ addDailyPlan
    \/ saveLearningConfig \/ saveDailyPlan \/ deleteDailyPlan

Spec == Init /\ [][Next]_vars

-----------------------------------------------------------------------------
\* Types: starts and progressions are within their ranges.
TypeOK ==
    /\ saved.start \in 0..MaxDay /\ saved.per \in 0..MaxPer /\ saved.book \in Books /\ saved.mode \in 0..2
    /\ draft.start \in 0..MaxDay /\ day \in Days

\* The page shows, and the server checks, the same version of every day.
PagesAgree ==
    \A d \in Days : resolveEffectiveSchedule(saved, history, d) = effectiveDailyComponent(saved, history, d)

\* Nothing is missing in the version a day shows, so nothing of the present one leaks into it.
Complete(c, h, d) ==
    \E v \in {c} \cup {h[i] : i \in DOMAIN h} :
        (\A f \in Fields : v[f] # 0) /\ resolveEffectiveSchedule(c, h, d) = v

\* A new start that is later leaves every day before it as it was, whatever else is changed.
KeepsThePast ==
    saved.start # 0 /\ saved'.start > saved.start =>
        \A d \in 1..(saved'.start - 1) :
            Complete(saved, history, d) => Shows(saved', history', d) = Shows(saved, history, d)

PastIsKept == [][KeepsThePast]_vars

\* The chapters of the days since a version's start, one day after another, are the Bible
\* from its book on and then from the beginning, none skipped and none twice.
Follows(a, b) ==
    CASE a[2] < Bible[a[1]] -> b = <<a[1], a[2] + 1>>
      [] a[2] = Bible[a[1]] -> b = <<IF a[1] < Len(Bible) THEN a[1] + 1 ELSE 1, 1>>

ReadingContinues ==
    \A d \in Days : d < MaxDay =>
        LET v == resolveEffectiveSchedule(saved, history, d)
            read == scriptureChaptersForDate(v, d) \o scriptureChaptersForDate(v, d + 1)
        IN v.start # 0 => \A i \in 1..(Len(read) - 1) : Follows(read[i], read[i + 1])
=============================================================================
