----------------------------- MODULE VersePlans -----------------------------
(***************************************************************************)
(* The plans of the verses to recite: weekVerse.js and the editor of       *)
(* AdminConsole.vue.  A plan covers a range of days; saving one cuts away  *)
(* what other plans have in its range, and what is left after the range    *)
(* goes on as if it had not been cut.  Drafts of other days are kept until *)
(* the day is saved or the group is left.                                  *)
(*                                                                         *)
(* A text is a number; a plan with a daily progression has the day it was  *)
(* started, others 0.                                                      *)
(***************************************************************************)
EXTENDS Naturals, FiniteSets, FiniteSetsExt

CONSTANTS MaxDay, Texts, MaxSteps

Days == 1..MaxDay

VARIABLES
    plans,                    \* the plans of the group
    day, end, text,           \* the editor: versePlanDate, versePlanEnd, verseSources
    baseline,                 \* verseDraftBaseline: what the editor showed
    drafts,                   \* verseDrafts
    steps

editor == <<day, end, text>>
vars   == <<plans, editor, baseline, drafts, steps>>

NoDraft == [text |-> 0, end |-> 0]
PlanOf(S, d) == {p \in S : p.date = d}
On(S, d)     == {p \in S : p.date <= d /\ d <= p.end}
Progression(p) == IF p.daily THEN p.since ELSE 0

\* The watch of the day and of the plans: the plan of the day, or the draft that was kept.
Loaded(S, d, D) ==
    /\ baseline' = IF PlanOf(S, d) = {} THEN [text |-> 0, end |-> d]
                   ELSE LET p == CHOOSE p \in PlanOf(S, d) : TRUE IN [text |-> p.text, end |-> p.end]
    /\ text' = IF D[d] = NoDraft THEN baseline'.text ELSE D[d].text
    /\ end'  = IF D[d] = NoDraft THEN baseline'.end ELSE D[d].end

Init ==
    /\ \E f \in Days, t \in Days, daily \in BOOLEAN :
          f <= t /\ plans = {[date |-> f, end |-> t, text |-> 1, daily |-> daily, since |-> IF daily THEN f ELSE 0]}
    /\ day = 1
    /\ LET P == PlanOf(plans, 1) IN
       /\ text = IF P = {} THEN 0 ELSE 1
       /\ end = IF P = {} THEN 1 ELSE (CHOOSE p \in P : TRUE).end
    /\ baseline = [text |-> text, end |-> end]
    /\ drafts = [d \in Days |-> NoDraft] /\ steps = 0

-----------------------------------------------------------------------------
Step == steps < MaxSteps /\ steps' = steps + 1
Changed == [text |-> text, end |-> end] # baseline

selectVerseSource(t) ==
    /\ Step /\ t # text /\ text' = t /\ UNCHANGED <<plans, day, end, baseline, drafts>>

\* The last day of a range that exists.
EditEnd(d) ==
    /\ Step /\ end # day /\ d # end /\ d >= day /\ end' = d
    /\ UNCHANGED <<plans, day, text, baseline, drafts>>

SelectDay(d) ==
    /\ Step /\ d # day /\ day' = d /\ Loaded(plans, d, drafts)
    /\ UNCHANGED <<plans, drafts>>

\* advanceVerseDay, after the dialog or without it: what was edited is kept for its day.
advanceVerseDay ==
    /\ Step /\ day < MaxDay /\ day' = day + 1
    /\ drafts' = IF Changed THEN [drafts EXCEPT ![day] = [text |-> text, end |-> end]] ELSE drafts
    /\ Loaded(plans, day + 1, drafts') /\ UNCHANGED plans

-----------------------------------------------------------------------------
(* upsertWeekVersePlan with a range that is replaced.                       *)
Before(p, from) == IF p.date < from THEN {[p EXCEPT !.end = Min({from - 1, p.end})]} ELSE {}

\* Mistake: what is left after the range starts its progression there.
After_Anew(p, to) ==
    IF p.end > to THEN {[p EXCEPT !.date = to + 1, !.since = IF p.daily THEN to + 1 ELSE 0]} ELSE {}

\* Mistake: a plan that ends with the range leaves something after it.
After_Empty(p, to) == IF p.end >= to THEN {[p EXCEPT !.date = to + 1]} ELSE {}

After(p, to) == IF p.end > to THEN {[p EXCEPT !.date = to + 1]} ELSE {}

\* Mistake: a plan that begins before the range is left as it is.
Cut_Inside(S, from, to) == UNION {IF p.date < from THEN {p} ELSE After(p, to) : p \in S}

Cut(S, from, to) ==
    UNION {IF p.date > to \/ p.end < from THEN {p} ELSE Before(p, from) \cup After(p, to) : p \in S}

upsertWeekVersePlan(S, plan) == Cut(S, plan.date, plan.end) \cup {plan}

\* fixedWeekVersePlan: a plan that is saved shows all of its text every day.
Saved == [date |-> day, end |-> end, text |-> text, daily |-> FALSE, since |-> 0]

saveVersePlan ==
    /\ Step /\ text # 0 /\ end >= day
    /\ plans' = upsertWeekVersePlan(plans, Saved)
    /\ drafts' = [drafts EXCEPT ![day] = NoDraft]
    /\ baseline' = [text |-> text, end |-> end]
    /\ UNCHANGED editor

deleteVersePlan ==
    /\ Step /\ PlanOf(plans, day) # {} /\ plans' = plans \ PlanOf(plans, day)
    /\ Loaded(plans', day, drafts) /\ UNCHANGED <<day, drafts>>

Next ==
    \/ \E t \in Texts : selectVerseSource(t)
    \/ \E d \in Days : EditEnd(d) \/ SelectDay(d)
    \/ advanceVerseDay \/ saveVersePlan \/ deleteVersePlan

Spec == Init /\ [][Next]_vars

-----------------------------------------------------------------------------
\* Types: a plan covers at least its first day.
TypeOK ==
    /\ \A p \in plans : p.date \in Days /\ p.end \in p.date..MaxDay /\ p.text \in Texts
    /\ day \in Days /\ end \in Days /\ text \in Texts \cup {0}

\* Whatever was saved in whatever order, a day has one plan at most.
OneVerseADay == \A d \in Days : Cardinality(On(plans, d)) <= 1

\* Saving a plan changes the days of its range only, and deleting one its own days: every
\* other day keeps its text and the day its progression counts from.
KeepsOtherDays ==
    LET own == PlanOf(IF PlanOf(plans', day) = {} THEN plans ELSE plans', day)
        told(S, d) == {<<p.text, Progression(p)>> : p \in On(S, d)}
    IN \A d \in Days : told(plans', d) # told(plans, d) => On(own, d) # {}

OtherDaysKept == [][KeepsOtherDays]_vars
=============================================================================
