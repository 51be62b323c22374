--------------------------- MODULE LearningEditor ---------------------------
(***************************************************************************)
(* The learning section of the admin page: AdminConsole.vue and the part   *)
(* of legacy-app.js behind it.  One administrator edits the learning       *)
(* configuration and a week of the group, switches that are saved at once  *)
(* beside texts that wait for a button; another administrator saves the    *)
(* same things from elsewhere; and the page may move to another group      *)
(* while answers are on their way.                                         *)
(*                                                                         *)
(* Of the configuration the model keeps its revision, one switch, one text *)
(* edited in place and the verse plan of one day, which has an editor of   *)
(* its own; of the weeks of a group one, with its tasks and one switch.    *)
(* A group switch is one step here (ClientSession has its parts): requests *)
(* the server has not seen by then fail.  The form is gone while the member *)
(* picks a day on another page, and a new one when the page is entered.    *)
(* What a switch was saved for is shown by reading today's page again, for *)
(* the day that was chosen when it was asked.                              *)
(*                                                                         *)
(* Left out: saveActiveMemberRule, which nothing calls.                    *)
(***************************************************************************)
EXTENDS Naturals, FiniteSets

CONSTANTS
    Groups, None,
    MaxActs,     \* things the administrator does and requests that are lost, together
    MaxOthers,   \* things the other administrator and the members do
    MaxFaults,   \* requests that are lost
    MaxCalls

VARIABLES
    conf,          \* server: the learning configuration of each group
    week,          \* server: the study week of each group
    group, gen,    \* current group and sessionGeneration
    config,        \* state.learningConfig
    list, draft,   \* state.weeks and state.weekDraft
    date, hub,     \* state.selectedDate; state.todayHub with state.bootstrap
    form,          \* AdminConsole.vue is there
    source,        \* the text in the editor of the verse plan
    busy,          \* notificationSaving
    verseSaving,   \* the group whose verse plan is being saved
    weekSave,      \* weekSaveRequest: the context of the save under way
    calls,
    acts, others, faults,
    restamped      \* a switch gave its revision to texts it was not compared with

server == <<conf, week>>
editor == <<config, source, busy, verseSaving>>
weekly == <<list, draft, weekSave>>
bounds == <<acts, others, faults>>
today  == <<date, hub, form>>
vars == <<server, group, gen, editor, weekly, today, calls, bounds, restamped>>

\* As it was, typed here, typed elsewhere, the default of the site, and no verse plan.
Texts == {"old", "mine", "theirs", "default", "none"}

Settings(rev, flag, text, plan) == [rev |-> rev, flag |-> flag, text |-> text, plan |-> plan]

\* What the page has of a configuration: its group, and the texts the server had when
\* it was read.
Read(g, s) == [of |-> g, now |-> s, base |-> [text |-> s.text, plan |-> s.plan]]
Defaults   == Read(None, Settings(0, FALSE, "default", "default"))

\* done: somebody checked in.
Planned(id, body, on) == [id |-> id, body |-> body, on |-> on, done |-> FALSE]
NoWeek    == Planned(0, "old", TRUE)
OldWeek   == [Planned(1, "old", TRUE) EXCEPT !.done = TRUE]
NoDraft   == [of |-> None, id |-> 0, body |-> "old", on |-> TRUE]
EmptyList == [of |-> None, week |-> NoWeek]
NoSave    == [g |-> None, gen |-> 0]

\* weekDraftFromWeek; a list without weeks gives a draft of a new one.
DraftFrom(l) ==
    [of |-> IF l.of = None THEN group ELSE l.of, id |-> l.week.id, body |-> l.week.body, on |-> l.week.on]

\* day and week: the days that todayHub and the week of the bootstrap are of; by: what read them.
Hub(g, d, w, by) == [of |-> g, day |-> d, week |-> w, by |-> by]
NoHub == Hub(None, 1, 1, "load")

Context == [g |-> group, gen |-> gen]

-----------------------------------------------------------------------------
\* mine: the form that waits for it is the one that is there.
Call(op, stage, data, prev) ==
    [op |-> op, stage |-> stage, ctx |-> Context, at |-> group, data |-> data, prev |-> prev,
     ph |-> "sent", ans |-> None, mine |-> op \in {"toggle", "weektoggle", "content"}]

\* api sends with the token of the moment, which names a group.
Stage(c, stage, data) ==
    [c EXCEPT !.stage = stage, !.at = group, !.data = data, !.ph = "sent", !.ans = None]

Others(c)  == calls \ {c}
Saving(op) == \E c \in calls : c.op = op

\* Those who wait for a loadAll that a newer one replaces go on without its result.
Freed(S) == {IF c.stage = "load" THEN [c EXCEPT !.ph = "free"] ELSE c : c \in S}
Loads(S) == Freed({c \in S : c.op # "loadAll"}) \cup {Call("loadAll", "get", None, None)}
Waiting(c, data) == [Stage(c, "load", data) EXCEPT !.ph = "wait"]
Loaded(c) == c.stage = "load" /\ (c.ph = "free" \/ ~Saving("loadAll"))
Left(S)   == {[c EXCEPT !.mine = FALSE] : c \in S}
Admin(S)  == {c \in S : c.op # "admin"} \cup {Call("admin", "get", None, None)}

Room == Cardinality(calls) < MaxCalls
Act  == acts + faults < MaxActs /\ acts' = acts + 1 /\ UNCHANGED <<server, others, faults>>
OnForm == Act /\ form /\ UNCHANGED today

Init ==
    /\ conf = [g \in Groups |-> Settings(1, FALSE, "old", "old")]
    /\ week \in [Groups -> {NoWeek, OldWeek}]
    /\ group = CHOOSE g \in Groups : TRUE   \* one is like the other
    /\ gen = 0
    /\ config = Read(group, conf[group]) /\ source = "old"
    /\ list = [of |-> group, week |-> week[group]] /\ draft = DraftFrom(list)
    /\ date = 1 /\ hub = Hub(group, 1, 1, "load") /\ form = TRUE
    /\ busy = FALSE /\ verseSaving = None /\ weekSave = NoSave
    /\ calls = {} /\ acts = 0 /\ others = 0 /\ faults = 0
    /\ restamped = FALSE

-----------------------------------------------------------------------------
(* The administrator and the configuration.                                 *)

\* When the plans change the editor of the verse shows the plan, except while it is
\* being saved for this group.
Shows(old, new) == IF verseSaving = group \/ old.now.plan = new.now.plan THEN source ELSE new.now.plan

\* updateLearningValue, under all the fields of the form.
Edited == [config EXCEPT !.now.text = "mine"]

EditText ==
    /\ OnForm /\ config' = Edited
    /\ UNCHANGED <<group, gen, source, busy, verseSaving, weekly, calls, restamped>>

\* A switch is shown at once and saved without a button.
SetToggle ==
    /\ OnForm /\ Room /\ ~busy /\ busy' = TRUE
    /\ config' = [config EXCEPT !.now.flag = ~@]
    /\ calls' = calls \cup {Call("toggle", "get", config'.now.flag,
                                 [flag |-> config.now.flag, rev |-> config.now.rev, of |-> config.of])}
    /\ UNCHANGED <<group, gen, source, verseSaving, weekly, restamped>>

Save(new, prev) ==
    /\ OnForm /\ Room
    /\ config' = new
    /\ calls' = calls \cup {Call("content", "put", new.now, prev)}
    /\ UNCHANGED <<group, gen, busy, weekly, restamped>>

SaveContent == Save(config, None) /\ UNCHANGED <<source, verseSaving>>

TypeVerse ==
    /\ OnForm /\ source' = "mine"
    /\ UNCHANGED <<group, gen, config, busy, verseSaving, weekly, calls, restamped>>

\* The plan goes into the configuration first, and comes out again when it was not saved.
SaveVerse ==
    /\ verseSaving = None /\ source # "none" /\ verseSaving' = group
    /\ Save([config EXCEPT !.now.plan = source], [plan |-> config.now.plan])
    /\ UNCHANGED source

\* Here it does not come back when the save fails.
DeleteVerse ==
    /\ config.now.plan # "none"
    /\ Save([config EXCEPT !.now.plan = "none"], None)
    /\ source' = Shows(config, config')
    /\ UNCHANGED verseSaving

\* setAdminSection reads the configuration again; setTab, for a new form, throws the draft
\* away first.  Who waits for a call of the form that is gone waits for nothing.
OpenSection(entering) ==
    /\ Act /\ Room /\ (entering \/ form) /\ form' = TRUE
    /\ IF entering
       THEN /\ calls' = Admin(Left(calls)) /\ draft' = NoDraft
            /\ busy' = FALSE /\ verseSaving' = None /\ source' = config.now.plan
       ELSE calls' = Admin(calls) /\ UNCHANGED <<draft, busy, verseSaving, source>>
    /\ UNCHANGED <<group, gen, config, list, weekSave, date, hub, restamped>>

\* setSelectedDate, on another page.
ChooseDate ==
    /\ Act /\ Room /\ form' = FALSE /\ date' = 3 - date
    /\ hub' = NoHub /\ calls' = Loads(Left(calls)) /\ busy' = FALSE /\ verseSaving' = None
    /\ UNCHANGED <<group, gen, config, source, weekly, restamped>>

-----------------------------------------------------------------------------
(* The administrator and the week; its part of the page is there once there *)
(* is a draft.                                                              *)
OnDraft == OnForm /\ draft # NoDraft /\ UNCHANGED <<group, gen, config, source, verseSaving, restamped>>

SelectWeek ==
    OnDraft /\ draft' = DraftFrom(list) /\ UNCHANGED <<busy, list, weekSave, calls>>

\* updateWeekDraftField, updateWeekBinding and their like, under the fields of the week.
EditedDraft == [draft EXCEPT !.body = "mine"]

EditWeek ==
    OnDraft /\ draft' = EditedDraft /\ UNCHANGED <<busy, list, weekSave, calls>>

restoreWeekDraftDefaults ==
    OnDraft /\ draft' = [draft EXCEPT !.body = "default"] /\ UNCHANGED <<busy, list, weekSave, calls>>

\* The switch of a week that is not saved yet belongs to the draft only.
SetWeekToggle ==
    /\ OnDraft /\ ~busy
    /\ draft' = [draft EXCEPT !.on = ~@]
    /\ \/ draft.id = 0 /\ UNCHANGED <<calls, busy>>
       \/ /\ draft.id # 0 /\ Room /\ busy' = TRUE
          /\ calls' = calls \cup {Call("weektoggle", "patch", [id |-> draft.id, on |-> ~draft.on], None)}
    /\ UNCHANGED <<list, weekSave>>

\* A second click while the week is being saved in this context does nothing, and a new
\* week whose days the list has already is not sent.
SaveWeek ==
    /\ OnDraft /\ Room /\ weekSave # Context
    /\ ~(draft.id = 0 /\ list.week # NoWeek)
    /\ weekSave' = Context
    /\ calls' = calls \cup {Call("week", "put", draft, None)}
    /\ UNCHANGED <<busy, list, draft>>

\* Mistake: the question that was open is forgotten, not answered.
Dismissed_Forgotten(S) == S

\* showDialog answers the question it replaces with no.
Dismissed(S) == {[c EXCEPT !.ph = IF @ = "asked" THEN "no" ELSE @] : c \in S}

DeleteWeek ==
    /\ OnDraft
    /\ \/ draft.id = 0 /\ list.week = NoWeek /\ draft' = DraftFrom(list) /\ UNCHANGED calls
       \/ /\ draft.id # 0 /\ Room /\ UNCHANGED draft
          /\ calls' = Dismissed(calls) \cup {[Call("delete", "sure", draft.id, None) EXCEPT !.ph = "asked"]}
    /\ UNCHANGED <<busy, list, weekSave>>

importStudyWeeksExcel ==
    /\ OnForm /\ Room /\ calls' = calls \cup {Call("import", "post", None, None)}
    /\ UNCHANGED <<group, gen, editor, weekly, restamped>>

AnswerDialog(yes) ==
    /\ \E c \in calls :
          c.ph = "asked" /\ calls' = Others(c) \cup {[c EXCEPT !.ph = IF yes THEN "yes" ELSE "no"]}
    /\ UNCHANGED <<server, group, gen, editor, weekly, today, bounds, restamped>>

\* switchGroup, once the server agreed, with its loadAll.
Switch(g) ==
    /\ Act /\ g # group /\ group' = g /\ gen' = gen + 1
    /\ config' = Defaults /\ list' = EmptyList /\ draft' = NoDraft /\ hub' = NoHub
    /\ source' = IF verseSaving = g THEN source ELSE "default"
    /\ calls' = {[c EXCEPT !.ph = IF @ = "sent" THEN "error" ELSE @] :
                    c \in Freed({d \in calls : d.op # "loadAll"})}
                 \cup {[Call("loadAll", "get", None, None) EXCEPT !.ctx = [g |-> g, gen |-> gen + 1], !.at = g]}
    /\ UNCHANGED <<busy, verseSaving, weekSave, date, form, restamped>>

-----------------------------------------------------------------------------
(* The server.  Week numbers are the group's own: another group has none of *)
(* that number.                                                             *)
Reply(c, ph, ans) == calls' = Others(c) \cup {[c EXCEPT !.ph = ph, !.ans = ans]}
Saved(g, s) == conf' = [conf EXCEPT ![g] = [s EXCEPT !.rev = @ + 1]]
Client == <<group, gen, editor, weekly, today, acts, restamped>>
Serves(c, stage) == c.ph = "sent" /\ c.stage = stage /\ UNCHANGED <<Client, others, faults>>
Found(c, id) == c.at = c.ctx.g /\ week[c.at].id = id

ServeRead(c) ==
    /\ c.stage \in {"get", "hub"} /\ Serves(c, c.stage) /\ UNCHANGED server
    /\ Reply(c, "ok", [conf |-> conf[c.at], week |-> week[c.at]])

\* A configuration of another revision than the stored one is refused.
ServePut(c) ==
    /\ c.op \in {"toggle", "content"} /\ Serves(c, "put") /\ UNCHANGED week
    /\ IF c.data.rev = conf[c.at].rev
       THEN Saved(c.at, c.data) /\ Reply(c, "ok", conf'[c.at])
       ELSE UNCHANGED conf /\ Reply(c, "error", None)

ServeNewWeek(c) ==
    /\ c.op = "week" /\ c.data.id = 0 /\ Serves(c, "put") /\ UNCHANGED conf
    /\ IF week[c.at] = NoWeek
       THEN /\ week' = [week EXCEPT ![c.at] = Planned(2, c.data.body, c.data.on)]
            /\ Reply(c, "ok", 2)
       ELSE UNCHANGED week /\ Reply(c, "error", None)

\* Tasks that were checked in are replaced only when forced.
ServeWeek(c, stage) ==
    LET w == week[c.at] IN
    /\ c.op = "week" /\ c.data.id # 0 /\ Serves(c, stage) /\ UNCHANGED conf
    /\ IF ~Found(c, c.data.id) THEN UNCHANGED week /\ Reply(c, "error", None)
       ELSE IF w.done /\ stage = "put" THEN UNCHANGED week /\ Reply(c, "checked", None)
       ELSE /\ week' = [week EXCEPT ![c.at].body = c.data.body, ![c.at].on = c.data.on]
            /\ Reply(c, "ok", w.id)

ServeWeekToggle(c) ==
    /\ Serves(c, "patch") /\ UNCHANGED conf
    /\ week' = IF Found(c, c.data.id) THEN [week EXCEPT ![c.at].on = c.data.on] ELSE week
    /\ Reply(c, IF Found(c, c.data.id) THEN "ok" ELSE "error", None)

ServeDelete(c) ==
    /\ Serves(c, "delete") /\ UNCHANGED conf
    /\ week' = IF Found(c, c.data) THEN [week EXCEPT ![c.at] = NoWeek] ELSE week
    /\ Reply(c, IF Found(c, c.data) THEN "ok" ELSE "error", None)

\* All weeks are deleted, checked in or not, and those of the sheet are new ones.
ServeImport(c) ==
    /\ Serves(c, "post") /\ UNCHANGED conf
    /\ \E id \in {0, IF week[c.at].id = 3 THEN 4 ELSE 3}, on \in BOOLEAN :
          week' = [week EXCEPT ![c.at] = IF id = 0 THEN NoWeek ELSE Planned(id, "theirs", on)]
    /\ Reply(c, "ok", None)

Lost(c) ==
    /\ c.ph = "sent" /\ faults < MaxFaults /\ acts + faults < MaxActs /\ faults' = faults + 1
    /\ Reply(c, "error", None)
    /\ UNCHANGED <<server, Client, others>>

Other == others < MaxOthers /\ others' = others + 1 /\ UNCHANGED <<Client, calls, faults>>

OtherSaves(g) ==
    /\ Other /\ UNCHANGED week
    /\ \/ Saved(g, [conf[g] EXCEPT !.text = "theirs"])
       \/ Saved(g, [conf[g] EXCEPT !.plan = "theirs"])
       \/ Saved(g, [conf[g] EXCEPT !.flag = ~@])

\* Another administrator plans or removes the week; a member checks in.
OtherWeek(g) ==
    /\ Other /\ UNCHANGED conf
    /\ \/ week[g] = NoWeek /\ week' = [week EXCEPT ![g] = Planned(3, "theirs", TRUE)]
       \/ week[g] # NoWeek /\ week' = [week EXCEPT ![g] = NoWeek]
       \/ week[g] # NoWeek /\ ~week[g].done /\ week' = [week EXCEPT ![g].done = TRUE]

-----------------------------------------------------------------------------
(* The answers.                                                             *)
Page == <<server, group, gen, bounds>>
Answer(c, op, stage, ph) == c.op = op /\ c.stage = stage /\ c.ph = ph /\ UNCHANGED <<Page, today>>
Fails(c, op) == c.op = op /\ c.ph = "error" /\ UNCHANGED <<Page, today>>
Ends(c) == calls' = Others(c)
Released(c) == busy' = (busy /\ ~c.mine)

\* A configuration that was read, or saved, is shown with the texts of its own revision.
Becomes(new) == config' = new /\ source' = Shows(config, new) /\ restamped' = FALSE

\* Mistake: the context was compared before the load only.
SameContext_Unchecked(c) == TRUE

SameContext(c) == c.ctx = Context

LoadDone(c) ==
    /\ c.op = "loadAll" /\ c.ph \in {"ok", "error"} /\ Ends(c)
    /\ IF c.ph = "ok" /\ c.ctx = Context
       THEN /\ Becomes(Read(group, c.ans.conf)) /\ list' = [of |-> c.at, week |-> c.ans.week]
            /\ hub' = Hub(c.at, date, date, "load")
       ELSE UNCHANGED <<config, list, source, hub, restamped>>
    /\ UNCHANGED <<Page, busy, verseSaving, draft, weekSave, date, form>>

AdminDone(c) ==
    /\ c.op = "admin" /\ c.ph \in {"ok", "error"} /\ Ends(c)
    /\ IF c.ph = "ok" /\ c.ctx = Context
       THEN /\ Becomes(Read(group, c.ans.conf))
            /\ draft' = IF draft = NoDraft THEN DraftFrom(list) ELSE draft
       ELSE UNCHANGED <<config, source, draft, restamped>>
    /\ UNCHANGED <<Page, today, busy, verseSaving, list, weekSave>>

\* Mistake: what is written is what the page has, not what was just read.
Written_FromPage(c) == [config.now EXCEPT !.flag = c.data]

Written(c) == [c.ans.conf EXCEPT !.flag = c.data]

\* The configuration is read again and written back with the switch only.
ToggleRead(c) ==
    /\ c.ctx.g = group /\ Answer(c, "toggle", "get", "ok")
    /\ calls' = Others(c) \cup {Stage(c, "put", Written(c))}
    /\ UNCHANGED <<editor, weekly, restamped>>

\* Mistake: the texts typed over an older revision count as being of the new one.
Continues_Always(c) == TRUE

\* A text typed over an older revision keeps that revision, and its save will be refused.
\* The revision is the one the texts had when the switch was clicked.
Continues(c) == c.data.rev = c.prev.rev

AsClicked(c) == config.of = c.prev.of /\ config.now.rev = c.prev.rev

ToggleSaved(c) ==
    /\ Answer(c, "toggle", "put", "ok")
    /\ IF c.ctx.g = group THEN calls' = Others(c) \cup {Stage(c, "hub", date)} /\ UNCHANGED busy
       ELSE Ends(c) /\ Released(c)
    /\ IF c.ctx.g = group /\ Continues(c)
       THEN config' = [config EXCEPT !.now.rev = c.ans.rev] /\ restamped' = (restamped \/ ~AsClicked(c) \/ config.now.flag # c.data.flag)
       ELSE UNCHANGED <<config, restamped>>
    /\ UNCHANGED <<source, verseSaving, weekly>>

\* Mistake: the day of another group is shown.
Refreshes_Any(c) == TRUE

Refreshes(c) == c.ctx.g = group

\* Today's page is read for the day of that moment, and shown whatever day is chosen by now.
HubRefreshed(c) ==
    /\ c.op = "toggle" /\ c.stage = "hub" /\ c.ph \in {"ok", "error"} /\ Ends(c) /\ Released(c)
    /\ hub' = IF c.ph = "ok" /\ Refreshes(c) THEN Hub(c.at, c.data, hub.week, "switch") ELSE hub
    /\ UNCHANGED <<Page, date, form, config, source, verseSaving, weekly, restamped>>

\* Mistake: the switch stays where the administrator put it.
Restored_Not(c) == config

Restored(c) == IF c.ctx.g = group THEN [config EXCEPT !.now.flag = c.prev.flag] ELSE config

ToggleFails(c) ==
    /\ Fails(c, "toggle") /\ c.stage # "hub" /\ Ends(c) /\ Released(c) /\ config' = Restored(c)
    /\ restamped' = (restamped \/ (c.ctx.g = group /\ ~AsClicked(c)))
    /\ UNCHANGED <<source, verseSaving, weekly>>

\* The group was left before the configuration was read: nothing is written.
ToggleDropped(c) ==
    /\ c.ctx.g # group /\ Answer(c, "toggle", "get", "ok") /\ Ends(c) /\ Released(c)
    /\ UNCHANGED <<config, source, verseSaving, weekly, restamped>>

\* saveLearningConfig compares no group: what was saved becomes the configuration.
ContentSaved(c) ==
    /\ Answer(c, "content", "put", "ok")
    /\ Becomes(Read(c.at, c.ans))
    /\ calls' = Loads(Others(c)) \cup (IF c.prev = None THEN {} ELSE {Waiting(c, None)})
    /\ UNCHANGED <<busy, verseSaving, weekly>>

\* The save of a plan waits for the load; then its editor is free again.
VerseSaved(c) ==
    /\ c.op = "content" /\ Loaded(c) /\ Ends(c) /\ verseSaving' = IF c.mine THEN None ELSE verseSaving
    /\ UNCHANGED <<Page, today, config, source, busy, weekly, restamped>>

ContentFails(c) ==
    /\ Fails(c, "content") /\ Ends(c)
    /\ IF c.prev = None THEN UNCHANGED <<config, verseSaving>>
       ELSE /\ verseSaving' = IF c.mine THEN None ELSE verseSaving
            /\ config' = IF c.ctx.g = group THEN [config EXCEPT !.now.plan = c.prev.plan] ELSE config
    /\ UNCHANGED <<source, busy, weekly, restamped>>

WeekAsks(c) ==
    /\ Answer(c, "week", "put", "checked")
    /\ calls' = Dismissed(Others(c)) \cup {[c EXCEPT !.stage = "force", !.ph = "asked"]}
    /\ UNCHANGED <<editor, weekly, restamped>>

WeekForced(c) ==
    /\ Answer(c, "week", "force", "yes") /\ calls' = Others(c) \cup {Stage(c, "forced", c.data)}
    /\ UNCHANGED <<editor, weekly, restamped>>

SaveReleased(c) == Ends(c) /\ weekSave' = IF weekSave = c.ctx THEN NoSave ELSE weekSave

WeekSaved(c) ==
    /\ Answer(c, "week", c.stage, "ok") /\ SameContext(c)
    /\ calls' = Loads(Others(c)) \cup {Waiting(c, [c.data EXCEPT !.id = c.ans])}
    /\ UNCHANGED <<editor, weekly, restamped>>

\* The load is over, whatever became of it: the draft is the saved week.
WeekShown(c) ==
    /\ c.op = "week" /\ Loaded(c) /\ SameContext(c) /\ SaveReleased(c)
    /\ draft' = IF list.week.id = c.data.id THEN DraftFrom(list) ELSE c.data
    /\ UNCHANGED <<Page, today, editor, list, restamped>>

WeekEnds(c) ==
    /\ c.op = "week"
    /\ \/ c.ph \in {"error", "no"}
       \/ (c.ph = "ok" \/ Loaded(c)) /\ ~SameContext(c)
    /\ SaveReleased(c)
    /\ UNCHANGED <<Page, today, editor, list, draft, restamped>>

\* refreshTaskVisibility reads the weeks and today's page again, not the draft.
WeekToggled(c) ==
    /\ Answer(c, "weektoggle", "patch", "ok")
    /\ IF c.ctx.g = group
       THEN calls' = Others(c) \cup {Stage(c, "get", [id |-> c.data.id, on |-> c.data.on, day |-> date])} /\ UNCHANGED busy
       ELSE Ends(c) /\ Released(c)
    /\ UNCHANGED <<config, source, verseSaving, weekly, restamped>>

WeeksRefreshed(c) ==
    /\ c.op = "weektoggle" /\ c.stage = "get" /\ c.ph \in {"ok", "error"}
    /\ IF c.ph = "ok" /\ Refreshes(c)
       THEN list' = [of |-> c.at, week |-> c.ans.week] /\ hub' = Hub(c.at, c.data.day, 1, "switch")
       ELSE UNCHANGED <<list, hub>>
    /\ Ends(c) /\ Released(c)
    /\ UNCHANGED <<Page, date, form, config, source, verseSaving, draft, weekSave, restamped>>

WeekToggleFails(c) ==
    /\ c.stage = "patch" /\ Fails(c, "weektoggle") /\ Ends(c) /\ Released(c)
    /\ draft' = IF c.ctx.g = group /\ draft.id = c.data.id THEN [draft EXCEPT !.on = ~c.data.on] ELSE draft
    /\ UNCHANGED <<config, source, verseSaving, list, weekSave, restamped>>

DeleteConfirmed(c) ==
    /\ Answer(c, "delete", "sure", "yes") /\ calls' = Others(c) \cup {Stage(c, "delete", c.data)}
    /\ UNCHANGED <<editor, weekly, restamped>>

Deleted(c) ==
    /\ Answer(c, "delete", "delete", "ok") /\ calls' = Loads(Others(c)) \cup {Waiting(c, None)}
    /\ UNCHANGED <<editor, weekly, restamped>>

\* After the load the draft starts from the week of whatever group this is.
DeleteShown(c) ==
    /\ c.op = "delete" /\ Loaded(c) /\ draft' = DraftFrom(list) /\ Ends(c)
    /\ UNCHANGED <<Page, today, editor, list, weekSave, restamped>>

Imported(c) ==
    /\ Answer(c, "import", "post", "ok") /\ calls' = Admin(Loads(Others(c)))
    /\ UNCHANGED <<editor, weekly, restamped>>

\* A no, or an error that is only reported.
Dropped(c) ==
    /\ (c.op = "delete" /\ c.ph \in {"no", "error"}) \/ (c.op = "import" /\ c.ph = "error")
    /\ Ends(c)
    /\ UNCHANGED <<Page, today, editor, weekly, restamped>>

-----------------------------------------------------------------------------
Administrator ==
    \/ EditText \/ SetToggle \/ SaveContent \/ TypeVerse \/ SaveVerse \/ DeleteVerse
    \/ \E entering \in BOOLEAN : OpenSection(entering)
    \/ ChooseDate
    \/ SelectWeek \/ EditWeek \/ restoreWeekDraftDefaults \/ SetWeekToggle \/ SaveWeek \/ DeleteWeek
    \/ importStudyWeeksExcel
    \/ \E g \in Groups : Switch(g)

Serve(c) ==
    \/ ServeRead(c) \/ ServePut(c) \/ ServeNewWeek(c) \/ ServeWeek(c, "put") \/ ServeWeek(c, "forced")
    \/ ServeWeekToggle(c) \/ ServeDelete(c) \/ ServeImport(c)

Answers(c) ==
    \/ LoadDone(c) \/ AdminDone(c) \/ ToggleRead(c) \/ ToggleSaved(c) \/ HubRefreshed(c) \/ ToggleFails(c) \/ ToggleDropped(c)
    \/ ContentSaved(c) \/ VerseSaved(c) \/ ContentFails(c)
    \/ WeekAsks(c) \/ WeekForced(c) \/ WeekSaved(c) \/ WeekShown(c) \/ WeekEnds(c)
    \/ WeekToggled(c) \/ WeeksRefreshed(c) \/ WeekToggleFails(c)
    \/ DeleteConfirmed(c) \/ Deleted(c) \/ DeleteShown(c) \/ Imported(c) \/ Dropped(c)

Elsewhere == \E g \in Groups : OtherSaves(g) \/ OtherWeek(g)
Network   == \E c \in calls : Serve(c) \/ Answers(c)
Next ==
    \/ Administrator \/ Elsewhere \/ Network
    \/ \E yes \in BOOLEAN : AnswerDialog(yes)
    \/ \E c \in calls : Lost(c)

Spec == Init /\ [][Next]_vars

-----------------------------------------------------------------------------
\* Types of the configuration, of the drafts and of the flags.
TypeOK ==
    /\ conf \in [Groups -> [rev : Nat, flag : BOOLEAN, text : Texts, plan : Texts]]
    /\ \A g \in Groups : week[g].id \in 0..4 /\ week[g].body \in Texts
    /\ group \in Groups /\ gen \in Nat
    /\ config.of \in Groups \cup {None} /\ config.now.text \in Texts /\ config.now.plan \in Texts
    /\ source \in Texts /\ busy \in BOOLEAN /\ verseSaving \in Groups \cup {None}
    /\ date \in 1..2 /\ hub.day \in 1..2 /\ hub.week \in 1..2 /\ form \in BOOLEAN /\ restamped \in BOOLEAN
    /\ \A c \in calls : c.ctx.g \in Groups /\ c.at \in Groups

\* saveLearningToggle: a draft keeps the revision it was typed over, so that its save is
\* refused when somebody saved in between: a page whose revision is the server's was typed
\* over the texts the server has.  One case is excepted, and there the code does what its
\* own comment rules out: the revision compared is the one of the click (legacy-app.js:2495),
\* and texts that came in since, by a read that was answered late or a save that was, are
\* given the switch's revision, or the old value of its flag, unseen.
BasedOnRevision ==
    ~restamped /\ config.of = group /\ config.now.rev = conf[group].rev =>
        config.base = [text |-> conf[group].text, plan |-> conf[group].plan]

\* A switch is saved by itself: texts the administrator typed reach the server only with
\* the save of the texts.
SavesOnlyWhatIsAsked ==
    \A g \in Groups :
        (conf'[g].text = "mine" /\ conf[g].text # "mine") \/ (conf'[g].plan = "mine" /\ conf[g].plan # "mine")
          => \E c \in calls \ calls' : c.op = "content" /\ c.at = g

ToggleSavesOnlyItself == [][SavesOnlyWhatIsAsked]_vars

\* saveWeekDraft: an answer that arrives after a switch leaves the draft alone, so the
\* weeks on the page, in the list and in the draft, are those of the current group, and so
\* is today's page, which is of the chosen day whenever a load brought it.  A switch that
\* reads it again compares the group only: its page may be of a day chosen before.
WeeksOfGroup ==
    /\ list.of \in {group, None} /\ draft.of \in {group, None} /\ hub.of \in {group, None}
    /\ hub.of # None /\ hub.by = "load" => hub.day = date /\ hub.week = date

\* showDialog has one place: of the questions asked at most one is open, every other
\* asker was answered; and what blocks a button is still going on.
NothingStaysBlocked ==
    /\ \A c, d \in calls : c.ph = "asked" /\ d.ph = "asked" => c = d
    /\ busy => \E c \in calls : c.op \in {"toggle", "weektoggle"} /\ c.mine
    /\ verseSaving # None => \E c \in calls : c.op = "content" /\ c.prev # None /\ c.mine
    /\ weekSave # NoSave => \E c \in calls : c.op = "week" /\ c.ctx = weekSave

\* A switch that could not be saved goes back: with nothing under way the page shows the
\* switch of the revision it has, with the exception BasedOnRevision makes.
FlagIsSaved ==
    calls = {} /\ ~restamped /\ config.of = group /\ config.now.rev = conf[group].rev
        => config.now.flag = conf[group].flag
=============================================================================
