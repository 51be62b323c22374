---------------------------- MODULE MinistryPage ----------------------------
(***************************************************************************)
(* The page of the ministry groups: MinistryGroups.vue.  It keeps the list *)
(* of groups, the detail of the one that is selected and a cache of the    *)
(* details it has seen, all of one study group.  Three counters in the     *)
(* code (workspaceRequestID, detailRequestID and the promise of the load   *)
(* under way) decide which answers count; here a call that runs carries    *)
(* whether it is still the newest of its kind.                             *)
(*                                                                         *)
(* Left out: what the composers hold, attachments and their downloads,     *)
(* the attendance sheet, and which tab of a group is open.                 *)
(***************************************************************************)
EXTENDS Naturals, FiniteSets

CONSTANTS
    Groups, None,
    Ministries, HomeOf,   \* HomeOf[m]: the study group of ministry m
    MaxActs,              \* things the member does, and before them mishaps
    MaxMishaps,           \* requests that are lost and changes of others, together
    MaxCalls

VARIABLES
    group,                  \* currentGroupID
    version,                \* server: how often each ministry was changed
    visible,                \* the tab is open
    warm,                   \* workspaceWarmTimer is set
    listed,                 \* whose groups are listed; their notifications and requests
    selected, detail, cache,
    loading, detailLoading, saving,
    running,                \* the async functions of the page
    own,                    \* the version of the member's last acknowledged change
    missed,                 \* a read failed
    pulled,                 \* a change ended after its study group was left
    acts, mishaps

bounds == <<acts, mishaps>>
shown  == <<listed, selected, detail, cache>>
busy   == <<loading, detailLoading, saving>>
ghost  == <<own, missed, pulled>>
vars   == <<group, version, visible, warm, shown, busy, running, ghost, bounds>>

NoDetail == [m |-> None, version |-> 0]
In(g)    == {m \in Ministries : HomeOf[m] = g}

\* newest, latest: no later loadWorkspace, no later selectGroup was called; held: it is
\* workspaceLoadPromise.
Call(op, m) ==
    [op |-> op, m |-> m, stage |-> "api", at |-> group, ph |-> "sent", ans |-> 0,
     newest |-> FALSE, latest |-> FALSE, held |-> FALSE, quiet |-> FALSE]
Stage(c, stage)  == [c EXCEPT !.stage = stage, !.at = group, !.ph = "sent", !.ans = 0]
OtherCalls(c)    == running \ {c}
Outdated(S)      == {[d EXCEPT !.newest = FALSE] : d \in S}
Superseded(S)    == {[d EXCEPT !.latest = FALSE] : d \in S}
Loads(S, c)      == Outdated(S) \cup {[Stage(c, "lists") EXCEPT !.newest = TRUE]}
\* background loads show nothing, and neither does one beside a list.
Spinner(c)       == ~c.quiet /\ listed = None

Room == Cardinality(running) < MaxCalls
Act  == acts + mishaps < MaxActs /\ acts' = acts + 1 /\ UNCHANGED <<version, mishaps>>

Init ==
    /\ group \in Groups /\ version = [m \in Ministries |-> 1]
    /\ visible = FALSE /\ warm = TRUE
    /\ listed = None /\ selected = None /\ detail = NoDetail
    /\ cache = [m \in Ministries |-> 0]
    /\ loading = FALSE /\ detailLoading = FALSE /\ saving = FALSE
    /\ running = {} /\ own = [m \in Ministries |-> 0] /\ missed = FALSE /\ pulled = FALSE
    /\ acts = 0 /\ mishaps = 0

-----------------------------------------------------------------------------
(* selectGroup, by call c, beside the calls S.                              *)

\* Mistake: a detail that is in the cache is not asked for again.
Asks_WhenMissing(m) == cache[m] = 0

\* The cache is shown at once when it is fresh or preferred, and still asked about.
Asks(m) == TRUE

Select(c, m, S, prefer) ==
    /\ selected' = m
    /\ \E fresh \in BOOLEAN :
          detail' = IF cache[m] # 0 /\ (prefer \/ fresh) THEN [m |-> m, version |-> cache[m]] ELSE detail
    /\ IF Asks(m)
       THEN /\ detailLoading' = ~c.quiet
            /\ running' = Superseded(S) \cup {[Stage(c, "detail") EXCEPT !.m = m, !.latest = TRUE]}
       ELSE running' = S /\ detailLoading' = FALSE

\* ensureWorkspace, with nothing preferred that is not selected: what is listed and not
\* older than a minute is kept, a load under way is waited for.
Ensures(S, quiet) ==
    LET c == [Call("load", selected) EXCEPT !.held = TRUE, !.quiet = quiet] IN
    \/ /\ listed = group /\ In(group) # {}
       /\ IF detail # NoDetail /\ detail.m = selected
          THEN running' = S /\ UNCHANGED <<selected, detail, detailLoading>>
          ELSE \E m \in IF selected = None THEN In(group) ELSE {selected} :
                  Select([c EXCEPT !.op = "select", !.held = FALSE], m, S, TRUE)
       /\ UNCHANGED loading
    \/ /\ \E d \in S : d.held
       /\ running' = S /\ UNCHANGED <<selected, detail, detailLoading, loading>>
    \/ /\ \A d \in S : ~d.held
       /\ running' = Loads(S, c) /\ loading' = Spinner(c)
       /\ UNCHANGED <<selected, detail, detailLoading>>

-----------------------------------------------------------------------------
(* The member, who can use the directory unless the list is being loaded    *)
(* and the page of a group unless its detail is.                            *)
Directory == visible /\ ~loading
Workspace == Directory /\ detail # NoDetail /\ ~detailLoading

OpenTab ==
    /\ Room /\ ~visible /\ visible' = TRUE
    /\ Ensures(running, FALSE)
    /\ UNCHANGED <<group, version, warm, listed, cache, saving, ghost, bounds>>

CloseTab ==
    /\ Act /\ visible /\ visible' = FALSE
    /\ UNCHANGED <<group, warm, shown, busy, running, ghost>>

\* A card or a notification is clicked.
SelectGroup(m) ==
    /\ Act /\ Room /\ Directory /\ m \in In(listed)
    /\ Select(Call("select", m), m, running, FALSE)
    /\ UNCHANGED <<group, visible, warm, listed, cache, loading, saving, ghost>>

\* runMutation ignores a second change while one is being saved.
Mutates(op, m) ==
    /\ Act /\ Room /\ Directory /\ ~saving /\ saving' = TRUE
    /\ running' = running \cup {Call(op, m)}
    /\ UNCHANGED <<group, visible, warm, shown, loading, detailLoading, ghost>>

requestJoin(m) == m \in In(listed) /\ Mutates("join", m)

\* Settings, roles, pins, shares and progress: all of them read the detail again.
Change == Workspace /\ Mutates("change", detail.m)

\* The decision names the round of the submission that was seen.
Decides(op) ==
    /\ Act /\ Room /\ Workspace /\ ~saving /\ saving' = TRUE
    /\ running' = running \cup {[Call(op, detail.m) EXCEPT !.ans = detail.version]}
    /\ UNCHANGED <<group, visible, warm, shown, loading, detailLoading, ghost>>

decideRequest == Decides("request")
decideShare   == Decides("share")

\* Deleting and restoring ask first, and so does leaving; the dialog holds one question.
Ask(op) ==
    /\ Act /\ Room /\ Workspace
    /\ running' = {c \in running : c.ph # "asked"}
                    \cup {[Call(op, detail.m) EXCEPT !.ph = "asked"]}
    /\ UNCHANGED <<group, visible, warm, shown, busy, ghost>>

leaveGroup == Ask("leave")

Confirm(c) ==
    /\ c.ph = "asked"
    /\ IF saving THEN running' = OtherCalls(c) /\ UNCHANGED saving
       ELSE running' = OtherCalls(c) \cup {Stage(c, "api")} /\ saving' = TRUE
    /\ UNCHANGED <<group, version, visible, warm, shown, loading, detailLoading, ghost, bounds>>

Decline(c) ==
    /\ c.ph = "asked" /\ running' = OtherCalls(c)
    /\ UNCHANGED <<group, version, visible, warm, shown, busy, ghost, bounds>>

\* Mistake: the load of the group that was left is still the one to wait for.
Left_Held(S) == {[d EXCEPT !.ph = IF @ = "sent" THEN "error" ELSE @] : d \in Outdated(Superseded(S))}
\* Mistake: its answers still count.
Left_Current(S) == {[d EXCEPT !.held = FALSE, !.ph = IF @ = "sent" THEN "error" ELSE @] : d \in S}

\* The calls of the group that was left: the session was replaced under those the server
\* has not seen.
Left(S) ==
    {[d EXCEPT !.held = FALSE, !.ph = IF @ = "sent" THEN "error" ELSE @] : d \in Outdated(Superseded(S))}

\* The watch on the study group; an open page loads at once, a closed one after a while.
LeaveGroup(g) ==
    LET c == [Call("load", None) EXCEPT !.held = TRUE, !.at = g, !.stage = "lists", !.newest = TRUE]
        rest == Left(running) IN
    /\ group' = g
    /\ listed' = None /\ selected' = None /\ detail' = NoDetail /\ cache' = [m \in Ministries |-> 0]
    /\ detailLoading' = FALSE /\ warm' = TRUE
    /\ IF visible /\ \A d \in rest : ~d.held
       THEN running' = Outdated(rest) \cup {c} /\ loading' = TRUE
       ELSE running' = rest /\ loading' = FALSE
    /\ UNCHANGED <<visible, saving, ghost>>

Switch(g) == g # group /\ Act /\ LeaveGroup(g)

Warm ==
    /\ warm /\ warm' = FALSE
    /\ Ensures(running, TRUE)
    /\ UNCHANGED <<group, version, visible, listed, cache, saving, ghost, bounds>>

-----------------------------------------------------------------------------
(* The server, which finds a ministry in its own study group only.          *)
Client == <<group, visible, warm, shown, busy, ghost, acts>>
Answered(c, ph, ans) ==
    /\ c.ph = "sent" /\ running' = OtherCalls(c) \cup {[c EXCEPT !.ph = ph, !.ans = ans]}
    /\ UNCHANGED Client

ServeLists(c) ==
    c.stage = "lists" /\ Answered(c, "ok", 0) /\ UNCHANGED <<version, mishaps>>

ServeDetail(c) ==
    /\ c.stage = "detail"
    /\ IF HomeOf[c.m] = c.at THEN Answered(c, "ok", version[c.m]) ELSE Answered(c, "error", 0)
    /\ UNCHANGED <<version, mishaps>>

ServeChange(c) ==
    /\ c.stage = "api"
    /\ IF HomeOf[c.m] # c.at THEN Answered(c, "error", 0) /\ UNCHANGED version
       ELSE IF c.op \in {"request", "share"} /\ c.ans # version[c.m]
       THEN Answered(c, "conflict", 0) /\ UNCHANGED version
       ELSE version' = [version EXCEPT ![c.m] = @ + 1] /\ Answered(c, "ok", version'[c.m])
    /\ UNCHANGED mishaps

Lost(c) ==
    /\ mishaps < MaxMishaps /\ mishaps' = mishaps + 1 /\ Answered(c, "error", 0)
    /\ UNCHANGED version

OtherChanges(m) ==
    /\ mishaps < MaxMishaps /\ mishaps' = mishaps + 1
    /\ version' = [version EXCEPT ![m] = @ + 1]
    /\ UNCHANGED <<Client, running>>

-----------------------------------------------------------------------------
(* The answers.                                                             *)
Page == <<group, version, visible, warm, bounds>>
Mutation(c) == c.op \notin {"load", "select"}

\* Mistake: the finally clause is only reached when the request succeeds.
Ends_WhenFine(c) ==
    /\ running' = OtherCalls(c)
    /\ loading' = (loading /\ ~c.newest)
    /\ saving' = (saving /\ ~(Mutation(c) /\ c.ph = "ok"))

\* The finally clauses of loadWorkspace and runMutation.
Ends(c) ==
    /\ running' = OtherCalls(c)
    /\ loading' = (loading /\ ~c.newest)
    /\ saving' = (saving /\ ~Mutation(c))

ListsDone(c) ==
    /\ c.stage = "lists" /\ c.ph = "ok" /\ c.newest /\ listed' = c.at
    /\ IF In(c.at) = {} THEN Ends(c) /\ UNCHANGED <<selected, detail, detailLoading>>
       ELSE /\ \E m \in IF c.m \in In(c.at) THEN {c.m} ELSE In(c.at) : Select(c, m, OtherCalls(c), TRUE)
            /\ UNCHANGED <<loading, saving>>
    /\ UNCHANGED <<Page, cache, ghost>>

ListsFail(c) ==
    /\ c.stage = "lists" /\ (c.ph = "error" \/ (c.ph = "ok" /\ ~c.newest))
    /\ Ends(c) /\ missed' = (missed \/ c.newest)
    /\ UNCHANGED <<Page, shown, detailLoading, own, pulled>>

DetailDone(c) ==
    /\ c.stage = "detail" /\ c.ph \in {"ok", "error"}
    /\ IF c.ph = "ok" /\ c.latest /\ selected = c.m
       THEN detail' = [m |-> c.m, version |-> c.ans] /\ cache' = [cache EXCEPT ![c.m] = c.ans]
       ELSE UNCHANGED <<detail, cache>>
    /\ detailLoading' = (detailLoading /\ ~c.latest)
    /\ missed' = (missed \/ (c.ph = "error" /\ c.latest))
    /\ Ends(c)
    /\ UNCHANGED <<Page, listed, selected, own, pulled>>

Acknowledged(c) ==
    /\ c.stage = "api" /\ c.ph = "ok"
    /\ own' = [own EXCEPT ![c.m] = c.ans]
    /\ pulled' = (pulled \/ HomeOf[c.m] # group)

\* refreshSelectedGroup: the group of the change is selected, wherever the member is now.
Changed(c) ==
    /\ c.op \in {"change", "share"} /\ Acknowledged(c)
    /\ Select(c, c.m, OtherCalls(c), FALSE)
    /\ UNCHANGED <<Page, listed, cache, loading, saving, missed>>

\* loadWorkspace, after joining, leaving and decisions on those who want to join.
Reloads(c) ==
    /\ Acknowledged(c)
    /\ \/ c.op \in {"join", "request"} /\ UNCHANGED <<selected, detail>> /\ running' = Loads(OtherCalls(c), c)
       \/ /\ c.op = "leave" /\ selected' = None /\ detail' = NoDetail
          /\ running' = Loads(OtherCalls(c), [c EXCEPT !.m = None])
    /\ loading' = Spinner(c)
    /\ UNCHANGED <<Page, listed, cache, detailLoading, saving, missed>>

\* refreshStaleDecision: the submission was changed, and is shown again.
Conflicts(c) ==
    /\ c.stage = "api" /\ c.ph = "conflict"
    /\ running' = Loads(OtherCalls(c), c) /\ loading' = Spinner(c)
    /\ UNCHANGED <<Page, shown, detailLoading, saving, ghost>>

Refused(c) ==
    /\ c.stage = "api" /\ c.ph = "error" /\ Ends(c)
    /\ UNCHANGED <<Page, shown, detailLoading, ghost>>

-----------------------------------------------------------------------------
Member ==
    \/ OpenTab \/ CloseTab \/ Change \/ decideRequest \/ decideShare \/ leaveGroup \/ Ask("change")
    \/ \E m \in Ministries : SelectGroup(m) \/ requestJoin(m)
    \/ \E c \in running : Confirm(c) \/ Decline(c)

Serve(c)   == ServeLists(c) \/ ServeDetail(c) \/ ServeChange(c)
Answers(c) == ListsDone(c) \/ ListsFail(c) \/ DetailDone(c) \/ Changed(c) \/ Reloads(c) \/ Conflicts(c) \/ Refused(c)

Local ==
    \/ Member \/ Warm
    \/ \E c \in running : Serve(c) \/ Answers(c) \/ Lost(c)
    \/ \E m \in Ministries : OtherChanges(m)

Next == Local \/ \E g \in Groups : Switch(g)

Spec == Init /\ [][Next]_vars

-----------------------------------------------------------------------------
\* Types: every list and detail is of a group, of a ministry or of none.
TypeOK ==
    /\ group \in Groups /\ version \in [Ministries -> Nat] /\ cache \in [Ministries -> Nat]
    /\ listed \in Groups \cup {None} /\ selected \in Ministries \cup {None}
    /\ visible \in BOOLEAN /\ warm \in BOOLEAN /\ loading \in BOOLEAN /\ saving \in BOOLEAN
    /\ \A c \in running : c.at \in Groups /\ c.m \in Ministries \cup {None}

\* The watch on the account and the study group throws everything away, and no answer
\* from before brings it back: the list, the detail and the cache are of the current group.
PageOfStudyGroup ==
    /\ listed \in {group, None}
    /\ detail # NoDetail => HomeOf[detail.m] = group
    /\ \A m \in Ministries : cache[m] # 0 => HomeOf[m] = group

\* runMutation and selectGroup: a change the server acknowledged is on the page once
\* nothing is under way, unless a read failed, whatever the cache had.
OwnChangeShown ==
    running = {} /\ ~missed /\ detail # NoDetail => detail.version >= own[detail.m]

\* ensureWorkspace: with nothing under way and no failure the page of the group is
\* there, unless a change that began in another group selected a ministry of that group.
PageFills ==
    running = {} /\ ~warm /\ ~missed /\ ~pulled =>
        listed = group /\ (In(group) # {} => detail # NoDetail)

\* The spinners and the lock on changes go when what they stand for has ended.
SpinnersEnd ==
    running = {} => ~loading /\ ~detailLoading /\ ~saving
=============================================================================
