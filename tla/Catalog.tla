------------------------------- MODULE Catalog -------------------------------
(***************************************************************************)
(* The catalogue of the ministries of a study group as its administrator   *)
(* edits it: MinistryCatalogAdmin.vue.  Ministries are created, renamed,   *)
(* deleted one by one or several at once, each after a confirmation; after *)
(* every change the list is loaded anew, and an answer counts while its    *)
(* load is the latest.  A change holds the buttons, but not the Enter key  *)
(* of the field of a new name.  A change whose answer is lost after the    *)
(* server stored it loads nothing, unless it is a deletion of several: the *)
(* list is unsure then until it is loaded again.                           *)
(*                                                                         *)
(* The switches of the entry and of the recycle bin save the learning      *)
(* configuration (LearningEditor).  Names are left out.                    *)
(***************************************************************************)
EXTENDS Naturals, FiniteSets

CONSTANTS Groups, Ids, None, MaxActs, MaxMishaps, MaxCalls

VARIABLES
    catalog,                         \* server: the ministries of every study group
    currentGroup,                    \* currentGroupID
    groups, selected, loading, saving,
    dialog,                          \* what has to be confirmed
    running,
    loaded, unsure,                  \* the latest load came; a stored change was lost since
    acts, mishaps

bounds == <<acts, mishaps>>
vars   == <<catalog, currentGroup, groups, selected, loading, saving, dialog, running, loaded, unsure, bounds>>

Deletes == {"delete", "deleteSelected"}
Free    == Ids \ UNION {catalog[g] : g \in Groups}
Quiet   == [op |-> None, ids |-> {}]
Call(op, ids, holds) ==
    [op |-> op, ids |-> ids, holds |-> holds, at |-> currentGroup, latest |-> op = "load", ph |-> "sent", ans |-> {}]

\* Mistake: an older load still counts.
Superseded_Not(S) == S

Superseded(S) == {[d EXCEPT !.latest = FALSE] : d \in S}

\* holds: a change waits for the load, and holds the buttons until then.
loadGroups(g, holds, rest) ==
    /\ loading' = TRUE /\ loaded' = FALSE /\ unsure' = FALSE
    /\ running' = Superseded(rest) \cup {[Call("load", {}, holds) EXCEPT !.at = g]}

Init ==
    /\ currentGroup \in Groups
    /\ \E S \in SUBSET Ids : catalog = [g \in Groups |-> IF g = currentGroup THEN S ELSE {}]
    /\ groups = {} /\ selected = {}
    /\ loading = TRUE /\ saving = FALSE /\ dialog = Quiet
    /\ running = {Call("load", {}, FALSE)}
    /\ loaded = FALSE /\ unsure = FALSE /\ acts = 0 /\ mishaps = 0

-----------------------------------------------------------------------------
Room == Cardinality(running) < MaxCalls
Mishap == mishaps < MaxMishaps /\ mishaps' = mishaps + 1
Act  == dialog = Quiet /\ Room /\ acts < MaxActs /\ acts' = acts + 1 /\ UNCHANGED mishaps

\* Calls still under way go on with the token of the new group.
Switch(g) ==
    /\ Act /\ g # currentGroup /\ currentGroup' = g
    /\ loadGroups(g, FALSE, running)
    /\ UNCHANGED <<catalog, groups, selected, saving, dialog>>

Mutates(c) == saving' = TRUE /\ running' = running \cup {c}

\* The button is held by a change, the Enter key is not.
createGroup ==
    /\ Act /\ ~loading /\ Mutates(Call("create", {}, TRUE))
    /\ UNCHANGED <<catalog, currentGroup, groups, selected, loading, dialog, loaded, unsure>>

updateGroup(id) ==
    /\ Act /\ ~loading /\ ~saving /\ id \in groups /\ Mutates(Call("update", {id}, TRUE))
    /\ UNCHANGED <<catalog, currentGroup, groups, selected, loading, dialog, loaded, unsure>>

toggleGroupSelection(id) ==
    /\ Act /\ ~loading /\ ~saving /\ id \in groups
    /\ selected' = IF id \in selected THEN selected \ {id} ELSE selected \cup {id}
    /\ UNCHANGED <<catalog, currentGroup, groups, loading, saving, dialog, running, loaded, unsure>>

toggleAllGroups(checked) ==
    /\ Act /\ ~loading /\ ~saving /\ groups # {} /\ selected' = IF checked THEN groups ELSE {}
    /\ UNCHANGED <<catalog, currentGroup, groups, loading, saving, dialog, running, loaded, unsure>>

\* deleteGroup, and deleteSelectedGroups: what is deleted is taken before the dialog.
AskDelete(d) ==
    /\ Act /\ ~loading /\ ~saving /\ d.ids # {} /\ d.ids \subseteq groups
    /\ d.op = "deleteSelected" => d.ids = selected
    /\ dialog' = d
    /\ UNCHANGED <<catalog, currentGroup, groups, selected, loading, saving, running, loaded, unsure>>

Confirm(yes) ==
    /\ dialog # Quiet /\ Room /\ dialog' = Quiet
    /\ IF yes THEN Mutates(Call(dialog.op, dialog.ids, TRUE))
       ELSE UNCHANGED <<saving, running>>
    /\ UNCHANGED <<catalog, currentGroup, groups, selected, loading, loaded, unsure, bounds>>

-----------------------------------------------------------------------------
(* The server, which finds a ministry in the group of the token only.       *)
OtherCalls(c) == running \ {c}
Answered(c, ph, ans) ==
    /\ c.ph = "sent" /\ running' = OtherCalls(c) \cup {[c EXCEPT !.ph = ph, !.ans = ans]}
    /\ UNCHANGED <<currentGroup, groups, selected, loading, saving, dialog, loaded, acts>>

ServeLoad(c) ==
    /\ c.op = "load" /\ Answered(c, "ok", catalog[c.at]) /\ UNCHANGED <<catalog, unsure, mishaps>>

\* The server stores the change and its answer comes, or is lost on its way.
Served(c, stored, done) ==
    /\ catalog' = [catalog EXCEPT ![c.at] = stored]
    /\ \/ Answered(c, "ok", done) /\ UNCHANGED <<unsure, mishaps>>
       \/ Mishap /\ unsure' = TRUE /\ Answered(c, "error", {})

ServeCreate(c) == c.op = "create" /\ \E id \in Free : Served(c, catalog[c.at] \cup {id}, {})

ServeUpdate(c) == c.op = "update" /\ c.ids \subseteq catalog[c.at] /\ Served(c, catalog[c.at], {})

\* One of several after another.
ServeDelete(c) ==
    c.op \in Deletes /\ \E id \in c.ids \cap catalog[c.at] : Served(c, catalog[c.at] \ {id}, {id})

Refuse(c) ==
    /\ IF c.op \in Deletes \cup {"update"} /\ c.ids \cap catalog[c.at] = {} THEN UNCHANGED mishaps
       ELSE Mishap
    /\ Answered(c, "error", {}) /\ UNCHANGED <<catalog, unsure>>

-----------------------------------------------------------------------------
(* The answers.                                                             *)
LoadDone(c) ==
    /\ c.op = "load" /\ c.ph \in {"ok", "error"} /\ running' = OtherCalls(c)
    /\ IF c.ph = "ok" /\ c.latest THEN groups' = c.ans /\ selected' = selected \cap c.ans /\ loaded' = TRUE
       ELSE UNCHANGED <<groups, selected, loaded>>
    /\ loading' = (loading /\ ~c.latest) /\ saving' = (saving /\ ~c.holds)
    /\ UNCHANGED <<catalog, currentGroup, dialog, unsure, bounds>>

\* Mistake: a deletion that fails half way does not load the list.
Reloads_WhenDone(c) == c.ph = "ok"

\* Several deletions load the list even when one of them failed.
Reloads(c) == c.ph = "ok" \/ c.op = "deleteSelected"

\* The next deletion goes with the token there is by then.
ChangeDone(c) ==
    /\ c.op # "load" /\ c.ph \in {"ok", "error"}
    /\ LET left == c.ids \ c.ans IN
       IF c.op \in Deletes /\ c.ph = "ok" /\ left # {}
       THEN running' = OtherCalls(c) \cup {Call(c.op, left, TRUE)} /\ UNCHANGED <<loading, saving, loaded, unsure>>
       ELSE IF Reloads(c) THEN loadGroups(currentGroup, TRUE, OtherCalls(c)) /\ UNCHANGED saving
       ELSE running' = OtherCalls(c) /\ saving' = FALSE /\ UNCHANGED <<loading, loaded, unsure>>
    /\ UNCHANGED <<catalog, currentGroup, groups, selected, dialog, bounds>>

Next ==
    \/ \E g \in Groups : Switch(g)
    \/ createGroup
    \/ \E id \in Ids : updateGroup(id) \/ toggleGroupSelection(id)
    \/ \E b \in BOOLEAN : toggleAllGroups(b) \/ Confirm(b)
    \/ \E id \in Ids : AskDelete([op |-> "delete", ids |-> {id}])
    \/ AskDelete([op |-> "deleteSelected", ids |-> selected])
    \/ \E c \in running : ServeLoad(c) \/ ServeCreate(c) \/ ServeUpdate(c) \/ ServeDelete(c) \/ Refuse(c)
    \/ \E c \in running : LoadDone(c) \/ ChangeDone(c)

Spec == Init /\ [][Next]_vars

-----------------------------------------------------------------------------
\* Types: what is ticked, listed or asked about are items of the catalogue.
TypeOK ==
    /\ catalog \in [Groups -> SUBSET Ids] /\ currentGroup \in Groups /\ groups \subseteq Ids
    /\ selected \subseteq Ids /\ loading \in BOOLEAN /\ saving \in BOOLEAN /\ dialog.ids \subseteq Ids
    /\ loaded \in BOOLEAN /\ unsure \in BOOLEAN

\* With nothing under way and the list loaded it is the server's list of the group, own
\* changes and those that failed half way included, and only listed ones are selected.  After a
\* single change whose answer was lost it may be the list before the change, until it is loaded.
CatalogIsCurrent ==
    running = {} /\ loaded => (unsure \/ groups = catalog[currentGroup]) /\ selected \subseteq groups

\* The list and the buttons are free again when nothing is under way.
CatalogUnlocks == running = {} => ~loading /\ ~saving
=============================================================================
