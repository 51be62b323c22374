----------------------------- MODULE Governance -----------------------------
(***************************************************************************)
(* The resource library of the admin page: ResourceGovernance.vue.  Its    *)
(* three lists, the graph of dependencies, the selection and the dialogs   *)
(* are of one study group; contextRevision, governanceRequest and          *)
(* graphRequest decide which answers count.  A call that runs carries      *)
(* whether each of the three is still the one it captured.                 *)
(*                                                                         *)
(* Resources are not told apart: a dialog, a selection and a request carry *)
(* the group on whose page they were made.  The three lists, which are     *)
(* asked for and awaited together, are one answer, and so are reloadApp    *)
(* and loadAdminData, whose own state is that of ClientSession and         *)
(* LearningEditor.                                                         *)
(***************************************************************************)
EXTENDS Naturals, FiniteSets

CONSTANTS
    Groups, None, Filters,
    MaxActs,                        \* things the administrator does and mishaps, together
    MaxMishaps, MaxCalls

VARIABLES
    group,                          \* contextKey
    library,                        \* server: how often each group's library was changed
    lists, graph,                   \* what is shown: of which group, how old, which filters
    filter, ticked, dialogs,        \* the filters of the graph, the selection, the dialogs
    loading, refreshing, batchBusy, renaming, changing, confirming,
    running,
    own, missed,                    \* the last acknowledged change; a request failed
    acts, mishaps

shown  == <<lists, graph>>
forms  == <<filter, ticked, dialogs>>
busy   == <<loading, refreshing, batchBusy, renaming, changing, confirming>>
ghost  == <<own, missed>>
bounds == <<acts, mishaps>>
vars   == <<group, library, shown, forms, busy, running, ghost, bounds>>

\* The type is a filter of the graph and of the shared list; asked: the one there was when
\* the graph was last asked for.
Types   == {"all", "one"}
Choices == [strength : Filters, type : Types, asked : Types]

Dialogs == {"share", "batchShare", "batchDelete", "batchImport", "category", "import"}
Batches == {"batchShare", "batchDelete", "batchImport"}
Ticks   == {"owned", "shared"}
NoTicks == [s \in Ticks |-> None]
\* The list whose selection a batch is for.
ListOf(op) == IF op = "batchImport" THEN "shared" ELSE "owned"
NoLists == [g |-> None, v |-> 0]
NoGraph == [g |-> None, v |-> 0, f |-> [strength |-> None, type |-> None, asked |-> None]]
Closed  == [d \in Dialogs |-> None]

\* cur: contextRevision, lnew: governanceRequest, gnew: graphRequest are what they were.
Call(op, stage) ==
    [op |-> op, g |-> group, stage |-> stage, at |-> group, ph |-> "sent", v |-> 0, f |-> None,
     cur |-> TRUE, lnew |-> FALSE, gnew |-> FALSE]
Stage(c, stage) == [c EXCEPT !.stage = stage, !.at = group, !.ph = "sent", !.v = 0]
OtherCalls(c)   == running \ {c}
\* The dialog and the locks of a batch of categories are those of a single one.
Batched(op)     == op \in Batches \cup {"batchCategory"}
DialogOf(op)    == IF op = "batchCategory" THEN "category" ELSE op

Room   == Cardinality(running) < MaxCalls
Act    == acts + mishaps < MaxActs /\ acts' = acts + 1 /\ UNCHANGED <<library, mishaps, ghost>>
Mishap == acts + mishaps < MaxActs /\ mishaps < MaxMishaps /\ mishaps' = mishaps + 1

-----------------------------------------------------------------------------
(* loadGovernance and loadGraph, by call c, beside the calls S.             *)
LoadLists(c, S) ==
    /\ running' = {[d EXCEPT !.lnew = FALSE] : d \in S} \cup {[Stage(c, "lists") EXCEPT !.lnew = TRUE]}
    /\ loading' = TRUE

LoadGraph(c, S, f) ==
    /\ filter' = [f EXCEPT !.asked = f.type]
    /\ running' = {[d EXCEPT !.gnew = FALSE] : d \in S}
                    \cup {[Stage(c, "graph") EXCEPT !.gnew = TRUE, !.f = filter']}

Init ==
    /\ group = CHOOSE g \in Groups : TRUE    \* one is like the other
    /\ library = [g \in Groups |-> 1]
    /\ lists = NoLists /\ graph = NoGraph
    /\ filter \in [strength : Filters, type : {"all"}, asked : {"all"}] /\ ticked = NoTicks /\ dialogs = Closed
    /\ refreshing = FALSE /\ batchBusy = FALSE /\ renaming = FALSE /\ changing = FALSE
    /\ confirming = FALSE /\ loading = TRUE
    /\ running = {[Call("load", "lists") EXCEPT !.lnew = TRUE]}
    /\ own = [g \in Groups |-> 0] /\ missed = FALSE
    /\ acts = 0 /\ mishaps = 0

-----------------------------------------------------------------------------
(* The administrator.                                                       *)
refreshResources ==
    /\ Act /\ Room /\ ~refreshing /\ ~loading /\ refreshing' = TRUE
    /\ running' = running \cup {Call("refresh", "app")}
    /\ UNCHANGED <<group, shown, forms, loading, batchBusy, renaming, changing, confirming>>

\* The watch on the strength, the depth and the group of the graph, and the type chosen above
\* the graph; the graph is asked for with all of them.
SetFilter(f) ==
    /\ Act /\ Room /\ ~loading /\ <<f.strength, f.type>> # <<filter.strength, filter.type>>
    /\ LoadGraph(Call("filter", "graph"), running, f)
    /\ UNCHANGED <<group, shown, ticked, dialogs, busy>>

\* The same type chosen above the shared list, which the watch does not follow.
SetType(t) ==
    /\ Act /\ ~loading /\ t # filter.type /\ filter' = [filter EXCEPT !.type = t]
    /\ UNCHANGED <<group, shown, ticked, dialogs, busy, running>>

Ticked(s, g) ==
    /\ Act /\ ~loading /\ ticked[s] # g /\ ticked' = [ticked EXCEPT ![s] = g]
    /\ UNCHANGED <<group, shown, filter, dialogs, busy, running>>

\* The resources of the group are those of the app, the shared ones are read here.
setAssetSelected    == Ticked("owned", group)
setSharedSelected   == lists # NoLists /\ Ticked("shared", group)
clearAssetSelection == ~batchBusy /\ \E s \in Ticks : Ticked(s, None)

OpenDialog(d, g) == dialogs' = [dialogs EXCEPT ![d] = g]

\* The batch dialogs keep the resources that were ticked when they were opened.
OpenBatch(d)       == ticked[ListOf(d)] # None /\ ~batchBusy /\ OpenDialog(d, ticked[ListOf(d)])
openBatchShare     == OpenBatch("batchShare")
openBatchDelete    == OpenBatch("batchDelete")
openBatchImport    == OpenBatch("batchImport")
openCategoryDialog == OpenDialog("category", group)
openImport         == lists # NoLists /\ dialogs["import"] = None /\ OpenDialog("import", lists.g)

Opens ==
    /\ Act /\ ~loading
    /\ \/ /\ openBatchShare \/ openBatchDelete \/ openBatchImport \/ openCategoryDialog
          /\ UNCHANGED confirming
       \/ openImport /\ confirming' = FALSE
    /\ UNCHANGED <<group, shown, filter, ticked, loading, refreshing, batchBusy, renaming, changing, running>>

\* The backdrop, or the cross of an import, closes a dialog while it is being saved.
Dismiss(d) ==
    /\ dialogs[d] # None /\ OpenDialog(d, None)
    /\ confirming' = (confirming /\ d # "import")
    /\ UNCHANGED <<group, library, shown, filter, ticked, loading, refreshing, batchBusy, renaming, changing>>
    /\ UNCHANGED <<running, ghost, bounds>>

Reads(op) ==
    /\ Act /\ Room /\ running' = running \cup {Call(op, "read")}
    /\ UNCHANGED <<group, shown, forms, busy>>

\* openShare asks before it shows its dialog, an import before its next step.
openShare  == ~loading /\ Reads("sharing")
importNext == dialogs["import"] # None /\ ~confirming /\ Reads("preview")

\* A dialog is saved for the resources it was opened with.
Saves(d, op) ==
    /\ dialogs[d] # None /\ Act /\ Room
    /\ running' = running \cup {[Call(op, "api") EXCEPT !.g = dialogs[d]]}
    /\ UNCHANGED <<group, shown, forms, loading, refreshing, renaming>>

saveShare          == Saves("share", "share") /\ UNCHANGED <<batchBusy, changing, confirming>>
SaveBatch(d)       == ~batchBusy /\ batchBusy' = TRUE /\ Saves(d, d) /\ UNCHANGED <<changing, confirming>>
saveBatchShare     == SaveBatch("batchShare")
confirmBatchDelete == SaveBatch("batchDelete")
confirmBatchImport == SaveBatch("batchImport")
confirmImport ==
    ~confirming /\ confirming' = TRUE /\ Saves("import", "import") /\ UNCHANGED <<batchBusy, changing>>

\* A batch of categories, which takes the locks of both, is opened and saved at once.
saveAssetCategory ==
    /\ ~changing /\ changing' = TRUE
    /\ \/ Saves("category", "category") /\ UNCHANGED <<batchBusy, confirming>>
       \/ /\ Act /\ Room /\ ~loading /\ ticked["owned"] # None /\ ~batchBusy /\ batchBusy' = TRUE
          /\ running' = running \cup {[Call("batchCategory", "api") EXCEPT !.g = ticked["owned"]]}
          /\ OpenDialog("category", ticked["owned"])
          /\ UNCHANGED <<group, shown, filter, ticked, loading, refreshing, renaming, confirming>>

\* renameAsset asks for the name and removeImport for a confirmation; one question at a time.
Ask(op) ==
    /\ Act /\ Room /\ ~loading /\ (op = "rename" => ~renaming)
    /\ running' = {c \in running : c.ph # "asked"} \cup {[Call(op, "api") EXCEPT !.ph = "asked"]}
    /\ UNCHANGED <<group, shown, forms, busy>>

\* Mistake: the page that asked may be of another group by the time of the answer.
Stands_Whenever(c) == TRUE

\* revision === contextRevision, after the dialog.
Stands(c) == c.cur

Answer(c) ==
    /\ c.ph = "asked"
    /\ \/ running' = OtherCalls(c) /\ UNCHANGED renaming
       \/ /\ Stands(c)
          /\ running' = OtherCalls(c) \cup {Stage(c, "api")}
          /\ renaming' = (renaming \/ c.op = "rename")
    /\ UNCHANGED <<group, library, shown, forms, loading, refreshing, batchBusy, changing, confirming, ghost, bounds>>

setResourceDownloads ==
    /\ Act /\ Room
    /\ running' = running \cup {Call("download", "api")}
    /\ UNCHANGED <<group, shown, forms, busy>>

-----------------------------------------------------------------------------
(* The watch on the account and the group.  Requests the server has not    *)
(* seen end with the session that was replaced.                             *)
Switch(g) ==
    /\ g # group /\ Act /\ group' = g
    /\ lists' = NoLists /\ graph' = NoGraph /\ ticked' = NoTicks /\ dialogs' = Closed
    /\ refreshing' = FALSE /\ batchBusy' = FALSE /\ renaming' = FALSE /\ changing' = FALSE
    /\ confirming' = FALSE /\ loading' = TRUE
    /\ running' = {[c EXCEPT !.cur = FALSE, !.lnew = FALSE, !.gnew = FALSE, !.f = None,
                              !.ph = IF @ = "sent" THEN "error" ELSE @] : c \in running}
                    \cup {[Call("load", "lists") EXCEPT !.g = g, !.at = g, !.lnew = TRUE]}
    /\ UNCHANGED filter

-----------------------------------------------------------------------------
(* The server.                                                              *)
Answered(c, ph, v) ==
    /\ c.ph = "sent" /\ running' = OtherCalls(c) \cup {[c EXCEPT !.ph = ph, !.v = v]}
    /\ UNCHANGED <<group, shown, forms, busy, acts>>

ServeRead(c) ==
    /\ c.stage # "api" /\ Answered(c, "ok", IF c.stage \in {"lists", "graph"} THEN library[c.at] ELSE 0)
    /\ UNCHANGED <<library, mishaps, ghost>>

\* A resource is found in its own group only, one that is in use is not removed.
ServeChange(c) ==
    /\ c.stage = "api"
    /\ \/ /\ c.g = c.at /\ library' = [library EXCEPT ![c.g] = IF c.op = "download" THEN @ ELSE @ + 1]
          /\ Answered(c, "ok", library'[c.g])
       \/ (c.g # c.at \/ c.op \in {"batchDelete", "batchImport", "remove"}) /\ Answered(c, "error", 0) /\ UNCHANGED library
    /\ UNCHANGED <<mishaps, ghost>>

\* The call, or the answer of a change that was stored.
Lost(c) ==
    /\ Mishap /\ Answered(c, "error", 0) /\ UNCHANGED ghost
    /\ \/ UNCHANGED library
       \/ /\ c.stage = "api" /\ c.g = c.at /\ c.op # "download"
          /\ library' = [library EXCEPT ![c.g] = @ + 1]

OtherChanges(g) ==
    /\ Mishap
    /\ library' = [library EXCEPT ![g] = @ + 1]
    /\ UNCHANGED <<group, shown, forms, busy, running, ghost, acts>>

-----------------------------------------------------------------------------
(* The answers.                                                             *)
Page == <<group, library, bounds>>

\* Mistake: the locks go only with a change that was saved.
Frees_WhenSaved(c) == c.cur /\ c.ph = "ok"

\* The finally clauses: nothing is released for another context.
Frees(c) == c.cur

Released(c) ==
    /\ refreshing' = (refreshing /\ ~(Frees(c) /\ c.op = "refresh"))
    /\ batchBusy'  = (batchBusy /\ ~(Frees(c) /\ DialogOf(c.op) \in Batches \cup {"category"}))
    /\ renaming'   = (renaming /\ ~(Frees(c) /\ c.op = "rename"))
    /\ changing'   = (changing /\ ~(Frees(c) /\ DialogOf(c.op) = "category"))
    /\ confirming' = (confirming /\ ~(Frees(c) /\ c.op = "import"))
Ends(c) == running' = OtherCalls(c) /\ Released(c)

\* The context was left while the request was under way, or the request failed.
Dropped(c) ==
    /\ c.ph \in {"ok", "error"} /\ c.stage \in {"read", "api", "app"}
    /\ ~c.cur \/ c.ph = "error"
    /\ Ends(c)
    /\ own' = [own EXCEPT ![c.g] = IF c.stage = "api" /\ c.ph = "ok" /\ c.op # "download" THEN c.v ELSE @]
    /\ missed' = (missed \/ (c.cur /\ c.stage = "app"))
    /\ UNCHANGED <<Page, shown, forms, loading>>

\* Mistake: openShare does not look whether the page is still that of the group.
Current_Not(c) == TRUE

Current(c) == c.cur

SharingRead(c) ==
    /\ c.stage = "read" /\ c.ph = "ok" /\ Current(c)
    /\ dialogs' = IF c.op = "sharing" THEN [dialogs EXCEPT !["share"] = c.g] ELSE dialogs
    /\ Ends(c)
    /\ UNCHANGED <<Page, shown, filter, ticked, loading, ghost>>

\* A change was saved: its dialog goes, a batch's selection goes, and all but the
\* sharing dialogs reload the app first.
Changed(c) ==
    /\ c.stage = "api" /\ c.ph = "ok" /\ c.cur
    /\ own' = [own EXCEPT ![c.g] = IF c.op = "download" THEN @ ELSE c.v]
    /\ dialogs' = IF DialogOf(c.op) \in Dialogs THEN [dialogs EXCEPT ![DialogOf(c.op)] = None] ELSE dialogs
    /\ ticked' = IF Batched(c.op) THEN [ticked EXCEPT ![ListOf(c.op)] = None] ELSE ticked
    /\ IF c.op \in {"share", "batchShare"} THEN LoadLists(c, OtherCalls(c))
       ELSE running' = OtherCalls(c) \cup {Stage(c, "app")} /\ UNCHANGED loading
    /\ UNCHANGED <<Page, shown, filter, refreshing, batchBusy, renaming, changing, confirming, missed>>

AppReloaded(c) ==
    /\ c.stage = "app" /\ c.ph = "ok" /\ c.cur
    /\ IF c.op = "download" THEN Ends(c) /\ UNCHANGED loading
       ELSE LoadLists(c, OtherCalls(c)) /\ UNCHANGED <<refreshing, batchBusy, renaming, changing, confirming>>
    /\ UNCHANGED <<Page, shown, forms, ghost>>

\* Mistake: a list that was asked for earlier is shown after a later one.
Newest_Not(c) == c.cur

Newest(c) == c.cur /\ c.lnew

ListsDone(c) ==
    /\ c.stage = "lists" /\ c.ph = "ok" /\ Newest(c)
    /\ lists' = [g |-> c.at, v |-> c.v]
    /\ LoadGraph(c, OtherCalls(c), filter)
    /\ UNCHANGED <<Page, graph, ticked, dialogs, busy, ghost>>

ListsFail(c) ==
    /\ c.stage = "lists" /\ c.ph \in {"ok", "error"} /\ (c.ph = "error" \/ ~Newest(c))
    /\ Ends(c) /\ loading' = (loading /\ ~(c.cur /\ c.lnew))
    /\ missed' = (missed \/ (c.ph = "error" /\ c.cur))
    /\ UNCHANGED <<Page, shown, forms, own>>

\* Mistake: whatever graph comes last is shown.
LastAsked_Not(c) == c.cur

LastAsked(c) == c.cur /\ c.gnew

GraphDone(c) ==
    /\ c.stage = "graph" /\ c.ph \in {"ok", "error"}
    /\ graph' = IF ~LastAsked(c) THEN graph
                ELSE IF c.ph = "error" THEN NoGraph ELSE [g |-> c.at, v |-> c.v, f |-> c.f]
    /\ Ends(c) /\ loading' = (loading /\ ~(c.cur /\ c.lnew))
    /\ missed' = (missed \/ (c.ph = "error" /\ c.cur))
    /\ UNCHANGED <<Page, lists, forms, own>>

-----------------------------------------------------------------------------
Local ==
    \/ refreshResources \/ setResourceDownloads
    \/ setAssetSelected \/ setSharedSelected \/ clearAssetSelection \/ Opens \/ openShare \/ importNext
    \/ saveShare \/ saveBatchShare \/ confirmBatchDelete \/ confirmBatchImport
    \/ saveAssetCategory \/ confirmImport
    \/ \E f \in Choices : SetFilter(f)
    \/ \E t \in Types : SetType(t)
    \/ \E d \in Dialogs : Dismiss(d)
    \/ \E op \in {"rename", "remove"} : Ask(op)
    \/ \E c \in running : Answer(c) \/ ServeRead(c) \/ ServeChange(c) \/ Lost(c)
    \/ \E c \in running : Dropped(c) \/ SharingRead(c) \/ Changed(c) \/ AppReloaded(c)
    \/ \E c \in running : ListsDone(c) \/ ListsFail(c) \/ GraphDone(c)
    \/ \E g \in Groups : OtherChanges(g)

Next == Local \/ \E g \in Groups : Switch(g)

Spec == Init /\ [][Next]_vars

-----------------------------------------------------------------------------
\* Types: lists, ticks and dialogs are of a group or of none.
TypeOK ==
    /\ group \in Groups /\ library \in [Groups -> Nat] /\ filter \in Choices
    /\ lists.g \in Groups \cup {None} /\ graph.g \in Groups \cup {None}
    /\ ticked \in [Ticks -> Groups \cup {None}] /\ dialogs \in [Dialogs -> Groups \cup {None}]
    /\ \A b \in {loading, refreshing, batchBusy, renaming, changing, confirming} : b \in BOOLEAN

\* Whatever was asked for before the group was left, the lists, the graph, the selection
\* and every dialog on the page are of the group the administrator is in.
GovernanceOfGroup ==
    /\ lists.g \in {None, group} /\ graph.g \in {None, group} /\ \A s \in Ticks : ticked[s] \in {None, group}
    /\ \A d \in Dialogs : dialogs[d] \in {None, group}

\* No change of one group's resources is sent with the session of another, however long
\* the dialog it was confirmed in was open.
ChangesStayInGroup ==
    \A c \in running : c.stage = "api" /\ c.ph = "sent" => c.g = c.at

\* With nothing under way and no failure, the lists have the administrator's last
\* acknowledged change.
LibraryIsCurrent ==
    running = {} /\ ~missed => lists.g = group /\ lists.v >= own[group]

\* The graph is then of the strength, depth and group that are set, and of the type that was
\* set when it was last asked for: one chosen above the shared list since is not followed
\* (ResourceGovernance.vue:702), so the graph may be of another type than its own filter says.
GraphIsOfFilters ==
    running = {} /\ ~missed => graph.f.strength = filter.strength /\ graph.f.type = filter.asked

\* loading, refreshing and the locks of the dialogs go with what they stand for.
LocksEnd ==
    running = {} => ~loading /\ ~refreshing /\ ~batchBusy /\ ~renaming /\ ~changing /\ ~confirming
=============================================================================
