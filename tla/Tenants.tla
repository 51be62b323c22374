------------------------------- MODULE Tenants -------------------------------
(***************************************************************************)
(* The administration of homes (tenants): TenantManagement.vue, as a super *)
(* administrator sees it.  One home is managed at a time; what is listed   *)
(* of it is loaded anew after every choice and every change, and an answer *)
(* counts while the load is the latest and the home is the same.  Creating *)
(* a home chooses it when its answer comes, whatever is going on then.  A  *)
(* change whose answer is lost after the server stored it is taken for     *)
(* refused and loads nothing: what is listed is unsure until a load.       *)
(*                                                                         *)
(* A home has one administrator, named like it.  Names are what home they  *)
(* were given to: a name loaded from one home may be saved for another.    *)
(* Left out: passwords, and the reload of the application after a change.  *)
(***************************************************************************)
EXTENDS Naturals, FiniteSets

CONSTANTS
    Homes, StudyGroups, None,
    AtStart,                  \* AtStart[g]: the home of a group, None for one to come
    Existing,                 \* the homes there are
    MaxActs, MaxMishaps, MaxCalls

VARIABLES
    exists, home, names,             \* server: homes, the home of a group, the name of a home
    current,                         \* the home of the session
    managed, tenants, groups, moveTargets, editName,
    editing, savingAdmin, loading,   \* the home whose administrator is edited
    dialog,                          \* what has to be confirmed
    running,
    hasty, unsure,                   \* a name was saved before it was loaded; a stored change was lost
    acts, mishaps

server == <<exists, home, names>>
lists  == <<tenants, groups, moveTargets, editName>>
bounds == <<acts, mishaps>>
vars   == <<server, current, managed, lists, editing, savingAdmin, loading, dialog, running, hasty, unsure, bounds>>

In(h)   == {g \in StudyGroups : home[g] = h}
Quiet   == [op |-> None, t |-> None, g |-> None]
Nothing == [tenants |-> {}, groups |-> {}, name |-> None]
Call(op, t, g) == [op |-> op, t |-> t, g |-> g, name |-> None, latest |-> op = "load", ph |-> "sent", ans |-> Nothing]

Init ==
    /\ exists = Existing /\ home = AtStart
    /\ names = [h \in Homes |-> h]
    /\ current \in {home[g] : g \in StudyGroups} \ {None}
    /\ managed = current /\ tenants = {} /\ groups = {}
    /\ moveTargets = [g \in StudyGroups |-> None] /\ editName = None
    /\ editing = None /\ savingAdmin = FALSE /\ loading = TRUE /\ dialog = Quiet
    /\ running = {Call("load", current, None)}
    /\ hasty = FALSE /\ unsure = FALSE /\ acts = 0 /\ mishaps = 0

-----------------------------------------------------------------------------
(* What the administrator does; a dialog that is open is answered first.    *)
Room == Cardinality(running) < MaxCalls
Act  == /\ dialog = Quiet /\ Room
        /\ acts < MaxActs /\ acts' = acts + 1 /\ UNCHANGED <<server, current, mishaps>>

\* Mistake: an older load still counts as the latest.
Superseded_Not(S) == S

Superseded(S) == {[d EXCEPT !.latest = FALSE] : d \in S}

load(t, rest) ==
    /\ loading' = TRUE /\ groups' = {} /\ unsure' = FALSE
    /\ running' = Superseded(rest) \cup {Call("load", t, None)}

Ask(c) == running' = running \cup {c} /\ UNCHANGED unsure

\* Mistake: the form of the administrator stays open.
Closed_Not(t) == editing

\* The watch of the managed home.
Closed(t) == IF t = managed THEN editing ELSE None

Select(t) ==
    /\ Act /\ t \in tenants \cup {None} /\ t # managed /\ managed' = t
    /\ editing' = Closed(t) /\ load(t, running)
    /\ UNCHANGED <<tenants, moveTargets, editName, savingAdmin, dialog, hasty>>

createTenant ==
    /\ Act /\ Ask(Call("create", None, None))
    /\ UNCHANGED <<managed, lists, editing, savingAdmin, loading, dialog, hasty>>

createGroup ==
    /\ Act /\ managed # None /\ Ask(Call("group", managed, None))
    /\ UNCHANGED <<managed, lists, editing, savingAdmin, loading, dialog, hasty>>

createAdmin ==
    /\ Act /\ managed # None /\ Ask(Call("admin", managed, None))
    /\ UNCHANGED <<managed, lists, editing, savingAdmin, loading, dialog, hasty>>

\* The name is the one that was loaded, or typed for this home.
updateTenant(name) ==
    /\ Act /\ managed \in tenants /\ name \in {editName, managed} \ {None}
    /\ Ask([Call("rename", managed, None) EXCEPT !.name = name])
    /\ hasty' = (hasty \/ name # managed)
    /\ UNCHANGED <<managed, lists, editing, savingAdmin, loading, dialog>>

\* What deletes a home, and what moves a group to another, is confirmed.
AskDelete ==
    /\ Act /\ managed \in tenants /\ groups = {} /\ ~loading
    /\ dialog' = [op |-> "delete", t |-> managed, g |-> None]
    /\ UNCHANGED <<managed, lists, editing, savingAdmin, loading, running, hasty, unsure>>

AskMove(g, t) ==
    /\ Act /\ g \in groups /\ t \in tenants \ {moveTargets[g]}
    /\ moveTargets' = [moveTargets EXCEPT ![g] = t]
    /\ dialog' = IF t = managed THEN Quiet ELSE [op |-> "move", t |-> t, g |-> g]
    /\ UNCHANGED <<managed, tenants, groups, editName, editing, savingAdmin, loading, running, hasty, unsure>>

editAdmin ==
    /\ Act /\ managed # None /\ ~loading /\ editing' = IF editing = managed THEN None ELSE managed
    /\ UNCHANGED <<managed, lists, savingAdmin, loading, dialog, running, hasty, unsure>>

updateAdmin ==
    /\ Act /\ editing # None /\ ~savingAdmin /\ savingAdmin' = TRUE
    /\ Ask(Call("adminEdit", managed, None))
    /\ UNCHANGED <<managed, lists, editing, loading, dialog, hasty>>

\* Mistake: the home of a group that was not moved stays where it was put.
Restored_Not(g) == moveTargets

Restored(g) == IF g = None THEN moveTargets ELSE [moveTargets EXCEPT ![g] = managed]

\* A home that is deleted is the one that is managed by then.
Confirm(yes) ==
    /\ dialog # Quiet /\ Room /\ dialog' = Quiet
    /\ CASE ~yes -> moveTargets' = Restored(dialog.g) /\ UNCHANGED <<running, unsure>>
         [] yes /\ dialog.op = "delete" -> Ask(Call("delete", managed, None)) /\ UNCHANGED moveTargets
         [] yes /\ dialog.op = "move" -> Ask(Call("move", dialog.t, dialog.g)) /\ UNCHANGED moveTargets
    /\ UNCHANGED <<server, current, managed, tenants, groups, editName, editing, savingAdmin, loading, hasty, bounds>>

-----------------------------------------------------------------------------
(* The server.                                                              *)
OtherCalls(c) == running \ {c}
Answered(c, ph, ans) ==
    /\ c.ph = "sent" /\ running' = OtherCalls(c) \cup {[c EXCEPT !.ph = ph, !.ans = ans]}
    /\ UNCHANGED <<current, managed, lists, editing, savingAdmin, loading, dialog, hasty, acts>>

ServeLoad(c) ==
    /\ c.op = "load" /\ c.t \in exists \cup {None}
    /\ Answered(c, "ok", [tenants |-> exists, groups |-> IF c.t = None THEN {} ELSE In(c.t),
                          name |-> IF c.t = None THEN None ELSE names[c.t]])
    /\ UNCHANGED <<server, unsure, mishaps>>

Mishap == mishaps < MaxMishaps /\ mishaps' = mishaps + 1

\* The answer of a change that is stored comes, or is lost on its way.
Stored(c, ans) ==
    \/ Answered(c, "ok", ans) /\ UNCHANGED <<unsure, mishaps>>
    \/ Answered(c, "error", Nothing) /\ unsure' = TRUE /\ Mishap

ServeCreate(c) ==
    /\ c.op = "create" /\ \E h \in Homes \ exists :
          exists' = exists \cup {h} /\ Stored(c, [Nothing EXCEPT !.name = h])
    /\ UNCHANGED <<home, names>>

ServeGroup(c) ==
    /\ c.op = "group" /\ c.t \in exists
    /\ \E g \in StudyGroups : home[g] = None /\ home' = [home EXCEPT ![g] = c.t]
    /\ Stored(c, Nothing) /\ UNCHANGED <<exists, names>>

ServeChange(c) ==
    /\ c.op \in {"rename", "delete", "move", "admin", "adminEdit"} /\ c.t \in exists
    /\ c.op = "delete" => In(c.t) = {}
    /\ exists' = IF c.op = "delete" THEN exists \ {c.t} ELSE exists
    /\ home'   = IF c.op = "move" THEN [home EXCEPT ![c.g] = c.t] ELSE home
    /\ names'  = IF c.op = "rename" THEN [names EXCEPT ![c.t] = c.name] ELSE names
    /\ Stored(c, Nothing)

\* Refused, as everything is of a home that is gone, or lost before it was stored.
Refuse(c) ==
    /\ IF c.t \in exists \cup {None} /\ ~(c.op = "delete" /\ In(c.t) # {})
       THEN Mishap ELSE UNCHANGED mishaps
    /\ Answered(c, "error", Nothing) /\ UNCHANGED <<server, unsure>>

-----------------------------------------------------------------------------
(* The answers.                                                             *)

\* Mistake: only the home is compared.
Counts_OfHome(c) == c.t = managed

Counts(c) == c.latest /\ c.t = managed

LoadDone(c) ==
    /\ c.op = "load" /\ c.ph \in {"ok", "error"} /\ running' = OtherCalls(c)
    /\ IF c.ph = "ok" /\ Counts(c)
       THEN /\ tenants' = c.ans.tenants /\ groups' = c.ans.groups
            /\ moveTargets' = [g \in StudyGroups |-> IF g \in c.ans.groups THEN c.t ELSE None]
            /\ editName' = IF c.t \in c.ans.tenants THEN c.ans.name ELSE None
       ELSE UNCHANGED lists
    /\ loading' = (loading /\ ~c.latest)
    /\ UNCHANGED <<server, current, managed, editing, savingAdmin, dialog, hasty, unsure, bounds>>

\* What is managed after a change, and the session's home.
Next_Home(c) == CASE c.op = "create" -> c.ans.name
                  [] c.op = "delete" -> IF current = managed THEN None ELSE current
                  [] OTHER -> managed

ChangeDone(c) ==
    /\ c.op \notin {"load"} /\ c.ph = "ok"
    /\ managed' = Next_Home(c) /\ load(managed', OtherCalls(c))
    /\ current' = IF c.op = "group" THEN c.t ELSE current
    /\ editing' = IF c.op = "adminEdit" THEN None ELSE Closed(managed')
    /\ savingAdmin' = (savingAdmin /\ c.op # "adminEdit")
    /\ UNCHANGED <<server, tenants, moveTargets, editName, dialog, hasty, bounds>>

ChangeFails(c) ==
    /\ c.op # "load" /\ c.ph = "error" /\ running' = OtherCalls(c)
    /\ moveTargets' = IF c.op = "move" THEN Restored(c.g) ELSE moveTargets
    /\ savingAdmin' = (savingAdmin /\ c.op # "adminEdit")
    /\ UNCHANGED <<server, current, managed, tenants, groups, editName, editing, loading, dialog, hasty, unsure, bounds>>

Next ==
    \/ \E t \in Homes \cup {None} : Select(t) \/ updateTenant(t)
    \/ createTenant \/ createGroup \/ createAdmin \/ AskDelete \/ editAdmin \/ updateAdmin
    \/ \E g \in StudyGroups, t \in Homes : AskMove(g, t)
    \/ \E yes \in BOOLEAN : Confirm(yes)
    \/ \E c \in running : ServeLoad(c) \/ ServeCreate(c) \/ ServeGroup(c) \/ ServeChange(c) \/ Refuse(c)
    \/ \E c \in running : LoadDone(c) \/ ChangeDone(c) \/ ChangeFails(c)

Spec == Init /\ [][Next]_vars

-----------------------------------------------------------------------------
\* Types: homes, their groups and the one that is managed exist or are none.
TypeOK ==
    /\ exists \subseteq Homes /\ home \in [StudyGroups -> Homes \cup {None}] /\ names \in [Homes -> Homes]
    /\ managed \in Homes \cup {None} /\ tenants \subseteq Homes /\ groups \subseteq StudyGroups
    /\ loading \in BOOLEAN /\ savingAdmin \in BOOLEAN /\ unsure \in BOOLEAN

\* With nothing under way every group listed is shown at the managed home, which a move that
\* failed put it back to.  The groups are those of that home and the name in the form is its own,
\* unless a change was stored and its answer lost since the last load.
ListsOfHome ==
    running = {} /\ dialog = Quiet /\ managed \in tenants /\ groups # {} =>
        /\ \A g \in groups : moveTargets[g] = managed
        /\ unsure \/ (groups = In(managed) /\ editName = names[managed])

\* The form of an administrator is open for one of the managed home only, so what is typed
\* is saved for that account.
FormOfHome == editing # None => editing = managed

\* A home has a name that was meant for it, unless it was saved while the names were loaded.
NamesAreOwn == hasty \/ \A h \in Homes : names[h] = h

\* The form is free and the list stops loading when nothing is under way.
HomesSettle == running = {} => ~loading /\ ~savingAdmin
=============================================================================
