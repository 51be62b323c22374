------------------------------ MODULE GroupAdmin ------------------------------
(***************************************************************************)
(* The members and study groups of AdminConsole.vue, as an administrator   *)
(* sees them: creating, renaming and deleting a group, and adding,         *)
(* promoting and removing members of the group that is open.               *)
(*                                                                         *)
(* A group that was created is opened once its alert is closed, whatever   *)
(* else is asked by then.  An account that exists already is offered as a  *)
(* member of the group that is open when the offer is taken up.            *)
(*                                                                         *)
(* A name stands for the group it was typed for.  The members of a group   *)
(* known to the page are `members'; they are loaded again after a change.  *)
(***************************************************************************)
EXTENDS Naturals, FiniteSets

CONSTANTS
    Users, StudyGroups, None,
    Existing,                       \* the groups there are, the first of them open
    MaxActs, MaxMishaps, MaxCalls

VARIABLES
    exists, names, memberOf, adminOf, accounts,     \* server
    current, members, admins,                       \* client: the open group and what is shown of it
    groupEditName, memberConflict, memberSaving, resettingMemberID,
    dialog, running,
    unsure,                         \* a load failed, or a change whose answer was lost took place
    acts, mishaps

server == <<exists, names, memberOf, adminOf, accounts>>
shown  == <<current, members, admins, groupEditName>>
locks  == <<memberSaving, resettingMemberID>>
bounds == <<acts, mishaps>>
vars   == <<server, shown, memberConflict, locks, dialog, running, unsure, bounds>>

Quiet    == [op |-> None, g |-> None, u |-> None]
Nothing  == [members |-> {}, admins |-> {}, g |-> None]
Call(op, g, u) == [op |-> op, g |-> g, u |-> u, at |-> current, name |-> None,
                   latest |-> op = "load", ph |-> "sent", ans |-> Nothing]

Init ==
    /\ exists = Existing /\ names = [g \in StudyGroups |-> g]
    /\ \E g \in Existing, own \in SUBSET Users :
          /\ current = g /\ memberOf = [h \in StudyGroups |-> IF h = g THEN own ELSE {}]
          /\ members = own
          /\ \E more \in SUBSET (Users \ own) : accounts = own \cup more
    /\ adminOf = [g \in StudyGroups |-> {}] /\ admins = {} /\ groupEditName = current
    /\ memberConflict = None /\ memberSaving = FALSE /\ resettingMemberID = None
    /\ dialog = Quiet /\ running = {} /\ unsure = FALSE
    /\ acts = 0 /\ mishaps = 0

-----------------------------------------------------------------------------
(* What the administrator does; an open dialog is answered first.           *)
Room == Cardinality(running) < MaxCalls

\* Mistake: the page behind a dialog can still be used.
Unasked_Any == TRUE

\* A dialog covers the page.
Unasked == dialog = Quiet

Act  == /\ Unasked /\ Room /\ acts < MaxActs /\ acts' = acts + 1
        /\ UNCHANGED <<server, current, members, admins, mishaps>>

Ask(c) == running' = running \cup {c}
Offer  == memberConflict # None

\* What was sent for the group that was left is refused: its token has ended.
Left(S) == {[c EXCEPT !.ph = IF @ = "sent" THEN "error" ELSE @, !.latest = FALSE] : c \in S}

\* Mistake: the field keeps the name of the group that was left.
Renamed_Not(g) == groupEditName

\* The watch of the open group; the field follows it.
Renamed(g) == g

switchGroup(g) ==
    /\ current' = g /\ members' = {} /\ admins' = {} /\ groupEditName' = Renamed(g)
    /\ running' = Left(running) \cup {[Call("load", g, None) EXCEPT !.at = g]}

Switch(g) ==
    /\ Unasked /\ ~Offer /\ Room /\ g \in exists \ {current}
    /\ acts < MaxActs /\ acts' = acts + 1 /\ switchGroup(g)
    /\ UNCHANGED <<server, memberConflict, locks, dialog, unsure, mishaps>>

createGroup ==
    /\ Act /\ ~Offer /\ Ask(Call("group", None, None))
    /\ UNCHANGED <<groupEditName, memberConflict, locks, dialog, unsure>>

updateCurrentGroup ==
    /\ Act /\ ~Offer /\ current # None
    /\ Ask([Call("rename", current, None) EXCEPT !.name = groupEditName])
    /\ UNCHANGED <<groupEditName, memberConflict, locks, dialog, unsure>>

\* The group is remembered before its name is asked for.
AskDelete ==
    /\ Act /\ ~Offer /\ current # None /\ dialog' = [op |-> "delete", g |-> current, u |-> None]
    /\ UNCHANGED <<groupEditName, memberConflict, locks, running, unsure>>

updateGroupPassword ==
    /\ Act /\ ~Offer /\ current # None /\ Ask(Call("password", current, None))
    /\ UNCHANGED <<groupEditName, memberConflict, locks, dialog, unsure>>

\* The button is disabled while another is saved, the key is not.
createMember(u) ==
    /\ Act /\ ~Offer /\ current # None
    /\ memberSaving' = TRUE /\ memberConflict' = None
    /\ Ask(Call("create", current, u))
    /\ UNCHANGED <<groupEditName, resettingMemberID, dialog, unsure>>

conflictCanBeAdded == Offer /\ memberConflict \notin members

confirmExistingMember ==
    /\ Act /\ conflictCanBeAdded /\ ~memberSaving /\ memberSaving' = TRUE
    /\ Ask(Call("add", current, memberConflict))
    /\ UNCHANGED <<groupEditName, memberConflict, resettingMemberID, dialog, unsure>>

editMemberUsername ==
    /\ Offer /\ memberConflict' = None
    /\ UNCHANGED <<server, shown, locks, dialog, running, unsure, bounds>>

\* A member's role is the opposite of the one shown.
setMemberAdmin(u) ==
    /\ Act /\ ~Offer /\ u \in members
    /\ Ask(Call(IF u \in admins THEN "demote" ELSE "promote", current, u))
    /\ UNCHANGED <<groupEditName, memberConflict, locks, dialog, unsure>>

AskOfMember(op, u) ==
    /\ Act /\ ~Offer /\ u \in members /\ (op = "reset" => resettingMemberID = None)
    /\ dialog' = [op |-> op, g |-> current, u |-> u]
    /\ UNCHANGED <<groupEditName, memberConflict, locks, running, unsure>>

\* A removal and a reset go to the group that is open by then; the alert of a group that
\* was created opens it, even when another dialog took its place.
Confirm(yes) ==
    /\ dialog # Quiet /\ Room /\ dialog' = Quiet
    /\ CASE dialog.op = "created" -> switchGroup(dialog.g) /\ UNCHANGED resettingMemberID
         [] dialog.op # "created" /\ yes ->
              /\ Ask(Call(dialog.op, IF dialog.op = "delete" THEN dialog.g ELSE current, dialog.u))
              /\ resettingMemberID' = IF dialog.op = "reset" THEN dialog.u ELSE resettingMemberID
              /\ UNCHANGED shown
         [] dialog.op # "created" /\ ~yes -> UNCHANGED <<shown, running, resettingMemberID>>
    /\ UNCHANGED <<server, memberConflict, memberSaving, unsure, bounds>>

-----------------------------------------------------------------------------
(* The server.                                                              *)

OtherCalls(c) == running \ {c}
Answered(c, ph, ans) ==
    /\ c.ph = "sent" /\ running' = OtherCalls(c) \cup {[c EXCEPT !.ph = ph, !.ans = ans]}
    /\ UNCHANGED <<shown, memberConflict, locks, dialog, acts>>

\* An answer is lost, or arrives.
Arrives(c, ans) ==
    \/ Answered(c, "ok", ans) /\ UNCHANGED <<unsure, mishaps>>
    \/ mishaps < MaxMishaps /\ mishaps' = mishaps + 1 /\ unsure' = TRUE /\ Answered(c, "error", Nothing)

ServeLoad(c) ==
    /\ c.op = "load" /\ UNCHANGED server
    /\ Arrives(c, IF c.g \in exists THEN [members |-> memberOf[c.g], admins |-> adminOf[c.g], g |-> c.g] ELSE Nothing)

ServeGroup(c) ==
    /\ c.op = "group" /\ \E g \in StudyGroups \ exists :
          exists' = exists \cup {g} /\ Arrives(c, [Nothing EXCEPT !.g = g])
    /\ UNCHANGED <<names, memberOf, adminOf, accounts>>

ServeOfGroup(c) ==
    /\ c.op \in {"rename", "delete", "password"} /\ c.g \in exists /\ Arrives(c, Nothing)
    /\ names'    = IF c.op = "rename" THEN [names EXCEPT ![c.g] = c.name] ELSE names
    /\ exists'   = IF c.op = "delete" THEN exists \ {c.g} ELSE exists
    /\ memberOf' = IF c.op = "delete" THEN [memberOf EXCEPT ![c.g] = {}] ELSE memberOf
    /\ adminOf'  = IF c.op = "delete" THEN [adminOf EXCEPT ![c.g] = {}] ELSE adminOf
    /\ UNCHANGED accounts

\* The server looks for a member in the group of the token only.
Possible(c) ==
    CASE c.op = "create" -> c.u \notin accounts
      [] c.op = "add" -> c.u \in accounts \ memberOf[c.g]
      [] OTHER -> c.u \in memberOf[c.g]

ServeOfMember(c) ==
    /\ c.op \in {"create", "add", "promote", "demote", "remove", "reset"} /\ c.g \in exists /\ Possible(c)
    /\ memberOf' = [memberOf EXCEPT ![c.g] = CASE c.op \in {"create", "add"} -> @ \cup {c.u}
                                               [] c.op = "remove" -> @ \ {c.u}
                                               [] OTHER -> @]
    /\ adminOf'  = [adminOf EXCEPT ![c.g] = CASE c.op = "promote" -> @ \cup {c.u}
                                              [] c.op \in {"demote", "remove"} -> @ \ {c.u}
                                              [] OTHER -> @]
    /\ accounts' = IF c.op = "create" THEN accounts \cup {c.u} ELSE accounts
    /\ Arrives(c, Nothing) /\ UNCHANGED <<exists, names>>

\* Refused: the group or the member is gone, no group is left to create, the account exists.
Refuse(c) ==
    /\ \/ c.op = "group" /\ exists = StudyGroups
       \/ c.op \notin {"group", "load"} /\ c.g \notin exists
       \/ c.u # None /\ c.g \in exists /\ ~Possible(c)
    /\ Answered(c, IF c.op = "create" /\ c.g \in exists THEN "exists" ELSE "error", Nothing)
    /\ UNCHANGED <<server, unsure, mishaps>>

-----------------------------------------------------------------------------
(* The answers.                                                             *)

\* Mistake: every answer counts.
Counts_Any(c) == TRUE

Counts(c) == c.latest

LoadDone(c) ==
    /\ c.op = "load" /\ c.ph \in {"ok", "error"} /\ running' = OtherCalls(c)
    /\ IF c.ph = "ok" /\ Counts(c)
       THEN /\ current' = c.ans.g /\ groupEditName' = Renamed(c.ans.g)
            /\ members' = c.ans.members /\ admins' = c.ans.admins
       ELSE UNCHANGED shown
    /\ UNCHANGED <<server, memberConflict, locks, dialog, unsure, bounds>>

\* Mistake: nothing is loaded after a member's role changed.
Reloads_OfMembers(c) == c.op \in {"rename", "delete", "create", "add", "remove"}

Reloads(c) == c.op \notin {"load", "group", "password", "reset"}

reloadApp(c) ==
    running' = IF Reloads(c) THEN {[d EXCEPT !.latest = FALSE] : d \in OtherCalls(c)} \cup {Call("load", current, None)}
               ELSE OtherCalls(c)

\* Mistake: the button of a member that could not be added stays as it is.
Frees_Added(c) == c.ph = "ok" /\ c.op \in {"create", "add"}

Frees(c) == c.op \in {"create", "add"}

ChangeDone(c) ==
    /\ c.op # "load" /\ c.ph = "ok" /\ reloadApp(c)
    /\ memberConflict' = IF c.op = "add" THEN None ELSE memberConflict
    /\ memberSaving' = (memberSaving /\ ~Frees(c))
    /\ resettingMemberID' = IF c.op = "reset" THEN None ELSE resettingMemberID
    /\ dialog' = IF c.op = "group" THEN [op |-> "created", g |-> c.ans.g, u |-> None] ELSE dialog
    /\ UNCHANGED <<server, shown, unsure, bounds>>

ChangeFails(c) ==
    /\ c.op # "load" /\ c.ph \in {"error", "exists"} /\ running' = OtherCalls(c)
    /\ memberConflict' = IF c.ph = "exists" THEN c.u ELSE memberConflict
    /\ memberSaving' = (memberSaving /\ ~Frees(c))
    /\ resettingMemberID' = IF c.op = "reset" THEN None ELSE resettingMemberID
    /\ UNCHANGED <<server, shown, dialog, unsure, bounds>>

Next ==
    \/ \E g \in StudyGroups : Switch(g)
    \/ createGroup \/ updateCurrentGroup \/ AskDelete \/ updateGroupPassword
    \/ confirmExistingMember \/ editMemberUsername
    \/ \E u \in Users : createMember(u) \/ setMemberAdmin(u) \/ \E op \in {"remove", "reset"} : AskOfMember(op, u)
    \/ \E yes \in BOOLEAN : Confirm(yes)
    \/ \E c \in running : ServeLoad(c) \/ ServeGroup(c) \/ ServeOfGroup(c) \/ ServeOfMember(c) \/ Refuse(c)
    \/ \E c \in running : LoadDone(c) \/ ChangeDone(c) \/ ChangeFails(c)

Spec == Init /\ [][Next]_vars

-----------------------------------------------------------------------------
\* Types: members are accounts, administrators members, and only groups that exist have any.
TypeOK ==
    /\ exists \subseteq StudyGroups /\ names \in [StudyGroups -> StudyGroups]
    /\ \A g \in StudyGroups : memberOf[g] \subseteq accounts /\ adminOf[g] \subseteq memberOf[g]
    /\ current \in StudyGroups \cup {None} /\ members \subseteq Users /\ admins \subseteq Users
    /\ memberSaving \in BOOLEAN /\ {memberConflict, resettingMemberID} \subseteq Users \cup {None}

\* With nothing under way the members and administrators shown are those of the open group,
\* unless a load failed or an answer was lost.
MembersOfGroup ==
    running = {} /\ ~unsure /\ current \in exists => members = memberOf[current] /\ admins = adminOf[current]

\* A group has the name that was typed for it, whatever was opened since.
GroupNamesAreOwn == \A g \in StudyGroups : names[g] = g

\* What is asked of a member, or of a group, is asked of the group that is open: a group
\* that was created meanwhile is opened only after its own alert took the question's place.
AskedOfOpenGroup == dialog.op \in {"delete", "remove", "reset"} => current \in {dialog.g, None}

\* Adding a member and resetting a password can be asked again when nothing is under way.
MembersSettle == running = {} /\ dialog = Quiet => ~memberSaving /\ resettingMemberID = None
=============================================================================
