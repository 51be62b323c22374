-------------------------------- MODULE Bots --------------------------------
(***************************************************************************)
(* The administration of the robots: BotManagementAdmin.vue.  The robots,  *)
(* the group every chat is bound to and the failed notifications are       *)
(* loaded as one list, anew after every change.  A choice of a group is    *)
(* shown at once and taken back when it is refused; the key of the chat    *)
(* that is being saved is one for all of them.  No load is compared with   *)
(* another: mixed says that calls have overlapped since a load was asked   *)
(* alone, and then the list may be an older one.  A change whose answer is *)
(* lost after the server stored it is taken for refused, and nothing loads *)
(* the list again: unsure is what it concerned, until a load comes.        *)
(*                                                                         *)
(* Chats are of one robot that stays; another may be registered.  Left out *)
(* are the states a robot is in, and bindings of other homes.              *)
(***************************************************************************)
EXTENDS Naturals, FiniteSets

CONSTANTS Chats, StudyGroups, None, MaxActs, MaxMishaps, MaxCalls

VARIABLES
    bound, registered, failed,       \* server: bindings, the other robot, failed notifications
    shown,                           \* what is listed
    loading, savingBinding, savingRobot, clearingFailed,
    running, mixed, unsure,
    acts, mishaps

server == <<bound, registered, failed>>
locks  == <<loading, savingBinding, savingRobot, clearingFailed>>
bounds == <<acts, mishaps>>
vars   == <<server, shown, locks, running, mixed, unsure, bounds>>

Listed == [bound |-> bound, registered |-> registered, failed |-> failed]
Empty  == [bound |-> [c \in Chats |-> None], registered |-> FALSE, failed |-> FALSE]
\* now: the chat is still the object that is listed; holds: the change that waits for a load.
Call(op, chat, group, holds) ==
    [op |-> op, chat |-> chat, group |-> group, holds |-> holds, previous |-> None,
     now |-> TRUE, ph |-> "sent", ans |-> Empty]

Loads(holds, rest) ==
    /\ loading' = TRUE /\ mixed' = (rest # {})
    /\ unsure' = IF rest = {} THEN {} ELSE unsure
    /\ running' = rest \cup {Call("load", None, None, holds)}

Init ==
    /\ bound \in [Chats -> StudyGroups \cup {None}] /\ registered = FALSE /\ failed \in BOOLEAN
    /\ shown = Empty /\ loading = TRUE /\ savingBinding = None
    /\ savingRobot = FALSE /\ clearingFailed = FALSE
    /\ running = {Call("load", None, None, "none")}
    /\ mixed = FALSE /\ unsure = {} /\ acts = 0 /\ mishaps = 0

-----------------------------------------------------------------------------
Room == Cardinality(running) < MaxCalls
Act  == Room /\ acts < MaxActs /\ acts' = acts + 1 /\ UNCHANGED mishaps
Sends(c) == running' = running \cup {c} /\ mixed' = (mixed \/ running # {}) /\ UNCHANGED unsure

Refresh ==
    /\ Act /\ ~loading /\ Loads("none", running)
    /\ UNCHANGED <<server, shown, savingBinding, savingRobot, clearingFailed>>

\* assign: the choice is shown before it is saved; another chat's saving ends for the page.
assign(chat, group) ==
    /\ Act /\ savingBinding # chat /\ group # shown.bound[chat]
    /\ shown' = [shown EXCEPT !.bound[chat] = group] /\ savingBinding' = chat
    /\ Sends([Call("assign", chat, group, "none") EXCEPT !.previous = shown.bound[chat]])
    /\ UNCHANGED <<server, loading, savingRobot, clearingFailed>>

createRobot ==
    /\ Act /\ ~savingRobot /\ savingRobot' = TRUE /\ Sends(Call("create", None, None, "none"))
    /\ UNCHANGED <<server, shown, loading, savingBinding, clearingFailed>>

removeRobot ==
    /\ Act /\ shown.registered /\ Sends(Call("remove", None, None, "none"))
    /\ UNCHANGED <<server, shown, locks>>

clearFailedNotifications ==
    /\ Act /\ shown.failed /\ ~clearingFailed /\ clearingFailed' = TRUE
    /\ Sends(Call("clear", None, None, "none"))
    /\ UNCHANGED <<server, shown, loading, savingBinding, savingRobot>>

-----------------------------------------------------------------------------
(* The server.                                                              *)
OtherCalls(c) == running \ {c}
Answered(c, ph) ==
    /\ c.ph = "sent" /\ running' = OtherCalls(c) \cup {[c EXCEPT !.ph = ph, !.ans = IF c.op = "load" /\ ph = "ok" THEN Listed ELSE Empty]}
    /\ UNCHANGED <<shown, locks, mixed, acts>>

ServeLoad(c) == c.op = "load" /\ Answered(c, "ok") /\ UNCHANGED <<server, unsure, mishaps>>

Stores(c) ==
    /\ c.op # "load" /\ (c.op = "create" => ~registered)
    /\ bound' = IF c.op = "assign" THEN [bound EXCEPT ![c.chat] = c.group] ELSE bound
    /\ registered' = (c.op = "create" \/ (registered /\ c.op # "remove"))
    /\ failed' = (failed /\ c.op # "clear")

ServeChange(c) == Stores(c) /\ Answered(c, "ok") /\ UNCHANGED <<unsure, mishaps>>

Mishap == mishaps < MaxMishaps /\ mishaps' = mishaps + 1

\* What the server stored, and the page takes for refused.
Lose(c) ==
    /\ Mishap /\ Stores(c) /\ Answered(c, "error")
    /\ unsure' = unsure \cup {IF c.op = "assign" THEN c.chat ELSE c.op}

Refuse(c) ==
    /\ IF c.op = "create" /\ registered THEN UNCHANGED mishaps ELSE Mishap
    /\ Answered(c, "error") /\ UNCHANGED <<server, unsure>>

-----------------------------------------------------------------------------
(* The answers.                                                             *)

\* What ends with the change: the finally of its function.
Frees(op) ==
    /\ savingBinding' = IF op = "assign" THEN None ELSE savingBinding
    /\ savingRobot' = (savingRobot /\ op # "create")
    /\ clearingFailed' = (clearingFailed /\ op # "clear")

LoadDone(c) ==
    /\ c.op = "load" /\ c.ph \in {"ok", "error"}
    /\ running' = IF c.ph = "ok" THEN {[d EXCEPT !.now = FALSE] : d \in OtherCalls(c)} ELSE OtherCalls(c)
    /\ shown' = IF c.ph = "ok" THEN c.ans ELSE shown
    \* What failed to be loaded is older than what is there.
    /\ mixed' = (mixed \/ c.ph = "error")
    /\ loading' = FALSE /\ Frees(c.holds)
    /\ UNCHANGED <<server, unsure, bounds>>

ChangeDone(c) ==
    /\ c.op # "load" /\ c.ph = "ok" /\ Loads(c.op, OtherCalls(c))
    /\ UNCHANGED <<server, shown, savingBinding, savingRobot, clearingFailed, bounds>>

\* Mistake: the choice that was refused stays shown.
TakenBack_Not(c) == shown

\* The choice is taken back on the chat it was made on.
TakenBack(c) == IF c.op = "assign" /\ c.now THEN [shown EXCEPT !.bound[c.chat] = c.previous] ELSE shown

ChangeFails(c) ==
    /\ c.op # "load" /\ c.ph = "error" /\ running' = OtherCalls(c)
    /\ shown' = TakenBack(c) /\ Frees(c.op)
    /\ UNCHANGED <<server, loading, mixed, unsure, bounds>>

Next ==
    \/ Refresh \/ createRobot \/ removeRobot \/ clearFailedNotifications
    \/ \E chat \in Chats, g \in StudyGroups \cup {None} : assign(chat, g)
    \/ \E c \in running : ServeLoad(c) \/ ServeChange(c) \/ Lose(c) \/ Refuse(c)
    \/ \E c \in running : LoadDone(c) \/ ChangeDone(c) \/ ChangeFails(c)

Spec == Init /\ [][Next]_vars

-----------------------------------------------------------------------------
\* Types: a chat is bound to one group or to none, one binding is saved at a time.
TypeOK ==
    /\ bound \in [Chats -> StudyGroups \cup {None}] /\ registered \in BOOLEAN /\ failed \in BOOLEAN
    /\ shown.bound \in [Chats -> StudyGroups \cup {None}] /\ savingBinding \in Chats \cup {None}
    /\ loading \in BOOLEAN /\ savingRobot \in BOOLEAN /\ clearingFailed \in BOOLEAN
    /\ unsure \subseteq Chats \cup {"create", "remove", "clear"}

\* With nothing under way and nothing that overlapped, every chat is shown at the group the
\* server has it bound to, after a refusal too, and the robots and failed notifications are the
\* server's; only what a lost answer concerned may differ, and only until a load comes.
BindingsAreShown ==
    running = {} /\ ~mixed =>
        /\ \A chat \in Chats \ unsure : shown.bound[chat] = bound[chat]
        /\ unsure \cap {"create", "remove"} = {} => shown.registered = registered
        /\ "clear" \notin unsure => shown.failed = failed

\* Nothing stays disabled when nothing is under way.
BotsUnlock ==
    running = {} => ~loading /\ savingBinding = None /\ ~savingRobot /\ ~clearingFailed
=============================================================================
