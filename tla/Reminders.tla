------------------------------ MODULE Reminders ------------------------------
(***************************************************************************)
(* Reminders on the device of a member: the store of learningReminders.js, *)
(* reminderRefresh.js, AndroidReminderBanner.vue, the handler of clicks in *)
(* AppRoot.vue, and the service worker that shows system alerts.  The page *)
(* polls; an answer counts while the scope and the request number are the  *)
(* same, and reading, clearing and muting make a new request number.  The  *)
(* worker shows an alert once, whether a push or the page asked for it.    *)
(*                                                                         *)
(* Reminders are numbered as the server numbers them and all of today, so  *)
(* the server's deliveries are every one that was sent.  Left out: sending *)
(* a reminder, its words, the limit of 200 that are remembered, and which  *)
(* devices may ask for alerts.                                             *)
(***************************************************************************)
EXTENDS Naturals, Sequences, FiniteSets

CONSTANTS
    Ids, GroupOf,             \* GroupOf[id]: the group the reminder was sent in
    Groups, None,
    MaxActs,                  \* things the member does and faults, together
    MaxFaults, MaxCalls

VARIABLES
    sent, read, prefs,               \* server
    inApp,                           \* usesInAppReminders
    scope, items, pending, banner, muted, savingPreference, clearing,
    seen, offered,                   \* the store's, and localStorage's
    running,                         \* requests of the page
    work, shown, history, alerts,    \* the worker: its queue, memory, cache and alerts
    loaded, acked, times, unsaved,   \* what the member was told and shown
    unsure,                          \* the switch is not what was saved, and not read since
    acts, faults

server == <<sent, read, prefs>>
store  == <<scope, items, pending, banner, muted, savingPreference, clearing, seen, offered>>
worker == <<work, shown, history, alerts, times, unsaved>>
ghost  == <<loaded, acked, unsure>>
bounds == <<acts, faults>>
vars   == <<server, inApp, store, running, worker, ghost, bounds>>

Of(g)     == {id \in sent : GroupOf[id] = g}
\* The latest of a set of reminders, 0 when there is none.
Latest(S) == IF \E id \in S : \A d \in S : d <= id THEN CHOOSE id \in S : \A d \in S : d <= id ELSE 0
Nothing   == [unread |-> {}, deliveries |-> {}, muted |-> FALSE]
\* now: request is what it was.
Call(op, ids, then) ==
    [op |-> op, ids |-> ids, then |-> then, scope |-> scope, ph |-> "sent", ans |-> Nothing,
     now |-> op = "refresh", muted |-> FALSE]
OtherCalls(c) == running \ {c}
Outdated(S)   == {[d EXCEPT !.now = FALSE] : d \in S}
Room          == Cardinality(running) < MaxCalls
Jobs(S)       == {w \in [1..Cardinality(S) -> S] : {w[i] : i \in DOMAIN w} = S}

Init ==
    /\ sent = {} /\ read = {} /\ prefs = [g \in Groups |-> FALSE]
    /\ inApp \in BOOLEAN
    /\ scope = None /\ items = {} /\ pending = {} /\ banner = 0 /\ muted = FALSE
    /\ savingPreference = FALSE /\ clearing = FALSE
    /\ seen = {} /\ offered = {} /\ running = {}
    /\ work = <<>> /\ shown = {} /\ history = {} /\ alerts = {}
    /\ loaded = FALSE /\ acked = {} /\ unsure = FALSE /\ times = [id \in Ids |-> 0] /\ unsaved = {}
    /\ acts = 0 /\ faults = 0

-----------------------------------------------------------------------------
(* The page.                                                                *)
Act   == acts + faults < MaxActs /\ acts' = acts + 1 /\ UNCHANGED faults
Fault == acts + faults < MaxActs /\ faults < MaxFaults /\ faults' = faults + 1

\* setScope, with everything but what localStorage has, and the refresh that follows.
SetScope(g) ==
    /\ Act /\ g # scope /\ scope' = g
    /\ items' = {} /\ pending' = {} /\ banner' = 0 /\ muted' = FALSE
    /\ savingPreference' = FALSE /\ clearing' = FALSE /\ loaded' = FALSE
    /\ running' = Outdated(running) \cup
         (IF g = None THEN {} ELSE {[Call("refresh", {}, "none") EXCEPT !.scope = g]})
    /\ UNCHANGED <<server, inApp, seen, offered, worker, acked, unsure>>

\* The timer, and the focus of the window; one refresh of a request number at a time.
Refresh ==
    /\ Act /\ Room /\ scope # None /\ \A c \in running : ~c.now
    /\ running' = running \cup {Call("refresh", {}, "none")}
    /\ UNCHANGED <<server, inApp, store, worker, ghost>>

\* Nothing stops a second switch when the group was left and entered while the first was saved.
setMuted(m) ==
    /\ Act /\ Room /\ scope # None /\ ~savingPreference /\ savingPreference' = TRUE
    /\ running' = running \cup {[Call("preference", {}, "none") EXCEPT !.muted = m]}
    /\ unsure' = (unsure \/ \E c \in running : c.op = "preference" /\ c.scope = scope)
    /\ UNCHANGED <<server, inApp, scope, items, pending, banner, muted, clearing, seen, offered, worker,
                   loaded, acked>>

\* openLatest: what is shown is read first.
OpensLatest(b, S, rest) ==
    IF b = 0 THEN banner' = Latest(S) /\ running' = rest
    ELSE banner' = b /\ running' = rest \cup {Call("read", {b}, "latest")}

OpenLatest ==
    /\ Act /\ Room /\ scope # None
    /\ OpensLatest(banner, pending \cup items, running)
    /\ UNCHANGED <<server, inApp, scope, items, pending, muted, savingPreference, clearing, seen, offered, worker, ghost>>

\* The banner of an Android device is dismissed by the member or after four seconds.
Dismiss ==
    /\ Act /\ Room /\ inApp /\ ~muted /\ banner # 0
    /\ running' = running \cup {Call("read", {banner}, "dismiss")}
    /\ UNCHANGED <<server, inApp, store, worker, ghost>>

clearAll ==
    /\ Act /\ Room /\ scope # None /\ ~clearing /\ items \cup pending # {}
    /\ clearing' = TRUE
    /\ running' = running \cup {Call("clear", items \cup pending, "none")}
    /\ UNCHANGED <<server, inApp, scope, items, pending, banner, muted, savingPreference, seen, offered, worker, ghost>>

-----------------------------------------------------------------------------
(* The server, which finds a reminder in its own group only.                *)
Answered(c, ph, ans) ==
    /\ c.ph = "sent" /\ running' = OtherCalls(c) \cup {[c EXCEPT !.ph = ph, !.ans = ans]}
    /\ UNCHANGED <<inApp, store, worker, ghost, acts>>

ServeRefresh(c) ==
    /\ c.op = "refresh"
    /\ Answered(c, "ok", [unread |-> Of(c.scope) \ read, deliveries |-> Of(c.scope), muted |-> prefs[c.scope]])
    /\ UNCHANGED <<server, faults>>

ServeRead(c) ==
    /\ c.op \in {"read", "clear"} /\ Answered(c, "ok", Nothing)
    /\ read' = read \cup {id \in Of(c.scope) : id \in c.ids \/ (c.op = "clear" /\ \E d \in c.ids : id <= d)}
    /\ UNCHANGED <<sent, prefs, faults>>

ServePreference(c) ==
    /\ c.op = "preference" /\ Answered(c, "ok", Nothing)
    /\ prefs' = [prefs EXCEPT ![c.scope] = c.muted]
    /\ UNCHANGED <<sent, read, faults>>

\* Lost, or aborted after 15 seconds: before the server had it, or its answer.
Lost(c) ==
    /\ Fault /\ c.ph # "error"
    /\ running' = OtherCalls(c) \cup {[c EXCEPT !.ph = "error", !.ans = Nothing]}
    /\ unsure' = (unsure \/ (c.op = "preference" /\ c.ph = "ok" /\ c.scope = scope))
    /\ UNCHANGED <<server, inApp, store, worker, loaded, acked, acts>>

\* Somebody sends the next reminder, which may be pushed to the device.
Send(id) ==
    /\ id \notin sent /\ \A d \in Ids : d < id => d \in sent
    /\ sent' = sent \cup {id}
    /\ \/ work' = work
       \/ ~inApp /\ work' = Append(work, id)
    /\ UNCHANGED <<read, prefs, inApp, store, running, shown, history, alerts, times, unsaved, ghost, bounds>>

\* The account reads it on another device.
OtherReads(id) ==
    /\ Act /\ id \in sent \ read /\ read' = read \cup {id}
    /\ UNCHANGED <<sent, prefs, inApp, store, running, worker, ghost>>

-----------------------------------------------------------------------------
(* The answers.                                                             *)

\* Mistake: only the scope is compared.
Counts_InScope(c) == c.scope = scope

\* Mistake: an answer for the scope that was left counts.
Counts_Always(c) == TRUE

Counts(c) == c.now

RefreshDone(c) ==
    LET mine  == c.ans.unread \ seen
        all   == (pending \cap c.ans.deliveries) \cup (c.ans.deliveries \ seen)
        fresh == all \ offered
        kept  == IF c.ans.muted \/ banner \notin all THEN 0 ELSE banner
    IN
    /\ c.op = "refresh" /\ c.ph = "ok" /\ Counts(c)
    /\ running' = OtherCalls(c)
    /\ items' = mine /\ pending' = all /\ muted' = c.ans.muted /\ offered' = offered \cup fresh
    /\ banner' = IF c.ans.muted THEN 0
                 ELSE IF fresh # {} THEN Latest(fresh)
                 ELSE IF inApp /\ kept = 0 THEN Latest(all) ELSE kept
    /\ \E jobs \in Jobs(IF c.ans.muted \/ inApp THEN {} ELSE fresh) : work' = work \o jobs
    /\ loaded' = TRUE
    /\ unsure' = (unsure /\ (c.ans.muted # prefs[scope] \/ \E d \in OtherCalls(c) : d.op = "preference"))
    /\ UNCHANGED <<server, inApp, scope, savingPreference, clearing, seen, shown, history, alerts, times, unsaved, acked, bounds>>

RefreshFails(c) ==
    /\ c.op = "refresh" /\ (c.ph = "error" \/ (c.ph = "ok" /\ ~Counts(c)))
    /\ running' = OtherCalls(c)
    /\ UNCHANGED <<server, inApp, store, worker, ghost, bounds>>

\* Mistake: what was read is not remembered.
Remembered_Not(S) == seen

Remembered(S) == seen \cup S

\* Mistake: the list is emptied, whatever came meanwhile.
Cleared_All(S, c) == {}

\* read takes its own reminder away, clearAll those it saw and older ones.
Cleared(S, c) == IF c.op = "clear" THEN {id \in S : \A d \in c.ids : id > d} ELSE S \ c.ids

\* What the dismissed banner is followed by.
Follows(c, left) ==
    LET b == IF banner \in left THEN banner ELSE 0
        rest == Outdated(OtherCalls(c))
        all == Cleared(pending, c) \cup Cleared(items, c) IN
    CASE c.then = "latest" -> banner' = Latest(all) /\ running' = rest
      [] c.then = "dismiss" /\ ~muted -> OpensLatest(b, all, rest)
      [] c.then = "click" -> banner' = b /\ running' = rest \cup {Call("refresh", {}, "none")}
      [] OTHER -> banner' = b /\ running' = rest

ReadDone(c) ==
    /\ c.op \in {"read", "clear"} /\ c.ph = "ok" /\ c.scope = scope
    /\ seen' = Remembered(c.ids) /\ acked' = acked \cup c.ids
    /\ items' = Cleared(items, c) /\ pending' = Cleared(pending, c)
    /\ Follows(c, Cleared({banner}, c))
    /\ alerts' = alerts \ c.ids
    /\ clearing' = (clearing /\ c.op # "clear")
    /\ UNCHANGED <<server, inApp, scope, muted, savingPreference, offered, work, shown, history, times, unsaved, loaded, unsure, bounds>>

\* A banner whose reading failed goes all the same; the reminder stays unread.
ReadFails(c) ==
    /\ c.op \in {"read", "clear"} /\ (c.ph = "error" \/ (c.ph = "ok" /\ c.scope # scope))
    /\ running' = OtherCalls(c)
    /\ banner' = IF c.then = "dismiss" /\ c.scope = scope /\ banner \in c.ids THEN 0 ELSE banner
    /\ clearing' = (clearing /\ ~(c.op = "clear" /\ c.scope = scope))
    /\ UNCHANGED <<server, inApp, scope, items, pending, muted, savingPreference, seen, offered, worker, ghost, bounds>>

\* Mistake: a refresh that was asked before keeps its request number.
NewRequest_Not(S) == S

NewRequest(S) == Outdated(S)

PreferenceDone(c) ==
    /\ c.op = "preference" /\ c.ph \in {"ok", "error"}
    /\ IF c.scope # scope THEN UNCHANGED <<muted, banner, savingPreference>> /\ running' = OtherCalls(c)
       ELSE /\ savingPreference' = FALSE
            /\ IF c.ph = "error" THEN UNCHANGED <<muted, banner>> /\ running' = OtherCalls(c)
               ELSE /\ muted' = c.muted /\ banner' = IF c.muted THEN 0 ELSE banner
                    /\ running' = NewRequest(OtherCalls(c))
    /\ UNCHANGED <<server, inApp, scope, items, pending, clearing, seen, offered, worker, ghost, bounds>>

-----------------------------------------------------------------------------
(* The worker, which does one thing at a time.                              *)

\* Mistake: what was shown is forgotten with the worker's memory.
Known_InMemory == shown

Known == shown \cup history

Page == <<server, inApp, store, running, ghost>>

\* showOnce; the cache may be full.
Show ==
    /\ work # <<>> /\ work' = Tail(work)
    /\ LET id == Head(work) IN
       IF id \in Known THEN UNCHANGED <<shown, history, alerts, times, unsaved, faults>>
       ELSE /\ alerts' = alerts \cup {id} /\ times' = [times EXCEPT ![id] = @ + 1]
            /\ shown' = shown \cup {id}
            /\ \/ history' = history \cup {id} /\ UNCHANGED <<unsaved, faults>>
               \/ /\ Fault
                  /\ unsaved' = unsaved \cup {id} /\ UNCHANGED history
    /\ UNCHANGED <<Page, acts>>

\* A push arrives again; the browser stops the worker between two events.
Repeat(id) ==
    /\ id \in sent /\ ~inApp /\ Fault /\ work' = Append(work, id)
    /\ UNCHANGED <<Page, shown, history, alerts, times, unsaved, acts>>

Restart ==
    /\ work = <<>> /\ shown # {} /\ shown' = {}
    /\ UNCHANGED <<Page, work, history, alerts, times, unsaved, bounds>>

\* The alert is closed and remembered; the page goes to its group and reads it.
Click(id) ==
    /\ Act /\ Room /\ id \in alerts /\ scope = GroupOf[id]
    /\ alerts' = alerts \ {id} /\ shown' = shown \cup {id} /\ history' = history \cup {id}
    /\ running' = running \cup {Call("read", {id}, "click")}
    /\ UNCHANGED <<server, inApp, store, work, times, unsaved, ghost>>

-----------------------------------------------------------------------------
Next ==
    \/ Refresh \/ OpenLatest \/ Dismiss \/ clearAll \/ Show \/ Restart
    \/ \E g \in Groups \cup {None} : SetScope(g)
    \/ \E m \in BOOLEAN : setMuted(m)
    \/ \E id \in Ids : Send(id) \/ OtherReads(id) \/ Repeat(id) \/ Click(id)
    \/ \E c \in running : ServeRefresh(c) \/ ServeRead(c) \/ ServePreference(c) \/ Lost(c)
    \/ \E c \in running :
          RefreshDone(c) \/ RefreshFails(c) \/ ReadDone(c) \/ ReadFails(c) \/ PreferenceDone(c)

Spec == Init /\ [][Next]_vars

-----------------------------------------------------------------------------
\* Types: what is read, listed, shown or alerted was sent before.
TypeOK ==
    /\ sent \subseteq Ids /\ read \subseteq sent /\ prefs \in [Groups -> BOOLEAN]
    /\ scope \in Groups \cup {None} /\ items \subseteq Ids /\ pending \subseteq Ids
    /\ banner \in Ids \cup {0} /\ seen \subseteq Ids /\ offered \subseteq Ids
    /\ alerts \subseteq Ids /\ history \subseteq Ids /\ work \in Seq(Ids)

\* Answers that come after the account or the group was left change nothing: what is listed,
\* offered or shown on the page is of the group.
RemindersOfGroup ==
    \A id \in items \cup pending \cup ({banner} \ {0}) : GroupOf[id] = scope

\* What the member has read does not come back, neither by a poll that was answered before
\* nor by one after, although the server still names it among today's.
ReadStaysRead == acked \cap (items \cup pending \cup {banner}) = {}

\* A reminder leaves the unread ones of a group only when the server has it read, so a
\* failed request or one that came meanwhile loses none.
LosesNoneUnread == \A id \in items : id \notin items' => id \in read \/ scope' # scope

UnreadKept == [][LosesNoneUnread]_vars

\* With nothing under way the switch shows what the server has, until the next poll excepted:
\* when the answer to a change that was stored is lost, setMuted keeps the old value
\* (learningReminders.js:66), and two changes may overlap once the group was left.
PreferenceShown ==
    running = {} /\ scope # None /\ loaded /\ ~unsure => muted = prefs[scope]

\* Whether a push, its repetition or the page asks, and however often the worker is
\* restarted, a reminder alerts once, unless the cache refused to remember it.
AlertOnce == \A id \in Ids \ unsaved : times[id] <= 1
=============================================================================
