---------------------------- MODULE ClientSession ----------------------------
(***************************************************************************)
(* One browser tab of the study application: legacy-app.js and             *)
(* authSession.ts.  Everything the page shows comes from requests made for *)
(* an account, a study group and a date, and any of the three may change   *)
(* while requests are on their way: the member switches groups, picks a    *)
(* date, signs out and in again; another tab of the browser, which shares  *)
(* the session cookie, switches groups too; an access token runs out and   *)
(* is renewed, and the request that found out is sent again.               *)
(*                                                                         *)
(* A running async function is a record of calls: its stage, the requests  *)
(* of that stage, and what it captured when it started.  The code captures *)
(* counters (sessionGeneration, loadRequestID, ...) and compares them when *)
(* an answer comes; here a call keeps the set of counters that moved since *)
(* it captured them.  Two calls in the same state are one.                 *)
(*                                                                         *)
(* Left out: roles, the guest pages, home statistics, study memory after   *)
(* it was sent, and what the answers contain beyond whose they are.        *)
(***************************************************************************)
EXTENDS Naturals, FiniteSets

CONSTANTS
    Users, Groups,
    GroupsOf,    \* GroupsOf[u]: the study groups of an account
    Dates,
    NoUser, NoGroup,
    MaxCalls,    \* async functions running at the same time
    MaxActs      \* things the member does, and twice the faults: network errors, expired
                 \* tokens and moves of another tab

VARIABLES
    session,      \* server: the refresh session behind the cookie, shared by all tabs
    token,        \* accessToken and state.token
    refresh,      \* refreshPromise: the renewal under way
    user,         \* state.user: who, and in which group
    tab, date, range,
    shown,        \* whose data each part of the state holds
    calls,
    acts, faults,
    behind,       \* what was shown before another account or group came under the page
    misfiled,     \* a study write was carried out for another account than it was made in
    told          \* the member was told of a load or switch that failed, and none came since

vars == <<session, token, refresh, user, tab, date, range, shown, calls,
          acts, faults, behind, misfiled, told>>
page == <<tab, date, range>>

NoSession == [user |-> NoUser, group |-> NoGroup, epoch |-> 0]
NoToken   == NoSession
NoProfile == [id |-> NoUser, group |-> NoGroup]
NoTag     == [user |-> NoUser, group |-> NoGroup, date |-> 0]

\* hub: bootstrap, todayHub and personalBooks; lists: members, weeks and assets; library:
\* resourceLibrary, weekDraft and adminDataGroupID.
Slots == {"hub", "checkins", "lists", "completions", "ranking", "calendar", "library"}

\* The dialog of the calendar aside.
Studied == Slots \ {"calendar"}

Cleared(slots) == [s \in Slots |-> IF s \in slots THEN NoTag ELSE shown[s]]

Clears(slots) == shown' = Cleared(slots) /\ behind' = behind \ slots

\* Nothing is cleared when u takes the place of another account or group.
Beneath(u) == IF user \in {NoProfile, u} THEN behind ELSE Studied

authenticated == token # NoToken /\ user # NoProfile
Valid(t)      == t # NoToken /\ t.epoch = session.epoch
Profile(t)    == [id |-> t.user, group |-> t.group]
Tag(t, d)     == [user |-> t.user, group |-> t.group, date |-> d]
NoContext     == [user |-> NoUser, group |-> NoGroup, date |-> 0, range |-> 0]
Here          == [user |-> user.id, group |-> user.group, date |-> date, range |-> range]

-----------------------------------------------------------------------------
(* Calls.  A request is sent, answered by the server, and consumed by the   *)
(* call; a request that was denied waits for a renewed token and is sent    *)
(* again once.                                                              *)
Sent(names, t)  == [n \in names |-> [ph |-> "sent", tok |-> t]]
Waiting(n)      == [m \in {n} |-> [ph |-> "wait", tok |-> NoToken]]

Call(op, arg, stage, req, ctx) ==
    [op |-> op, arg |-> arg, by |-> "page", stage |-> stage, req |-> req, ctx |-> ctx, moved |-> {}]
By(by, c) == [c EXCEPT !.by = by]

\* api captures the generation of the token when it sends, not when the call began.
Next_(c, stage, req) == [c EXCEPT !.stage = stage, !.req = req, !.moved = @ \ {"auth"}]

Watched(c) ==
    CASE c.op = "load"     -> {"auth", "gen", "load", "ranking"}
      [] c.op = "switch"   -> {"auth", "gen", "switch"}
      [] c.op \in {"poll", "range"} -> {"auth", "gen", "ranking"}
      [] c.op = "calendar" -> {"auth", "gen", "calendar"}
      [] c.op = "admin"    -> {"auth", "gen", "admin"}
      [] OTHER             -> {"auth"}

Moved(cs, S) == {[c EXCEPT !.moved = @ \cup (cs \cap Watched(c))] : c \in S}

\* Mistake: those who wait are forgotten with the renewal.
Abandoned_Kept(S) == S

\* setAccessToken starts a new generation: the renewal under way is forgotten, and
\* those who wait for it fail.
Abandoned(S) ==
    {[c EXCEPT !.req = [n \in DOMAIN c.req |->
          IF c.req[n].ph = "wait" THEN [ph |-> "failed", tok |-> NoToken] ELSE c.req[n]]] : c \in S}

Settled(c) == \A n \in DOMAIN c.req : c.req[n].ph = "ok"
Failed(c)  == \E n \in DOMAIN c.req : c.req[n].ph \in {"failed", "error", "conflict"}

\* loadAll, called with the token and context of the moment.
Load(by, t, ctx) ==
    By(by, IF t = NoToken THEN Call("load", NoGroup, "refresh", Waiting("refresh"), ctx)
                          ELSE Call("load", NoGroup, "me", Sent({"me"}, t), ctx))

\* The calls when loadAll is called beside the ones in S: by initializeApp (boot), by a
\* login, or by the page.
Loading(S, by, t, ctx) == Moved({"load"}, S) \cup {Load(by, t, ctx)}
RenewalFor(t) == IF t = NoToken /\ refresh = "none" THEN "sent" ELSE refresh

Room == Cardinality(calls) < MaxCalls
\* App.vue shows the page when initializeApp is done.
Ready == \A c \in calls : c.by # "boot"

\* A fault counts as two acts.
Spent == acts + 2 * faults
Acts == Room /\ Ready /\ Spent < MaxActs /\ acts' = acts + 1 /\ UNCHANGED <<session, faults, misfiled, told>>

-----------------------------------------------------------------------------
(* What the member does.                                                    *)

\* initializeApp: the page opens with no token and whatever session the cookie has.
Init ==
    /\ session \in {NoSession} \cup
         {[user |-> u, group |-> g, epoch |-> 1] : u \in Users, g \in Groups \cup {NoGroup}}
    /\ session # NoSession => session.group \in GroupsOf[session.user] \cup {NoGroup}
    /\ token = NoToken /\ user = NoProfile /\ refresh = "sent"
    /\ tab = "home" /\ date = 1 /\ range = 1
    /\ shown = [s \in Slots |-> NoTag]
    /\ calls = {Load("boot", NoToken, Here)}
    /\ acts = 0 /\ faults = 0 /\ behind = {} /\ misfiled = FALSE /\ told = FALSE

\* submitLogin ignores clicks while a login, its loadAll included, is running.
Login(u) ==
    /\ Acts /\ ~authenticated /\ \A c \in calls : c.by # "login"
    /\ calls' = calls \cup {By("login", Call("login", u, "login", Sent({"login"}, NoToken), NoContext))}
    /\ UNCHANGED <<token, refresh, user, page, shown, behind>>

\* Without remote the server is not asked: the session is known to be gone.
Logout(stage) ==
    /\ Acts /\ authenticated /\ \A c \in calls : c.op # "logout"
    /\ calls' = calls \cup {Call("logout", NoGroup, stage, Sent({stage}, NoToken), NoContext)}
    /\ UNCHANGED <<token, refresh, user, page, shown, behind>>

switchGroup(g) ==
    /\ Acts /\ authenticated /\ g \in GroupsOf[user.id]
    /\ calls' = Moved({"gen", "switch"}, calls)
                   \cup {Call("switch", g, "switch", Sent({"switch"}, token), NoContext)}
    /\ UNCHANGED <<token, refresh, user, page, shown, behind>>

setDefaultGroup ==
    /\ Acts /\ authenticated /\ user.group # NoGroup
    /\ calls' = calls \cup {Call("default", NoGroup, "default", Sent({"default"}, token), NoContext)}
    /\ UNCHANGED <<token, refresh, user, page, shown, behind>>

setSelectedDate(d) ==
    /\ Acts /\ authenticated /\ d # date
    /\ date' = d /\ Clears({"hub", "checkins", "completions"})
    /\ calls' = Loading(calls, "page", token, [Here EXCEPT !.date = d])
    /\ UNCHANGED <<token, refresh, user, tab, range>>

\* The promise of a refresh for the same context is shared.
Polling == \E c \in calls : c.op = "poll" /\ c.ctx = Here /\ "gen" \notin c.moved

Polls(S, ctx) ==
    IF Polling \/ ~authenticated \/ user.group = NoGroup THEN S
    ELSE Moved({"ranking"}, S)
           \cup {Call("poll", NoGroup, "poll", Sent({"completions", "ranking"}, token), ctx)}

\* loadAdminData(true).
AdminLoads(S) ==
    IF user.group = NoGroup THEN S
    ELSE Moved({"admin"}, S) \cup {Call("admin", NoGroup, "admin", Sent({"library"}, token), Here)}

setTab(t) ==
    /\ Acts /\ authenticated /\ t # tab
    /\ tab' = t
    /\ \/ t = "home" /\ UNCHANGED <<calls, shown>>
       \/ t = "dashboard" /\ calls' = Polls(calls, Here) /\ UNCHANGED shown
       \/ t = "admin" /\ calls' = AdminLoads(calls) /\ UNCHANGED shown
    /\ UNCHANGED <<token, refresh, user, date, range, behind>>

setStatsRange(r) ==
    /\ Acts /\ authenticated /\ tab = "dashboard" /\ r # range
    /\ range' = r
    /\ calls' = Moved({"ranking"}, calls)
                   \cup {Call("range", NoGroup, "ranking", Sent({"ranking"}, token),
                              [Here EXCEPT !.range = r])}
    /\ UNCHANGED <<token, refresh, user, tab, date, shown, behind>>

openMemberCalendar ==
    /\ Acts /\ authenticated /\ user.group # NoGroup
    /\ calls' = Moved({"calendar"}, calls)
                   \cup {Call("calendar", NoGroup, "calendar", Sent({"calendar"}, token), Here)}
    /\ UNCHANGED <<token, refresh, user, page, shown, behind>>

closeCalendar ==
    /\ Ready /\ Spent < MaxActs /\ acts' = acts + 1 /\ shown["calendar"] # NoTag
    /\ calls' = Moved({"calendar"}, calls) /\ shown' = Cleared({"calendar"})
    /\ UNCHANGED <<session, faults, misfiled, told, token, refresh, user, page, behind>>

\* A check-in or its withdrawal; a study memory write goes through studyAccountAPI.
\* arg is the account the write was first sent for.
Write(op) ==
    /\ Acts /\ authenticated /\ user.group # NoGroup
    /\ calls' = calls \cup {Call(op, token.user, op, Sent({op}, token),
                               IF op = "study" THEN Here ELSE NoContext)}
    /\ UNCHANGED <<token, refresh, user, page, shown, behind>>

\* The timer of the statistics page.
Poll ==
    /\ Acts /\ tab = "dashboard" /\ ~Polling /\ authenticated /\ user.group # NoGroup
    /\ calls' = Polls(calls, Here)
    /\ UNCHANGED <<token, refresh, user, page, shown, behind>>

-----------------------------------------------------------------------------
(* The server answers.  Authorisation compares the token with the session:  *)
(* a token of an earlier group of the session is as good as none.           *)
Answer(ph, t)  == [ph |-> ph, tok |-> t]
Reply(c, n, r) == calls' = (calls \ {c}) \cup {[c EXCEPT !.req[n] = r]}
Fault          == Spent + 2 <= MaxActs /\ faults' = faults + 1
Moves(u, g)    == session' = [user |-> u, group |-> g, epoch |-> session.epoch + 1]

Pending(c, n) == c.req[n].ph \in {"sent", "again"}

\* A request that was denied waits for the renewal under way, or starts one; not when
\* the session is another by now, and never twice.  studyAccountAPI goes on only for
\* the account that asked.
MayRenew(c) == "auth" \notin c.moved /\ (c.op = "study" => c.ctx.user = user.id)

Deny(c, n) ==
    IF c.req[n].ph = "sent" /\ MayRenew(c)
    THEN Reply(c, n, Answer("wait", NoToken)) /\ refresh' = (IF refresh = "none" THEN "sent" ELSE refresh)
    ELSE Reply(c, n, Answer("failed", NoToken)) /\ UNCHANGED refresh

Serve(c, n) ==
    LET r == c.req[n]
        authorised == n \in {"login", "remote", "local"} \/ Valid(r.tok) IN
    /\ Pending(c, n)
    /\ \/ /\ ~authorised /\ Deny(c, n)
          /\ UNCHANGED <<session, misfiled>>
       \/ /\ authorised /\ n \in {"login", "switch"}
          /\ \E g \in Groups \cup {NoGroup} :
                /\ n = "switch" => g = c.arg
                /\ n = "login" => g \in GroupsOf[c.arg] \cup {NoGroup}
                /\ Moves(IF n = "login" THEN c.arg ELSE r.tok.user, g)
          /\ Reply(c, n, Answer("ok", session'))
          /\ UNCHANGED <<refresh, misfiled>>
       \/ /\ authorised /\ n \notin {"login", "switch"}
          /\ session' = IF n = "remote" THEN NoSession ELSE session
          /\ misfiled' = (misfiled \/ (n = "study" /\ r.tok.user # c.arg))
          /\ Reply(c, n, Answer("ok", IF n \in {"remote", "local", "checkin", "study"} THEN NoToken ELSE r.tok))
          /\ UNCHANGED refresh
    /\ UNCHANGED <<token, user, page, shown, acts, faults, behind, told>>

\* The request or its answer is lost; an answer lost after a group switch leaves the
\* server in a group the page does not know of.
Lost(c, n) ==
    /\ Pending(c, n) /\ n # "local" /\ Fault
    /\ Reply(c, n, Answer(IF n = "remote" THEN "ok" ELSE "error", NoToken))
    /\ \/ UNCHANGED session
       \/ n = "switch" /\ Valid(c.req[n].tok) /\ Moves(session.user, c.arg)
    /\ UNCHANGED <<token, refresh, user, page, shown, acts, behind, misfiled, told>>

\* The access token ran out, though the session goes on.
Expired(c, n) ==
    /\ c.req[n].ph = "sent" /\ Valid(c.req[n].tok) /\ Fault
    /\ Deny(c, n)
    /\ UNCHANGED <<session, token, user, page, shown, acts, behind, misfiled, told>>

\* Another tab switched groups between the check of the token and the update.
Conflict(c) ==
    /\ c.op = "switch" /\ c.stage = "switch" /\ Pending(c, "switch") /\ Fault
    /\ Valid(c.req["switch"].tok)
    /\ \E g \in GroupsOf[session.user] : Moves(session.user, g)
    /\ Reply(c, "switch", Answer("conflict", NoToken))
    /\ UNCHANGED <<token, refresh, user, page, shown, acts, behind, misfiled, told>>

\* The cookie is shared with the other tabs, where groups are switched and accounts sign in.
OtherTabMoves ==
    /\ session # NoSession /\ Fault
    /\ \E u \in Users : \E g \in GroupsOf[u] : <<u, g>> # <<session.user, session.group>> /\ Moves(u, g)
    /\ UNCHANGED <<token, refresh, user, page, shown, calls, acts, behind, misfiled, told>>

-----------------------------------------------------------------------------
(* Renewal of the access token.                                             *)

\* Mistake: the account is not compared.
MayRepeat_Anyone(c, u) == TRUE

\* The account the page showed is compared before the request is sent again.
MayRepeat(c, u) == c.op = "study" => c.ctx.user = u

Renewed(c, t) ==
    [c EXCEPT !.req = [n \in DOMAIN c.req |->
        IF c.req[n].ph # "wait" THEN c.req[n]
        ELSE IF t = NoToken \/ ~MayRepeat(c, t.user) THEN Answer("failed", NoToken)
        ELSE Answer(IF n = "refresh" THEN "ok" ELSE "again", t)]]

\* refreshAccessSession and refreshSession: the profile is the one of the session now.
\* When the renewal fails the token goes and the profile stays.
Renew(t) ==
    /\ refresh = "sent" /\ refresh' = "none" /\ token' = t
    /\ user' = IF t = NoToken THEN user ELSE Profile(t)
    /\ calls' = {Renewed(c, t) : c \in calls}
    /\ behind' = IF t = NoToken THEN behind ELSE Beneath(Profile(t))

RefreshAnswered ==
    /\ Renew(session)
    /\ UNCHANGED <<session, page, shown, acts, faults, misfiled, told>>

RefreshLost ==
    /\ Fault /\ Renew(NoToken)
    /\ UNCHANGED <<session, page, shown, acts, misfiled, told>>

-----------------------------------------------------------------------------
(* The calls go on with their answers.                                      *)
Others(c) == calls \ {c}

\* Mistakes: the session is not compared; the counter of the ranking is.
LoadIsCurrent_NewestOnly(c) == "load" \notin c.moved /\ c.ctx.date = date
LoadIsCurrent_OneCounter(c) == c.moved \cap {"load", "gen", "ranking"} = {} /\ c.ctx.date = date

\* loadAll's isCurrent.
LoadIsCurrent(c) == c.moved \cap {"load", "gen"} = {} /\ c.ctx.date = date

Drop(c) ==
    /\ calls' = Others(c)
    /\ UNCHANGED <<session, token, refresh, user, page, shown, acts, faults, behind, misfiled>>

LoadRestored(c) ==
    /\ c.op = "load" /\ c.stage = "refresh" /\ Settled(c) /\ LoadIsCurrent(c)
    /\ calls' = Others(c) \cup {Next_(c, "me", Sent({"me"}, token))}
    /\ UNCHANGED <<session, token, refresh, user, page, shown, acts, faults, behind, misfiled, told>>

\* What is shown of another group than the library's is dropped with it.
LoadProfile(c) ==
    LET u  == Profile(c.req["me"].tok)
        gs == GroupsOf[u.id] IN
    /\ c.op = "load" /\ c.stage = "me" /\ Settled(c) /\ LoadIsCurrent(c)
    /\ user' = u
    /\ \/ /\ u.group # NoGroup /\ behind' = Beneath(u)
          /\ shown' = IF shown["library"].group # u.group THEN Cleared({"library"}) ELSE shown
          /\ calls' = Others(c) \cup {Next_(c, "bootstrap", Sent({"bootstrap"}, token))}
       \/ /\ u.group = NoGroup /\ Cardinality(gs) = 1 /\ behind' = Beneath(u) /\ UNCHANGED shown
          /\ calls' = Moved({"gen", "switch"}, Others(c))
                         \cup {By(c.by, Call("switch", CHOOSE g \in gs : TRUE, "switch", Sent({"switch"}, token), NoContext))}
       \/ /\ u.group = NoGroup /\ Cardinality(gs) # 1
          /\ Clears(Studied) /\ calls' = Others(c)
    /\ UNCHANGED <<session, token, refresh, page, acts, faults, misfiled, told>>

\* The ranking is loaded only on its page, under the context of this moment.
LoadBatch(c) ==
    LET ranking == tab = "dashboard" IN
    /\ c.op = "load" /\ c.stage = "bootstrap" /\ Settled(c) /\ LoadIsCurrent(c)
    /\ calls' = (IF ranking THEN Moved({"ranking"}, Others(c)) ELSE Others(c)) \cup
                {[Next_(c, "batch", Sent({"hub"} \cup {r \in {"ranking"} : ranking}, token))
                     EXCEPT !.ctx = Here, !.moved = @ \ {"ranking"}]}
    /\ UNCHANGED <<session, token, refresh, user, page, shown, acts, faults, behind, misfiled, told>>

\* Asked in another account or group than came under the page since, without a new generation.
Mixed(c) == "gen" \notin c.moved /\ \E n \in DOMAIN c.req : Profile(c.req[n].tok) # user

Brings(c, slots)  == behind' = IF Mixed(c) THEN behind \cup (slots \cap Studied) ELSE behind \ slots
Arrives(c, slots) ==
    /\ shown' = [s \in Slots |-> IF s \in slots THEN Tag(c.req[s].tok, c.ctx.date) ELSE shown[s]]
    /\ Brings(c, slots)

SameStats(c) == c.ctx = Here /\ c.moved \cap {"gen", "ranking"} = {}

LoadShown(c) ==
    LET tag(n)  == Tag(c.req[n].tok, c.ctx.date)
        slots   == Studied \ {r \in {"ranking"} : r \notin DOMAIN c.req \/ ~SameStats(c)} IN
    /\ c.op = "load" /\ c.stage = "batch" /\ Settled(c) /\ LoadIsCurrent(c)
    /\ shown' = [s \in Slots |->
         IF s \notin slots THEN shown[s] ELSE IF s = "ranking" THEN tag(s) ELSE tag("hub")]
    /\ Brings(c, slots)
    /\ calls' = Others(c)
    /\ told' = FALSE
    /\ UNCHANGED <<session, token, refresh, user, page, acts, faults, misfiled>>

\* unauthorized ends in logout({ remote: false }), which is not awaited.
LoadFails(c) ==
    /\ c.op = "load" /\ Failed(c) /\ LoadIsCurrent(c)
    /\ calls' = Others(c) \cup
         {Call("logout", NoGroup, "local", Sent({"local"}, NoToken), NoContext) :
             x \in {n \in DOMAIN c.req : c.stage # "refresh" /\ c.req[n].ph = "failed"}}
    /\ told' = TRUE
    /\ UNCHANGED <<session, token, refresh, user, page, shown, acts, faults, behind, misfiled>>

LoadStale(c) ==
    c.op = "load" /\ (Settled(c) \/ Failed(c)) /\ ~LoadIsCurrent(c) /\ Drop(c) /\ UNCHANGED told

\* Mistake: the session is not compared.
SwitchIsCurrent_NewestOnly(c) == "switch" \notin c.moved

\* switchGroup: only the newest request is followed, and everything is cleared first.
SwitchIsCurrent(c) == c.moved \cap {"gen", "switch"} = {}

SwitchDone(c) ==
    LET t == IF c.stage = "switch" THEN c.req["switch"].tok ELSE NoToken
        ctx == [Here EXCEPT !.user = t.user, !.group = t.group] IN
    /\ c.op = "switch" /\ c.stage = "switch" /\ Settled(c) /\ SwitchIsCurrent(c)
    /\ token' = t /\ user' = Profile(t) /\ refresh' = "none"
    /\ shown' = Cleared(Slots) /\ behind' = {}
    /\ calls' = Loading(Moved({"gen", "auth"}, Abandoned(Others(c))), c.by, t, ctx)
    /\ UNCHANGED <<session, page, acts, faults, misfiled, told>>

\* The session moved on: renew, and ask again.
SwitchConflict(c) ==
    /\ c.op = "switch" /\ c.stage = "switch" /\ c.req["switch"].ph = "conflict" /\ SwitchIsCurrent(c)
    /\ calls' = Others(c) \cup {Next_(c, "refresh", Waiting("refresh"))}
    /\ refresh' = IF refresh = "none" THEN "sent" ELSE refresh
    /\ UNCHANGED <<session, token, user, page, shown, acts, faults, behind, misfiled, told>>

SwitchAgain(c) ==
    /\ c.op = "switch" /\ c.stage = "refresh" /\ Settled(c) /\ SwitchIsCurrent(c)
    /\ calls' = Others(c) \cup {Next_(c, "switch", Sent({"switch"}, token))}
    /\ UNCHANGED <<session, token, refresh, user, page, shown, acts, faults, behind, misfiled, told>>

SwitchEnds(c) ==
    /\ c.op = "switch" /\ (Settled(c) => ~SwitchIsCurrent(c)) /\ (Settled(c) \/ Failed(c))
    /\ ~(SwitchIsCurrent(c) /\ c.stage = "switch" /\ c.req["switch"].ph = "conflict")
    /\ told' = (told \/ (Failed(c) /\ c.stage = "switch"))
    /\ Drop(c)

LoginDone(c) ==
    LET t == IF c.op = "login" THEN c.req["login"].tok ELSE NoToken
        ctx == [Here EXCEPT !.user = t.user, !.group = t.group] IN
    /\ c.op = "login" /\ Settled(c)
    /\ token' = t /\ user' = Profile(t) /\ refresh' = "none"
    /\ behind' = Beneath(Profile(t))
    /\ calls' = Loading(Moved({"gen", "auth"}, Abandoned(Others(c))), c.by, t, ctx)
    /\ UNCHANGED <<session, page, shown, acts, faults, misfiled, told>>

\* The member list, check-ins, weeks, assets and calendar stay where they are.
LogoutDone(c) ==
    /\ c.op = "logout" /\ Settled(c)
    /\ token' = NoToken /\ user' = NoProfile /\ refresh' = "none"
    /\ shown' = Cleared(Studied \ {"checkins", "lists"}) /\ behind' = {"checkins", "lists"}
    /\ calls' = Moved({"gen", "auth"}, Abandoned(Others(c)))
    /\ UNCHANGED <<session, page, acts, faults, misfiled, told>>

\* No context is compared: the profile is the one of the token that asked.
DefaultDone(c) ==
    LET u == Profile(c.req["default"].tok) IN
    /\ c.op = "default" /\ Settled(c)
    /\ user' = u /\ behind' = Beneath(u)
    /\ calls' = Others(c)
    /\ UNCHANGED <<session, token, refresh, page, shown, acts, faults, misfiled, told>>

PollDone(c) ==
    /\ c.op = "poll" /\ Settled(c)
    /\ Arrives(c, IF c.ctx # Here \/ "gen" \in c.moved \/ tab # "dashboard" THEN {}
                  ELSE {"completions"} \cup {r \in {"ranking"} : SameStats(c)})
    /\ calls' = Others(c)
    /\ UNCHANGED <<session, token, refresh, user, page, acts, faults, misfiled, told>>

RangeDone(c) ==
    /\ c.op = "range" /\ Settled(c)
    /\ Arrives(c, {r \in {"ranking"} : SameStats(c)})
    /\ calls' = Others(c)
    /\ UNCHANGED <<session, token, refresh, user, page, acts, faults, misfiled, told>>

CalendarDone(c) ==
    /\ c.op = "calendar" /\ Settled(c)
    /\ Arrives(c, {s \in {"calendar"} : c.moved \cap {"gen", s} = {} /\ c.ctx.group = user.group})
    /\ calls' = Others(c)
    /\ UNCHANGED <<session, token, refresh, user, page, acts, faults, misfiled, told>>

\* loadAdminData.
AdminIsCurrent(c) == c.moved \cap {"gen", "admin"} = {} /\ c.ctx.group = user.group

AdminDone(c) ==
    /\ c.op = "admin" /\ (Settled(c) \/ Failed(c))
    /\ Arrives(c, {s \in {"library"} : Settled(c) /\ AdminIsCurrent(c)})
    /\ calls' = Others(c)
    /\ UNCHANGED <<session, token, refresh, user, page, acts, faults, misfiled, told>>

\* toggleCheckin loads everything again, whatever is shown by now.
CheckinDone(c) ==
    /\ c.op = "checkin" /\ Settled(c)
    /\ calls' = Loading(Others(c), "page", token, Here) /\ refresh' = RenewalFor(token)
    /\ UNCHANGED <<session, token, user, page, shown, acts, faults, behind, misfiled, told>>

CallEnds(c) ==
    /\ \/ c.op = "study" /\ (Settled(c) \/ Failed(c))
       \/ c.op \notin {"load", "switch", "admin", "study"} /\ Failed(c)
    /\ Drop(c) /\ UNCHANGED told

-----------------------------------------------------------------------------
Act ==
    \/ \E u \in Users : Login(u)
    \/ \E stage \in {"remote", "local"} : Logout(stage)
    \/ \E g \in Groups : switchGroup(g)
    \/ setDefaultGroup
    \/ \E d \in Dates : setSelectedDate(d)
    \/ \E t \in {"home", "dashboard", "admin"} : setTab(t)
    \/ \E r \in 1..2 : setStatsRange(r)
    \/ openMemberCalendar
    \/ closeCalendar
    \/ \E op \in {"checkin", "study"} : Write(op)
    \/ Poll

Network ==
    \/ \E c \in calls : \E n \in DOMAIN c.req : Serve(c, n)
    \/ RefreshAnswered

Trouble ==
    \/ \E c \in calls : \E n \in DOMAIN c.req : Lost(c, n) \/ Expired(c, n)
    \/ \E c \in calls : Conflict(c)
    \/ OtherTabMoves
    \/ RefreshLost

Continues(c) ==
    \/ LoadRestored(c) \/ LoadProfile(c) \/ LoadBatch(c) \/ LoadShown(c) \/ LoadFails(c) \/ LoadStale(c)
    \/ SwitchDone(c) \/ SwitchConflict(c) \/ SwitchAgain(c) \/ SwitchEnds(c)
    \/ LoginDone(c) \/ LogoutDone(c) \/ DefaultDone(c) \/ PollDone(c) \/ RangeDone(c)
    \/ CalendarDone(c) \/ AdminDone(c) \/ CheckinDone(c) \/ CallEnds(c)

Step == Network \/ \E c \in calls : Continues(c)
Next == Act \/ Step \/ Trouble

Spec == Init /\ [][Next]_vars

-----------------------------------------------------------------------------
(* Properties.                                                              *)

\* The state keeps its shape: the session, the renewal, the profile and the tags of what
\* is shown (legacy-app.js:94).
TypeOK ==
    /\ session \in [user : Users \cup {NoUser}, group : Groups \cup {NoGroup}, epoch : Nat]
    /\ refresh \in {"none", "sent"}
    /\ user \in [id : Users \cup {NoUser}, group : Groups \cup {NoGroup}]
    /\ shown \in [Slots -> [user : Users \cup {NoUser}, group : Groups \cup {NoGroup}, date : Nat]]

\* What the page shows of a study day was answered for the account, the group and the
\* date it is in now, however answers, switches and sign-ins overlap (loadAll,
\* legacy-app.js:627).  What is behind is excepted, and there the code falls short: an answer
\* that brings another account or group into state.user, of a renewal after another tab
\* moved, of /auth/me or of setDefaultGroup, clears nothing, though CHANGE-CONSTRAINTS.md:92
\* asks that results agree with the account and the group; and logout leaves the check-ins
\* and the lists.  What is read again, or cleared, is behind no longer; what such an answer
\* overtook is behind when it comes, unless the generation moved, which every load compares.
ShownInContext ==
    authenticated => \A s \in Studied \ behind : shown[s] # NoTag =>
        /\ shown[s].user = user.id /\ shown[s].group = user.group
        /\ s \in {"hub", "checkins", "completions"} => shown[s].date = date

\* A study memory write that is sent again after a renewal is still the account's that
\* made it (studyAccountAPI, legacy-app.js:437).
StudyWritesByOwner == ~misfiled

\* The page is never left empty in silence: when nothing is on its way any more, the day
\* is shown, or the member was told that it could not be loaded (legacy-app.js:627, 760).
RequestedPageArrives ==
    calls = {} /\ ~told /\ authenticated /\ user.group # NoGroup =>
        \A s \in {"hub", "checkins", "lists", "completions"} \ behind : shown[s] # NoTag

\* Whoever waits for a new token has a renewal under way to wait for: a sign-in, sign-out
\* or switch that forgets the renewal lets those who wait for it go (authSession.ts:21).
NobodyWaitsInVain ==
    \A c \in calls : \A n \in DOMAIN c.req : c.req[n].ph = "wait" => refresh = "sent"

\* After a sign-out no late answer signs the page in again: only a sign-in does, or a
\* renewal for the session there is (logout, legacy-app.js:3010).
SignsInWhenAsked ==
    user = NoProfile /\ authenticated' =>
        session # NoSession \/ \E c \in calls \ calls' : c.op = "login"

SignedOutStaysOut == [][SignsInWhenAsked]_vars
=============================================================================
