-------------------------- MODULE AutomaticFeedback --------------------------
(***************************************************************************)
(* errorFeedback.ts, which reports the page's own errors to the server,    *)
(* and the renewal of the access token it shares with every other request, *)
(* authSession.ts.  A report asks the server for its settings, together    *)
(* with the other reports that ask, then is sent; a 401 renews the token   *)
(* and is tried once more, another failure is tried again by a timer, three*)
(* times in all.  Reports belong to the generation of the session they     *)
(* were made in.                                                           *)
(*                                                                         *)
(* An error is its signature.  Left out: the diagnostics, the paths that   *)
(* are not reported, and the bound of 200 of the reports remembered.       *)
(***************************************************************************)
EXTENDS Naturals, FiniteSets

CONSTANTS
    Errors,
    MaxPending,                      \* 20 in the code
    MaxActs, MaxMishaps, MaxGens

VARIABLES
    gen, token,                      \* sessionGeneration; an access token is held
    valid,                           \* server: it takes that token
    wanted,                          \* server: the errors that settings let through
    refreshing, clears,              \* requests to /api/auth/refresh, clearTokenOnRefreshFailure
    pending, recent, calls,          \* pendingReports, recentReports, requests of feedbackRequest
    stored, doubts, business,        \* what the server stored; ghosts
    acts, mishaps

session == <<gen, token, valid, wanted>>
renewal == <<refreshing, clears, business>>
reports == <<pending, recent, calls>>
ghost   == <<stored, doubts>>
bounds  == <<acts, mishaps>>
vars    == <<session, renewal, reports, ghost, bounds>>

Config == "config"                   \* the request for the settings
Keys   == Errors \X (1..MaxGens)

Init ==
    /\ gen = 1 /\ token = TRUE /\ valid \in BOOLEAN /\ wanted = Errors
    /\ refreshing = {} /\ clears = TRUE /\ business = FALSE
    /\ pending = {} /\ recent = {} /\ calls = {}
    /\ stored = [k \in Keys |-> 0] /\ doubts = [k \in Keys |-> 0]
    /\ acts = 0 /\ mishaps = 0

Act == acts < MaxActs /\ acts' = acts + 1 /\ UNCHANGED mishaps

\* Mistake: any session will do.
Owns_Any(g, t) == t

\* The conditions of active and of feedbackRequest on the session; t: a token is held.
Owns(g, t) == g = gen /\ t

\* g: the session the error was met in; as: the one of now, whose token the request carries.
Call(of, g)   == [of |-> of, gen |-> g, as |-> gen, tries |-> 1, ph |-> "sent", lets |-> {}]
OtherCalls(c) == calls \ {c}
Asked(g) ==
    IF \E c \in calls : c.of = Config /\ c.gen = g THEN calls ELSE calls \cup {Call(Config, g)}
Waits(r, c) == c.gen = r.gen /\ (r.stage = c.of \/ (r.stage = "post" /\ r.error = c.of))

-----------------------------------------------------------------------------
(* reportAutomaticFeedback, deliver                                         *)

\* Mistake: an error is reported again while it is being reported.
Known_Recent(e, S) == <<e, gen>> \in recent

Known(e, S) == <<e, gen>> \in recent \/ \E r \in S : r.error = e

\* Reports of other sessions are forgotten first, whatever becomes of this one.
reportAutomaticFeedback(e) ==
    /\ Act /\ token
    /\ LET kept == {r \in pending : r.gen = gen} IN
       IF Cardinality(kept) >= MaxPending \/ Known(e, kept)
       THEN pending' = kept /\ UNCHANGED calls
       ELSE /\ pending' = kept \cup {[error |-> e, gen |-> gen, attempts |-> 1, stage |-> Config]}
            /\ calls' = Asked(gen)
    /\ UNCHANGED <<session, renewal, recent, ghost>>

\* Its timer, or the browser's "online", begins deliver again.
Deliver(r) ==
    /\ r.stage = "timer"
    /\ IF Owns(r.gen, token)
       THEN /\ pending' = (pending \ {r}) \cup {[r EXCEPT !.attempts = @ + 1, !.stage = Config]}
            /\ calls' = Asked(r.gen)
       ELSE pending' = pending \ {r} /\ UNCHANGED calls
    /\ UNCHANGED <<session, renewal, recent, ghost, bounds>>

\* Mistake: only the report that asked for the settings hears that they failed.
Retried_One(F, again, t) ==
    {r \in pending : r.stage = Config \/ \A c \in F : ~Waits(r, c)}
        \cup {[r EXCEPT !.stage = "timer"] : r \in {r \in pending :
                 /\ r.stage = "post" /\ \E c \in F : Waits(r, c)
                 /\ again /\ Owns(r.gen, t) /\ r.attempts < 3}}

\* The finally clause of deliver, for the reports that waited for the requests F.
Retried(F, again, t) ==
    {r \in pending : \A c \in F : ~Waits(r, c)}
        \cup {[r EXCEPT !.stage = "timer"] : r \in {r \in pending :
                 (\E c \in F : Waits(r, c)) /\ again /\ Owns(r.gen, t) /\ r.attempts < 3}}

\* The settings are there: the reports they let through are sent.
ConfigDone(c) ==
    /\ c.of = Config /\ c.ph = "ok"
    /\ LET waiting == {r \in pending : Waits(r, c)}
           going   == {r \in waiting : Owns(c.gen, token) /\ r.error \in c.lets} IN
       /\ pending' = (pending \ waiting) \cup {[r EXCEPT !.stage = "post"] : r \in going}
       /\ calls' = OtherCalls(c) \cup {Call(r.error, r.gen) : r \in going}
    /\ UNCHANGED <<session, renewal, recent, ghost, bounds>>

\* 201 is remembered, 200 says that the server did not want it.
PostDone(c) ==
    /\ c.of # Config /\ c.ph \in {"ok", "created"} /\ calls' = OtherCalls(c)
    /\ pending' = {r \in pending : ~Waits(r, c)}
    /\ IF c.ph = "ok" THEN UNCHANGED <<recent, doubts>>
       ELSE IF pending' # pending /\ Owns(c.gen, token)
       THEN recent' = recent \cup {<<c.of, c.gen>>} /\ UNCHANGED doubts
       ELSE doubts' = [doubts EXCEPT ![<<c.of, c.gen>>] = @ + 1] /\ UNCHANGED recent
    /\ UNCHANGED <<session, renewal, stored, bounds>>

\* A refusal is final, a failure of the server or of the network is not.
Failed(c) ==
    /\ c.ph = "error" /\ calls' = OtherCalls(c)
    /\ \E again \in BOOLEAN : pending' = Retried({c}, again, token)
    /\ UNCHANGED <<session, renewal, recent, ghost, bounds>>

-----------------------------------------------------------------------------
(* refreshAccessSession                                                     *)

\* Mistake: a request that joins keeps what the first one wanted.
Joined_First(keeps) == clears

Joined(keeps) == clears \/ ~keeps

\* keeps: preserveTokenOnFailure.
Refresh(keeps) ==
    /\ IF \E f \in refreshing : f.gen = gen
       THEN clears' = Joined(keeps) /\ UNCHANGED refreshing
       ELSE clears' = ~keeps /\ refreshing' = refreshing \cup {[gen |-> gen, ph |-> "sent"]}
    /\ business' = (business \/ ~keeps)

\* The first 401 of a request waits for a new token, the second is a failure like another.
Unauthorized(c) ==
    /\ c.ph = "401"
    /\ IF c.gen = gen /\ c.tries = 1
       THEN calls' = OtherCalls(c) \cup {[c EXCEPT !.ph = "renewing"]} /\ Refresh(TRUE) /\ UNCHANGED pending
       ELSE /\ calls' = OtherCalls(c) /\ pending' = Retried({c}, TRUE, token) /\ UNCHANGED renewal
    /\ UNCHANGED <<session, recent, ghost, bounds>>

\* A request of the page itself was answered 401.
Business ==
    /\ Act /\ token /\ Refresh(FALSE) /\ UNCHANGED <<session, reports, ghost>>

\* The answer of another session's refresh says nothing; the one of this session renews the
\* token of those that wait, or fails them, and the session only when one of them wants that.
Renewed(f) ==
    /\ f.ph # "sent" /\ refreshing' = refreshing \ {f}
    /\ LET waiting == {c \in calls : c.ph = "renewing" /\ c.gen = f.gen}
           fine    == f.gen = gen /\ f.ph = "ok" IN
       /\ token' = IF f.gen # gen THEN token ELSE fine \/ (token /\ ~clears)
       /\ valid' = (fine \/ valid)
       /\ calls' = (calls \ waiting) \cup
              (IF fine THEN {[c EXCEPT !.ph = "sent", !.tries = 2, !.as = gen] : c \in waiting} ELSE {})
       /\ pending' = IF fine THEN pending ELSE Retried(waiting, TRUE, token')
       /\ business' = (business /\ f.gen # gen)
    /\ UNCHANGED <<gen, wanted, clears, recent, ghost, bounds>>

\* setAccessToken: a login, a logout or a switch of groups.
setAccessToken(held) ==
    /\ Act /\ gen < MaxGens /\ gen' = gen + 1 /\ token' = held /\ valid' = held /\ business' = FALSE
    /\ UNCHANGED <<wanted, refreshing, clears, reports, ghost>>

-----------------------------------------------------------------------------
(* The server, and the time.                                                *)
Answered(c, ph) == calls' = OtherCalls(c) \cup {[c EXCEPT !.ph = ph, !.lets = IF c.of = Config /\ ph = "ok" THEN wanted ELSE {}]}
                   /\ UNCHANGED <<session, renewal, pending, recent>>

Stores(c) == stored' = [stored EXCEPT ![<<c.of, c.gen>>] = @ + 1]

Serve(c) ==
    /\ c.ph = "sent" /\ (valid \/ c.as # gen) /\ UNCHANGED <<doubts, bounds>>
    /\ IF c.of \in wanted THEN Answered(c, "created") /\ Stores(c) ELSE Answered(c, "ok") /\ UNCHANGED stored

Reject(c) == c.ph = "sent" /\ (~valid \/ c.as # gen) /\ Answered(c, "401") /\ UNCHANGED <<ghost, bounds>>

\* A request is lost, or its answer; or it takes more than ten seconds.
Lost(c) ==
    /\ c.ph = "sent" /\ mishaps < MaxMishaps /\ mishaps' = mishaps + 1 /\ Answered(c, "error")
    /\ \/ UNCHANGED ghost
       \/ c.of \in wanted /\ Stores(c) /\ doubts' = [doubts EXCEPT ![<<c.of, c.gen>>] = @ + 1]
    /\ UNCHANGED acts

ServeRefresh(f) ==
    /\ f.ph = "sent"
    /\ \E ph \in {"ok", "fail"} : refreshing' = (refreshing \ {f}) \cup {[f EXCEPT !.ph = ph]}
    /\ UNCHANGED <<session, clears, business, reports, ghost, bounds>>

Expires ==
    /\ mishaps < MaxMishaps /\ mishaps' = mishaps + 1 /\ valid /\ valid' = FALSE
    /\ UNCHANGED <<gen, token, wanted, renewal, reports, ghost, acts>>

\* An administrator mutes an error.
Mute(e) ==
    /\ mishaps < MaxMishaps /\ mishaps' = mishaps + 1 /\ e \in wanted /\ wanted' = wanted \ {e}
    /\ UNCHANGED <<gen, token, valid, renewal, reports, ghost, acts>>

\* Five minutes.
WindowOver ==
    /\ Act /\ recent # {} /\ recent' = {}
    /\ stored' = [k \in Keys |-> IF k \in recent THEN 0 ELSE stored[k]]
    /\ UNCHANGED <<session, renewal, pending, calls, doubts>>

-----------------------------------------------------------------------------
Next ==
    \/ \E e \in Errors : reportAutomaticFeedback(e) \/ Mute(e)
    \/ \E r \in pending : Deliver(r)
    \/ \E c \in calls : ConfigDone(c) \/ PostDone(c) \/ Failed(c) \/ Unauthorized(c) \/ Serve(c) \/ Reject(c) \/ Lost(c)
    \/ \E f \in refreshing : Renewed(f) \/ ServeRefresh(f)
    \/ \E held \in BOOLEAN : setAccessToken(held)
    \/ Business \/ Expires \/ WindowOver

Spec == Init /\ [][Next]_vars

-----------------------------------------------------------------------------
\* Types, and no more reports at once than MaxPending, none tried more often than three times.
TypeOK ==
    /\ gen \in 1..MaxGens /\ {token, valid, clears, business} \subseteq BOOLEAN
    /\ wanted \subseteq Errors /\ recent \subseteq Keys
    /\ \A r \in pending : r.error \in Errors /\ r.attempts \in 1..3 /\ r.stage \in {Config, "post", "timer"}
    /\ \A c \in calls : c.of \in Errors \cup {Config} /\ c.tries \in 1..2
    /\ Cardinality(pending) <= MaxPending

\* An error of one session is never told with the token of another, whichever of the five
\* waits of a report the session changed in.
ReportsOfSession == \A c \in calls : c.as = c.gen

\* Within the window the server stores an error of a session once, unless an answer that said
\* so was lost, or came when the session was over.
StoredOnce == \A k \in Keys : stored[k] <= 1 + doubts[k]

\* Whoever waits for the settings, the server or a new token waits for a request that runs.
NobodyWaitsInVain ==
    /\ \A r \in pending : r.stage # "timer" => \E c \in calls : Waits(r, c)
    /\ \A c \in calls : c.ph = "renewing" => \E f \in refreshing : f.gen = c.gen

\* A renewal that fails ends the session exactly when a request of the page waits for it:
\* reporting an error never logs the member out.
RefreshClears == (\E f \in refreshing : f.gen = gen) => clears = business
=============================================================================
