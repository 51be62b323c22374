---------------------------- MODULE PushEnrolment ----------------------------
(***************************************************************************)
(* How a browser is enrolled for the server's alerts, and taken out again  *)
(* (learningNotifications.js with AppRoot, the permission dialog and the   *)
(* member's own reminder button).  Enrolling and removing are put in one   *)
(* chain and run one after the other, on behalf of whoever is signed in    *)
(* when their requests are sent; the account and the group may change in   *)
(* between.  While pushSubscriptionReady is set the page shows no alert of *)
(* its own.                                                                *)
(*                                                                         *)
(* The server is modelled by which scope (account and group) an endpoint   *)
(* is bound to and which scopes are muted.  missed: enrolling failed while *)
(* the subscription of an earlier scope counted as ready.  left: the       *)
(* browser refused to end the subscription the last time it was asked.     *)
(* Left out: Android browsers, which the watch only takes out.             *)
(***************************************************************************)
EXTENDS Naturals, Sequences, FiniteSets

CONSTANTS
    Users, Groups, None,
    MaxActs, MaxMishaps, MaxEndpoints, MaxChain

VARIABLES
    user, group, began, leaving,     \* who is signed in; somebody was; logout waits for the chain
    permission, subscription, ready, \* the browser's; the endpoint or 0; pushSubscriptionReady
    bindings, muted,                 \* the server's
    chain, ask,                      \* the operations to run; a request for permission
    missed, left, strayed, acts, mishaps

session == <<user, group, began, leaving>>
browser == <<permission, subscription, ready>>
server  == <<bindings, muted>>
ghost   == <<missed, left, strayed>>
vars    == <<session, browser, server, chain, ask, ghost, acts, mishaps>>

scope    == <<user, group>>
Scopes   == Users \X Groups
Nobody   == <<None, None>>
SignedIn == user # None
NoAsk    == [via |-> "none", scope |-> Nobody, ph |-> "none"]

\* An operation: at is the scope its request was sent for, by who waits for it.
Operation(op, api, by) == [op |-> op, api |-> api, by |-> by, ph |-> "queued", at |-> Nobody]
Sync(by)   == Operation("sync", TRUE, by)
Remove(api, by) == Operation("remove", api, by)

Init ==
    /\ user = None /\ group = None /\ began = FALSE /\ leaving = FALSE
    /\ permission \in {"default", "granted"} /\ ready = FALSE
    /\ subscription \in (IF permission = "granted" THEN {0, 1} ELSE {0})
    /\ bindings \in {[e \in 1..MaxEndpoints |-> IF e = subscription THEN s ELSE Nobody] : s \in Scopes}
    /\ muted = {} /\ chain = <<>> /\ ask = NoAsk
    /\ missed = FALSE /\ left = FALSE /\ strayed = FALSE /\ acts = 0 /\ mishaps = 0

Act == acts < MaxActs /\ acts' = acts + 1 /\ UNCHANGED mishaps
Fine == UNCHANGED <<acts, mishaps>>
Mishap == mishaps < MaxMishaps /\ mishaps' = mishaps + 1 /\ UNCHANGED acts
Queue(ops) == Len(chain) + Len(ops) <= MaxChain /\ chain' = chain \o ops

-----------------------------------------------------------------------------
(* Signing in and out and choosing a group: the watch of AppRoot.            *)

\* Mistake: a browser that is enrolled is not enrolled again.
Enter_Enrolled(u, g) ==
    /\ user' = u /\ group' = g /\ began' = TRUE
    /\ IF ready THEN UNCHANGED chain ELSE Queue(<<Sync("page")>>)
    /\ missed' = FALSE

Enter(u, g) ==
    /\ user' = u /\ group' = g /\ began' = TRUE /\ Queue(<<Sync("page")>>)
    /\ missed' = FALSE

Login(u, g) ==
    /\ Act /\ ~SignedIn /\ Enter(u, g)
    /\ UNCHANGED <<leaving, browser, server, ask, left, strayed>>

Switch(g) ==
    /\ Act /\ SignedIn /\ g # group /\ Enter(user, g)
    /\ UNCHANGED <<leaving, browser, server, ask, left, strayed>>

\* logout waits for the chain to remove the subscription, the session still standing.
Logout ==
    /\ Act /\ SignedIn /\ ~leaving /\ leaving' = TRUE /\ Queue(<<Remove(TRUE, "logout")>>)
    /\ UNCHANGED <<user, group, began, browser, server, ask, ghost>>

\* The session has ended for the server: nobody waits and no request is sent.
Expire ==
    /\ Act /\ SignedIn /\ user' = None /\ group' = None /\ leaving' = FALSE
    /\ Queue(<<Remove(FALSE, "page"), Remove(FALSE, "page")>>)
    /\ UNCHANGED <<began, browser, server, ask, ghost>>

-----------------------------------------------------------------------------
(* The dialog and the member's own button.                                   *)
Allow(via) ==
    /\ Act /\ SignedIn /\ ask = NoAsk
    /\ via = "dialog" => permission = "default"
    /\ via = "button" => permission = "default" \/ (permission = "granted" /\ (~ready \/ scope \in muted))
    /\ ask' = [via |-> via, scope |-> scope, ph |-> "prompt"]
    /\ UNCHANGED <<session, browser, server, chain, ghost>>

\* Notification.requestPermission: the member answers once and for all.
Answer(p) ==
    /\ ask.ph = "prompt" /\ permission \in {"default", p} /\ permission' = p
    /\ IF p = "granted" THEN ask' = [ask EXCEPT !.ph = "sync"] /\ Queue(<<Sync("ask")>>)
       ELSE ask' = NoAsk /\ UNCHANGED chain
    /\ Fine /\ UNCHANGED <<session, subscription, ready, server, ghost>>

\* Mistake: the dialog does not look whether the scope is still the one it was asked in.
StillAsked_Not == TRUE

StillAsked == ask.via = "dialog" => ask.scope = scope

\* setMuted(false) is for the scope of now.
Unmute ==
    /\ ask.ph = "save" /\ ask' = NoAsk
    /\ LET applies == SignedIn /\ StillAsked IN
       /\ muted' = IF applies THEN muted \ {scope} ELSE muted
       /\ strayed' = (strayed \/ (applies /\ ask.via = "button" /\ scope # ask.scope))
    /\ Fine /\ UNCHANGED <<session, browser, bindings, chain, missed, left>>

Mute ==
    /\ Act /\ SignedIn /\ ready /\ scope \notin muted /\ muted' = muted \cup {scope}
    /\ UNCHANGED <<session, browser, bindings, chain, ask, ghost>>

-----------------------------------------------------------------------------
(* The chain.                                                                *)
head == chain[1]
Running(op, ph) == chain # <<>> /\ head.op = op /\ head.ph = ph
Goes(ph, at) == chain' = <<[head EXCEPT !.ph = ph, !.at = at]>> \o Tail(chain)

\* The head has ended; whoever waited for it goes on.
Ends(fine) ==
    /\ ask' = IF head.by = "ask" THEN (IF fine THEN [ask EXCEPT !.ph = "save"] ELSE NoAsk) ELSE ask
    /\ IF head.by = "logout" /\ leaving
       THEN /\ user' = None /\ group' = None /\ leaving' = FALSE
            /\ chain' = Append(Tail(chain), Remove(FALSE, "page"))
       ELSE chain' = Tail(chain) /\ UNCHANGED <<user, group, leaving>>
    /\ UNCHANGED began

\* registerLearningPush: the key, the subscription, the binding.
SyncStarts ==
    /\ Running("sync", "queued") /\ Fine
    /\ IF permission # "granted" THEN Ends(FALSE) ELSE Goes("config", scope) /\ UNCHANGED <<session, ask>>
    /\ UNCHANGED <<browser, server, ghost>>

\* The key is answered to a session; then the browser's subscription is found or made.
Subscribes ==
    /\ Running("sync", "config") /\ head.at # Nobody /\ Fine
    /\ subscription' = IF subscription # 0 THEN subscription
                       ELSE CHOOSE e \in 1..MaxEndpoints : bindings[e] = Nobody
    /\ Goes("bind", scope)
    /\ UNCHANGED <<session, permission, ready, server, ask, ghost>>

Binds ==
    /\ Running("sync", "bind") /\ head.at # Nobody /\ Fine
    /\ bindings' = [bindings EXCEPT ![subscription] = head.at]
    /\ Goes("bound", head.at)
    /\ UNCHANGED <<session, browser, muted, ask, ghost>>

Bound ==
    /\ Running("sync", "bound") /\ ready' = TRUE /\ Ends(TRUE) /\ Fine
    /\ UNCHANGED <<permission, subscription, server, ghost>>

\* Any of its steps fails, as it does when nobody is signed in.
SyncFails ==
    /\ chain # <<>> /\ head.op = "sync" /\ head.ph \in {"config", "bind", "bound"}
    /\ IF head.at = Nobody THEN Fine ELSE Mishap
    /\ Ends(FALSE) /\ missed' = (missed \/ ready)
    /\ UNCHANGED <<browser, server, left, strayed>>

\* removeLearningPush: pushes do not count from here on.
RemoveStarts ==
    /\ Running("remove", "queued") /\ ready' = FALSE /\ Fine
    /\ IF subscription = 0 THEN Ends(TRUE)
       ELSE Goes(IF head.api THEN "delete" ELSE "unsubscribe", scope) /\ UNCHANGED <<session, ask>>
    /\ UNCHANGED <<permission, subscription, server, ghost>>

\* The server forgets the endpoint if it is bound to the account, or fails.
Deletes ==
    /\ Running("remove", "delete") /\ Goes("unsubscribe", head.at)
    /\ \/ /\ Fine
          /\ bindings' = IF bindings[subscription][1] = head.at[1]
                         THEN [bindings EXCEPT ![subscription] = Nobody] ELSE bindings
       \/ Mishap /\ UNCHANGED bindings
    /\ UNCHANGED <<session, browser, muted, ask, ghost>>

\* Mistake: the subscription is kept when the server could not be told.
Unsubscribed_WhenTold == bindings[subscription] = Nobody

Unsubscribed == TRUE

\* finally unsubscribe: the endpoint is dead, whatever the server knows.
Unsubscribes ==
    /\ Running("remove", "unsubscribe")
    /\ \/ /\ Fine /\ left' = FALSE
          /\ subscription' = IF Unsubscribed THEN 0 ELSE subscription
          /\ bindings' = IF Unsubscribed THEN [bindings EXCEPT ![subscription] = Nobody] ELSE bindings
       \/ Mishap /\ left' = TRUE /\ UNCHANGED <<subscription, bindings>>
    /\ Ends(TRUE)
    /\ UNCHANGED <<permission, ready, muted, missed, strayed>>

Next ==
    \/ \E u \in Users, g \in Groups : Login(u, g)
    \/ \E g \in Groups : Switch(g)
    \/ Logout \/ Expire \/ Mute \/ Unmute
    \/ \E via \in {"dialog", "button"} : Allow(via)
    \/ \E p \in {"granted", "denied"} : Answer(p)
    \/ SyncStarts \/ Subscribes \/ Binds \/ Bound \/ SyncFails
    \/ RemoveStarts \/ Deletes \/ Unsubscribes

Spec == Init /\ [][Next]_vars

-----------------------------------------------------------------------------
\* Types, and the chain of work is not longer than its bound.
TypeOK == subscription \in 0..MaxEndpoints /\ muted \subseteq Scopes /\ Len(chain) <= MaxChain + 1

\* Once the chain has run, a page that leaves the alerts to the server is bound to the
\* account and the group it shows.
AlertsOfScope ==
    chain = <<>> /\ ready /\ ~missed => subscription # 0 /\ bindings[subscription] = scope

\* Once everything has run after somebody has signed out, nothing alerts on the device.
QuietAfterLogout ==
    began /\ ~SignedIn /\ chain = <<>> /\ ~left => subscription = 0

\* A preference changes only in the scope it was changed in.
MutesWhatIsAsked ==
    \A s \in Scopes :
        (s \in muted) # (s \in muted') => s = scope /\ (s \in muted' \/ ask.scope = s \/ strayed')

OnlyAskedMuted == [][MutesWhatIsAsked]_vars
=============================================================================
