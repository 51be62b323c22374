---------------------------- MODULE StudyMemory ----------------------------
(***************************************************************************)
(* Playing positions and favourites, kept on the device and on the server  *)
(* (study-memory.js).  What is saved goes into the storage of its account  *)
(* and waits in pending until the server has it; a poll merges what the    *)
(* server has with what still waits.  The player in a frame writes to the  *)
(* same storage and tells the page by a message.                           *)
(*                                                                         *)
(* Values are numbered in the order in which they are saved, on whichever  *)
(* device; None is the guest.  The sender of all accounts is one function, *)
(* studyAccountAPI, so that a request counts as current again when its     *)
(* account comes back.                                                     *)
(***************************************************************************)
EXTENDS Naturals, Sequences, SequencesExt

CONSTANTS
    Users, None, Items,
    MaxActs,                  \* bound: what people do; a request that fails counts twice
    MaxCalls                  \* bound: requests under way

Owners == Users \cup {None}

VARIABLES
    account, ready, syncing, failure, loadFailed,
    local, pending,           \* the storage of every account: values, and those to be sent
    calls,                    \* requests under way; cur: the worker; waits: polls awaiting it
    frame, told,              \* the account of the player's frame, and of its messages
    server,
    made, mine, put,          \* history: whose a value is, the last saved here, the last stored
    overtaken, revived,       \* history: an older value was stored later; a left worker went on
    acts, faults

page   == <<account, ready, syncing, failure, loadFailed>>
player == <<frame, told>>
seen   == <<made, mine, put, overtaken, revived>>
vars   == <<page, local, pending, calls, player, server, seen, acts, faults>>

Zero == [i \in Items |-> 0]
Put(i, n, w) == [kind |-> "put", own |-> account, item |-> i, ver |-> n, got |-> Zero,
                 moved |-> FALSE, cur |-> TRUE, waits |-> w, ph |-> "sent"]
Get(u)       == [kind |-> "get", own |-> u, item |-> 0, ver |-> 0, got |-> Zero,
                 moved |-> FALSE, cur |-> FALSE, waits |-> 0, ph |-> "sent"]

Waiting(P, u) == {i \in Items : P[u][i] # 0}

\* revision has grown: the polls under way were asked before.
Moved(cs) == [k \in DOMAIN cs |-> IF cs[k].kind = "get" THEN [cs[k] EXCEPT !.moved = TRUE] ELSE cs[k]]

Init ==
    /\ account = None /\ ready = TRUE /\ syncing = FALSE /\ failure = FALSE /\ loadFailed = FALSE
    /\ local = [u \in Owners |-> Zero] /\ pending = local /\ mine = local /\ put = local /\ server = local
    /\ calls = <<>> /\ frame = None /\ told = {} /\ made = <<>>
    /\ overtaken = FALSE /\ revived = FALSE /\ acts = 0 /\ faults = 0

Spent == acts + 2 * faults
Act   == Spent < MaxActs /\ acts' = acts + 1 /\ UNCHANGED faults
Fault == Spent + 2 <= MaxActs /\ faults' = faults + 1
Still == UNCHANGED <<acts, faults>>
Room  == Len(calls) < MaxCalls

-----------------------------------------------------------------------------
\* Mistake: every save starts a worker of its own.
Works_Always(cs) == TRUE

\* One worker at a time sends what waits.
Works(cs) == \A k \in DOMAIN cs : ~cs[k].cur

\* flushStudyMemory, from requests cs, what waits P, turning s and a failure f; w polls wait
\* for it.
Flush(cs, P, s, f, lf, w) ==
    IF ~Works(cs) THEN calls' = cs /\ syncing' = s /\ failure' = f
    ELSE \/ /\ Waiting(P, account) = {} /\ failure' = (f /\ lf)
            /\ calls' = cs \o [n \in 1..w |-> Get(account)] /\ syncing' = (w > 0)
         \/ \E i \in Waiting(P, account) :
               /\ calls' = Append(cs, Put(i, P[account][i], w)) /\ syncing' = TRUE /\ failure' = f

\* syncStudyMemory: by the timer, the focus, the connection or the button.
Sync ==
    /\ account # None /\ Room /\ Still
    /\ IF ready /\ ~Works(calls)
       THEN /\ calls' = [k \in DOMAIN calls |-> IF calls[k].cur THEN [calls[k] EXCEPT !.waits = 1] ELSE calls[k]]
            /\ UNCHANGED <<syncing, failure>>
       ELSE IF ready THEN Flush(calls, pending, syncing, failure, loadFailed, 1)
       ELSE calls' = Append(calls, Get(account)) /\ syncing' = TRUE /\ UNCHANGED failure
    /\ UNCHANGED <<account, ready, loadFailed, local, pending, player, server, seen>>

\* Mistake: the worker of the account that was left stays the worker.
Unbound_KeepsWorker(cs) == Moved(cs)

Unbound(cs) == [k \in DOMAIN cs |-> [Moved(cs)[k] EXCEPT !.cur = FALSE]]

\* bindStudyAccount with another account, or with none.
bindStudyAccount(u) ==
    /\ Act /\ u # account /\ Room
    /\ account' = u /\ ready' = (u = None) /\ failure' = FALSE /\ loadFailed' = FALSE /\ syncing' = (u # None)
    /\ calls' = IF u = None THEN Unbound(calls) ELSE Append(Unbound(calls), Get(u))
    /\ revived' = (revived \/ \E k \in DOMAIN calls : calls[k].kind = "put" /\ calls[k].own = u)
    /\ UNCHANGED <<local, pending, player, server, made, mine, put, overtaken>>

\* A value saved for account u on this device.
Stored(u, i) ==
    LET n == Len(made) + 1 IN
    /\ made' = Append(made, u) /\ local' = [local EXCEPT ![u][i] = n] /\ mine' = [mine EXCEPT ![u][i] = n]
    /\ pending' = IF u = None THEN pending ELSE [pending EXCEPT ![u][i] = n]
    /\ UNCHANGED <<put, overtaken, revived>>

\* savePosition and toggleFavorite: refused until the account's memory was read.
Save(i) ==
    /\ Act /\ ready /\ Stored(account, i)
    /\ IF account = None THEN calls' = Moved(calls) /\ UNCHANGED <<syncing, failure>>
       ELSE Flush(Moved(calls), pending', syncing, failure, loadFailed, 0)
    /\ UNCHANGED <<account, ready, loadFailed, player, server>>

\* setStudyFrameAccount: the frame takes the account of the page that shows it.
OpenFrame ==
    /\ Act /\ account # None /\ frame # account /\ frame' = account
    /\ UNCHANGED <<page, local, pending, calls, told, server, seen>>

\* The frame saves, until it is closed for another account too.
FrameSave(i) ==
    /\ Act /\ frame # None /\ Stored(frame, i) /\ told' = told \cup {frame}
    /\ UNCHANGED <<page, calls, frame, server>>

studyFrameChanged ==
    /\ Still /\ \E u \in told :
          /\ told' = told \ {u}
          /\ IF u # account THEN UNCHANGED <<calls, syncing, failure>>
             ELSE IF ready THEN Flush(Moved(calls), pending, syncing, failure, loadFailed, 0)
             ELSE calls' = Moved(calls) /\ UNCHANGED <<syncing, failure>>
    /\ UNCHANGED <<account, ready, loadFailed, local, pending, frame, server, seen>>

-----------------------------------------------------------------------------
\* The account is used on another device.
OtherDevice(u, i) ==
    /\ Act /\ server' = [server EXCEPT ![u][i] = Len(made) + 1] /\ made' = Append(made, u)
    /\ UNCHANGED <<page, local, pending, calls, player, mine, put, overtaken, revived>>

\* The server stores or answers; the request, or its answer, may be lost.
Serve(k) ==
    LET c == calls[k] IN
    /\ c.ph = "sent" /\ UNCHANGED acts
    /\ \/ UNCHANGED faults /\ calls' = [calls EXCEPT ![k].ph = "ok", ![k].got = IF c.kind = "get" THEN server[c.own] ELSE Zero]
       \/ Fault /\ calls' = [calls EXCEPT ![k].ph = "err"]
    /\ IF c.kind = "get" THEN UNCHANGED <<server, put, overtaken>>
       ELSE \/ /\ server' = [server EXCEPT ![c.own][c.item] = c.ver] /\ put' = [put EXCEPT ![c.own][c.item] = c.ver]
               /\ overtaken' = (overtaken \/ c.ver < put[c.own][c.item])
            \/ faults' # faults /\ UNCHANGED <<server, put, overtaken>>
    /\ UNCHANGED <<page, local, pending, player, made, mine, revived>>

\* Mistake: whatever is answered counts for the account that is bound now.
Ignored_Never(c) == FALSE

\* active(), seen from the answer of an account that has been left.
Ignored(c) == c.own # account

\* Mistake: an answer takes whatever waits under its key.
Sent_Whatever(c) == TRUE

\* What waits is what the server has got, and nothing newer.
Sent(c) == pending[account][c.item] = c.ver

\* The worker goes on with what is left; when it ends, the polls that waited for it start.
PutDone(k) ==
    LET c  == calls[k]
        P  == IF c.ph = "ok" /\ Sent(c) THEN [pending EXCEPT ![account][c.item] = 0] ELSE pending
        cs == IF P # pending THEN Moved(calls) ELSE calls IN
    /\ c.kind = "put" /\ c.ph # "sent" /\ ~Ignored(c) /\ Still /\ pending' = P
    /\ \/ \E i \in Waiting(P, account) :
             /\ c.ph = "ok" /\ calls' = [cs EXCEPT ![k].item = i, ![k].ver = P[account][i], ![k].ph = "sent"]
             /\ UNCHANGED <<syncing, failure>>
       \/ /\ c.ph = "err" \/ Waiting(P, account) = {}
          /\ calls' = RemoveAt(cs, k) \o [n \in 1..c.waits |-> Get(account)] /\ syncing' = (c.waits > 0)
          /\ failure' = (c.ph = "err" \/ (failure /\ loadFailed))
    /\ UNCHANGED <<account, ready, loadFailed, local, player, server, seen>>

\* Mistake: a poll counts although something was saved after it was asked.
Unmoved_Any(c) == TRUE

Unmoved(c) == ~c.moved

\* Mistake: the server's values replace those that still wait.
Merged_Remote(c) == c.got

Merged(c) == [i \in Items |-> IF pending[account][i] # 0 THEN pending[account][i] ELSE c.got[i]]

GetDone(k) ==
    LET c    == calls[k]
        uses == c.ph = "ok" /\ Unmoved(c)
        rest == IF uses THEN Moved(RemoveAt(calls, k)) ELSE RemoveAt(calls, k) IN
    /\ c.kind = "get" /\ c.ph # "sent" /\ ~Ignored(c) /\ Still
    /\ loadFailed' = (c.ph = "err") /\ ready' = TRUE
    /\ local' = IF uses THEN [local EXCEPT ![account] = Merged(c)] ELSE local
    /\ Flush(rest, pending, FALSE, c.ph = "err" \/ (Waiting(pending, account) # {} /\ failure), loadFailed', 0)
    /\ UNCHANGED <<account, pending, player, server, seen>>

\* The answer is of no use, nor do the polls that wait for it start.
Left(k) ==
    /\ calls[k].ph # "sent" /\ Ignored(calls[k]) /\ Still /\ calls' = RemoveAt(calls, k)
    /\ UNCHANGED <<page, local, pending, player, server, seen>>

Next ==
    \/ Sync \/ OpenFrame \/ studyFrameChanged
    \/ \E u \in Owners : bindStudyAccount(u)
    \/ \E i \in Items : Save(i) \/ FrameSave(i) \/ \E u \in Users : OtherDevice(u, i)
    \/ \E k \in DOMAIN calls : Serve(k) \/ PutDone(k) \/ GetDone(k) \/ Left(k)

Spec == Init /\ [][Next]_vars

-----------------------------------------------------------------------------
\* Types: what waits was saved on this device for the account it waits for, and every value
\* has a number.
TypeOK ==
    /\ account \in Owners /\ frame \in Owners /\ {ready, syncing, failure, loadFailed} \subseteq BOOLEAN
    /\ \A u \in Owners, i \in Items : {local[u][i], server[u][i]} \subseteq 0..Len(made) /\ pending[u][i] \in {0, mine[u][i]}
    /\ \A k \in DOMAIN calls : calls[k].own \in Users /\ calls[k].item \in Items \cup {0}

\* What is remembered for an account was saved by that account, on whatever device, and is
\* never older than what was last saved here: neither a late poll nor one of an account that
\* was left takes it back (the comparison of revisions, study-memory.js:85).
MemoryOfAccount ==
    \A u \in Owners, i \in Items :
        /\ local[u][i] # 0 => made[local[u][i]] = u
        /\ ~overtaken => local[u][i] >= mine[u][i]

\* What was saved here has reached the server or waits to be sent, and reaches it in the
\* order it was saved in, unless a worker of before a sign-out went on after it.
NothingUnsent ==
    /\ \A u \in Users, i \in Items : mine[u][i] # 0 => pending[u][i] = mine[u][i] \/ put[u][i] = mine[u][i] \/ overtaken
    /\ overtaken => revived

\* With nothing under way the memory can be used, nothing turns, and what still waits is
\* told as not yet synchronised, so that it can be sent again.
SyncSettles ==
    calls = <<>> /\ told = {} => ready /\ ~syncing /\ (account # None /\ Waiting(pending, account) # {} => failure)
=============================================================================
