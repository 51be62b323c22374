------------------------------ MODULE Feedback ------------------------------
(***************************************************************************)
(* The two pages of feedback, FeedbackCenter.vue for what a member wrote   *)
(* and FeedbackAdmin.vue for what everybody did, and the store of unread   *)
(* ones, feedbackUnread.js.  A list is loaded, one item of it is open; its *)
(* detail is read, then its images, then the server is told that it was    *)
(* read, then what is unread is asked again, all awaited in one chain.     *)
(* listRequest, detailRequest and the store's request decide which answers *)
(* count; a call carries whether each is still the one it captured.        *)
(*                                                                         *)
(* What is new in an item is numbered: for a member the replies, for an    *)
(* administrator the item itself.  Left out: what is written in an item,   *)
(* a reply or the form, and the images chosen for the form.                *)
(***************************************************************************)
EXTENDS Naturals, FiniteSets

CONSTANTS
    Items, Sources,
    MaxActs,                         \* things done on the page and mishaps, together
    MaxMishaps, MaxCalls

VARIABLES
    admin,                           \* which of the two pages
    posts, news, cursor,             \* server: items, what is new in each, what was read
    mounted, source, items, opening, selected, urls,
    loading, detailLoading, sending,
    unread,                          \* the store's
    running,
    seen, acked, behind, missed,     \* what was on the screen, what the page knows was read
    acts, mishaps

server == <<posts, news, cursor>>
detail == <<opening, selected, urls, detailLoading>>
page   == <<mounted, source, items, loading, sending>>
ghost  == <<seen, acked, behind, missed>>
bounds == <<acts, mishaps>>
vars   == <<admin, server, page, detail, unread, running, ghost, bounds>>

NoDetail == [id |-> 0, new |-> 0]
Locks  == {"submit", "status", "reply"}
All    == "all"
Unread == {id \in posts : news[id] > cursor[id]}

\* lnow, dnow, unow: listRequest, detailRequest, the store's request are what they were.
Call(op, stage) ==
    [op |-> op, id |-> 0, stage |-> stage, ph |-> "sent", new |-> 0, ids |-> {}, source |-> source,
     lnow |-> FALSE, dnow |-> FALSE, unow |-> FALSE]
Stage(c, stage) == [c EXCEPT !.stage = stage, !.ph = "sent", !.ids = {}]
OtherCalls(c)   == running \ {c}
Unlisted(S)     == {[d EXCEPT !.lnow = FALSE] : d \in S}
Closed(S)       == {[d EXCEPT !.dnow = FALSE] : d \in S}
Loads(S, c)     == Unlisted(S) \cup {[Stage(c, "list") EXCEPT !.lnow = TRUE, !.source = source']}

\* The later of two replies.
Later(a, b) == IF a < b THEN b ELSE a

Room   == Cardinality(running) < MaxCalls
Act    == acts + mishaps < MaxActs /\ acts' = acts + 1 /\ UNCHANGED <<admin, mishaps>>
Mishap == acts + mishaps < MaxActs /\ mishaps < MaxMishaps /\ mishaps' = mishaps + 1

Init ==
    /\ admin \in BOOLEAN
    /\ posts \in SUBSET Items /\ cursor = [id \in Items |-> 0]
    /\ news = [id \in Items |-> IF admin THEN 1 ELSE 0]
    /\ mounted = TRUE /\ source = All /\ items = {} /\ opening = 0 /\ selected = NoDetail /\ urls = {}
    /\ loading = TRUE /\ detailLoading = FALSE /\ sending = {} /\ unread = {}
    /\ running = {[Call("list", "list") EXCEPT !.lnow = TRUE]}
    /\ seen = [id \in Items |-> 0] /\ acked = [id \in Items |-> 0] /\ behind = FALSE /\ missed = FALSE
    /\ acts = 0 /\ mishaps = 0

-----------------------------------------------------------------------------
(* closeItem, openItem                                                      *)

\* Mistake: the object URLs stay until the page is left.
Revoked_Not == urls

Revoked == {}

Close(S) ==
    /\ opening' = 0 /\ selected' = NoDetail /\ detailLoading' = FALSE /\ urls' = Revoked
    /\ running' = Closed(S)

Open(S, c, id) ==
    /\ opening' = id /\ selected' = NoDetail /\ detailLoading' = TRUE /\ urls' = Revoked
    /\ running' = Closed(S) \cup {[Stage(c, "detail") EXCEPT !.id = id, !.dnow = TRUE]}

\* A member's item with a new reply is opened again, not closed.
ToggleItem(id) ==
    /\ Act /\ Room /\ mounted /\ id \in items
    /\ IF opening = id /\ (admin \/ id \notin unread)
       THEN Close(running)
       ELSE Open(running, Call("open", "detail"), id)
    /\ UNCHANGED <<server, page, unread, ghost>>

\* The filters.
SelectSource(s) ==
    /\ Act /\ Room /\ mounted /\ s # source /\ source' = s /\ loading' = TRUE
    /\ opening' = 0 /\ selected' = NoDetail /\ detailLoading' = FALSE /\ urls' = Revoked
    /\ running' = Loads(Closed(running), Call("list", "list"))
    /\ UNCHANGED <<server, mounted, items, sending, unread, ghost>>

loadList ==
    /\ Act /\ Room /\ mounted /\ admin /\ ~loading /\ loading' = TRUE
    /\ UNCHANGED <<server, mounted, source, items, sending, detail, unread, ghost>>
    /\ running' = Loads(running, Call("list", "list"))

\* Each kind of change has a lock of its own: submitting, savingStatus, replying.
Sends(op, id) ==
    /\ Act /\ Room /\ mounted /\ op \notin sending /\ sending' = sending \cup {op}
    /\ running' = running \cup {[Call(op, "api") EXCEPT !.id = id]}
    /\ UNCHANGED <<server, mounted, source, items, loading, detail, unread, ghost>>

\* An administrator's are for the item that is open.
Handled      == admin /\ selected # NoDetail /\ ~detailLoading
updateStatus == Handled /\ Sends("status", selected.id)
reply        == Handled /\ Sends("reply", selected.id)

submit == ~admin /\ posts # Items /\ Sends("submit", 0)

\* onBeforeUnmount: what is awaited goes on behind the page that was left.
Leave ==
    /\ Act /\ mounted /\ mounted' = FALSE /\ Close(running)
    /\ UNCHANGED <<server, source, items, loading, sending, unread, ghost>>

\* The timer of AppRoot; one refresh for each request of the store.
Poll ==
    /\ Act /\ Room /\ \A c \in running : ~(c.stage = "unread" /\ c.unow)
    /\ running' = running \cup {[Call("poll", "unread") EXCEPT !.unow = TRUE]}
    /\ UNCHANGED <<server, page, detail, unread, ghost>>

-----------------------------------------------------------------------------
(* The server.                                                              *)
Answered(c, a) == c.ph = "sent" /\ running' = OtherCalls(c) \cup {a} /\ UNCHANGED <<admin, page, detail, unread, ghost, acts>>
Fine(c)        == [c EXCEPT !.ph = "ok"]

\* A filter keeps some of the items.
ServeList(c) ==
    /\ c.stage = "list"
    /\ \E S \in IF c.source = All THEN {posts} ELSE SUBSET posts : Answered(c, [Fine(c) EXCEPT !.ids = S])
    /\ UNCHANGED <<server, mishaps>>

ServeDetail(c) ==
    /\ c.stage \in {"detail", "image"}
    /\ Answered(c, [Fine(c) EXCEPT !.new = IF c.stage = "detail" THEN news[c.id] ELSE @])
    /\ UNCHANGED <<server, mishaps>>

\* Mistake: what was read is all there is by now.
Receipt_Latest(c) == news[c.id]

\* MarkRead of an administrator is for the item; a member's has the last reply it came with.
Receipt(c) == c.new

ServeRead(c) ==
    /\ c.stage = "read" /\ Answered(c, Fine(c))
    /\ cursor' = [cursor EXCEPT ![c.id] = Later(@, Receipt(c))]
    /\ UNCHANGED <<posts, news, mishaps>>

ServeUnread(c) ==
    c.stage = "unread" /\ Answered(c, [Fine(c) EXCEPT !.ids = Unread]) /\ UNCHANGED <<server, mishaps>>

ServeChange(c) ==
    /\ c.stage = "api"
    /\ IF c.op = "submit"
       THEN LET id == CHOOSE i \in Items \ posts : TRUE IN
            posts # Items /\ posts' = posts \cup {id} /\ Answered(c, [Fine(c) EXCEPT !.id = id])
       ELSE Answered(c, Fine(c)) /\ UNCHANGED posts
    /\ UNCHANGED <<news, cursor, mishaps>>

Lost(c) ==
    /\ Mishap
    /\ Answered(c, [c EXCEPT !.ph = "error"]) /\ UNCHANGED server

\* Somebody replies to a member, or writes to the administrators.
OtherReplies(id) ==
    /\ Mishap
    /\ IF admin THEN posts' = posts \cup {id} /\ id \notin posts /\ UNCHANGED news
       ELSE id \in posts /\ news' = [news EXCEPT ![id] = @ + 1] /\ UNCHANGED posts
    /\ UNCHANGED <<admin, cursor, page, detail, unread, running, ghost, acts>>

-----------------------------------------------------------------------------
(* The answers.                                                             *)
Same == <<admin, server, mounted, source, bounds>>

\* Mistake: the lock of what was sent is not given back.
Released_List(c) ==
    /\ loading' = (loading /\ ~c.lnow)
    /\ sending' = sending

\* The finally clauses of loadList and of what was sent.
Released(c) ==
    /\ loading' = (loading /\ ~c.lnow)
    /\ sending' = sending \ {c.op}

\* The chain of awaits ends here.
Ends(c) == running' = OtherCalls(c) /\ Released(c) /\ UNCHANGED <<opening, selected, urls>>
           /\ detailLoading' = (detailLoading /\ ~c.dnow)

\* Mistake: a list that was asked for earlier replaces a later one.
Newest_Not(c) == TRUE

Newest(c) == c.lnow

ListDone(c) ==
    /\ c.stage = "list" /\ c.ph = "ok" /\ Newest(c) /\ items' = c.ids
    /\ LET target == IF c.id # 0 THEN c.id ELSE selected.id IN
       IF target \in c.ids
       THEN Open(OtherCalls(c), c, target) /\ UNCHANGED <<loading, sending>>
       ELSE Close(OtherCalls(c)) /\ Released(c)
    /\ UNCHANGED <<Same, unread, ghost>>

ListFails(c) ==
    /\ c.stage = "list" /\ (c.ph = "error" \/ (c.ph = "ok" /\ ~Newest(c)))
    /\ Ends(c) /\ missed' = (missed \/ c.lnow)
    /\ UNCHANGED <<Same, items, unread, seen, acked, behind>>

\* The detail, then its images, each of them asked whether the item is still open.
DetailDone(c) ==
    /\ c.stage = "detail" /\ c.ph = "ok" /\ c.dnow
    /\ running' = OtherCalls(c) \cup {Stage(c, "image")}
    /\ UNCHANGED <<Same, items, loading, sending, detail, unread, ghost>>

\* Mistake: it is asked before an image is read, and not after.
StillOpen_Before(c) == TRUE

StillOpen(c) == c.dnow

\* An item with images, or without.
Shows(c) ==
    /\ c.stage = "image" /\ c.ph = "ok" /\ StillOpen(c)
    /\ urls' = urls \cup {c.id} \/ UNCHANGED urls
    /\ selected' = [id |-> c.id, new |-> c.new]
    /\ running' = OtherCalls(c) \cup {Stage(c, "read")}
    /\ IF mounted THEN seen' = [seen EXCEPT ![c.id] = Later(@, c.new)] /\ UNCHANGED behind
       ELSE behind' = TRUE /\ UNCHANGED seen
    /\ UNCHANGED <<Same, items, loading, sending, opening, detailLoading, unread, acked, missed>>

DetailFails(c) ==
    /\ c.stage \in {"detail", "image"} /\ (c.ph = "error" \/ (c.ph = "ok" /\ ~c.dnow))
    /\ IF c.dnow THEN Close(OtherCalls(c)) /\ Released(c) ELSE Ends(c)
    /\ missed' = (missed \/ c.dnow)
    /\ UNCHANGED <<Same, items, unread, seen, acked, behind>>

\* Mistake: what is unread was asked before, and its answer still counts.
NewRequest_Not(S) == S

NewRequest(S) == {[d EXCEPT !.unow = FALSE] : d \in S}

\* markRead, and the refresh it waits for.
ReadDone(c) ==
    /\ c.stage = "read" /\ c.ph = "ok"
    /\ unread' = unread \ {c.id} /\ acked' = [acked EXCEPT ![c.id] = Later(@, c.new)]
    /\ running' = NewRequest(OtherCalls(c)) \cup {[Stage(c, "unread") EXCEPT !.unow = TRUE]}
    /\ UNCHANGED <<Same, items, loading, sending, detail, seen, behind, missed>>

UnreadDone(c) ==
    /\ c.stage = "unread" /\ c.ph = "ok"
    /\ unread' = IF c.unow THEN c.ids ELSE unread
    /\ Ends(c) /\ UNCHANGED <<Same, items, ghost>>

\* A failure to mark or to refresh is ignored.
ReadFails(c) ==
    /\ c.stage \in {"read", "unread"} /\ c.ph = "error" /\ Ends(c)
    /\ UNCHANGED <<Same, items, unread, ghost>>

\* What was sent is read again, and opened.
Sent(c) ==
    /\ c.stage = "api" /\ c.ph = "ok" /\ loading' = TRUE
    /\ source' = IF c.op = "submit" THEN "manual" ELSE source
    /\ running' = Loads(OtherCalls(c), c)
    /\ UNCHANGED <<admin, server, mounted, bounds, items, sending, detail, unread, ghost>>

Refused(c) ==
    /\ c.stage = "api" /\ c.ph = "error" /\ Ends(c) /\ UNCHANGED <<Same, items, unread, ghost>>

-----------------------------------------------------------------------------
Serves(c)  == ServeList(c) \/ ServeDetail(c) \/ ServeRead(c) \/ ServeUnread(c) \/ ServeChange(c) \/ Lost(c)
Answers(c) ==
    \/ ListDone(c) \/ ListFails(c) \/ DetailDone(c) \/ Shows(c) \/ DetailFails(c)
    \/ ReadDone(c) \/ UnreadDone(c) \/ ReadFails(c) \/ Sent(c) \/ Refused(c)

Next ==
    \/ loadList \/ updateStatus \/ reply \/ submit \/ Leave \/ Poll
    \/ \E id \in Items : ToggleItem(id) \/ OtherReplies(id)
    \/ \E s \in Sources : SelectSource(s)
    \/ \E c \in running : Serves(c) \/ Answers(c)

Spec == Init /\ [][Next]_vars

-----------------------------------------------------------------------------
\* Types: only what was posted is listed or unread, an image belongs to an item.
TypeOK ==
    /\ posts \subseteq Items /\ items \subseteq posts /\ unread \subseteq posts
    /\ news \in [Items -> Nat] /\ cursor \in [Items -> Nat]
    /\ opening \in Items \cup {0} /\ urls \subseteq Items /\ source \in Sources
    /\ sending \subseteq Locks /\ \A b \in {mounted, loading, detailLoading} : b \in BOOLEAN

\* However late the details and lists of before answer, what is shown is the item that is
\* open, the open item is in the list, and only its images are held in memory; of a page
\* that was left only what was being sent is read again.
ShowsWhatIsOpen ==
    /\ selected # NoDetail => selected.id = opening
    /\ opening # 0 => opening \in items
    /\ urls \subseteq {opening}
    /\ ~mounted /\ ~behind => selected = NoDetail

\* A reply is read for the server only when it was on the screen: one that comes while an
\* older one is being read stays unread, unless the page was left behind the chain.
UnseenStaysUnread == ~behind => \A id \in Items : cursor[id] <= seen[id]

\* The dot of an item that was read does not come back with an answer from before.
DotStaysAway == \A id \in unread : news[id] > acked[id]

\* The spinners and locks go, and the list of the source that is chosen is there.
FeedbackSettles ==
    running = {} =>
        /\ ~loading /\ ~detailLoading /\ sending = {}
        /\ source = All /\ ~missed /\ mishaps = 0 => items = posts
=============================================================================
