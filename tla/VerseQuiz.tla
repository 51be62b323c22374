------------------------------ MODULE VerseQuiz ------------------------------
(***************************************************************************)
(* The quiz of a verse: VerseQuiz.vue.  It is opened for a task and a      *)
(* member, loads the records of both and the text of the verse, makes a    *)
(* paper, grades it and saves the attempt; what cannot be saved is kept in *)
(* the browser.  An answer counts while the quiz is open for the task and  *)
(* the member it was asked for, and for text and papers while the request  *)
(* is the latest.                                                          *)
(*                                                                         *)
(* An attempt is a number.  Left out: blanks, scores and the order of the  *)
(* ranking.  stranded: a text was given up by choosing another member or   *)
(* task while it was loading, and nothing ends its loading.  overtaken:    *)
(* requests overlapped, or a save that succeeded took back the notice that *)
(* the records could not be loaded, though the list still lacks them.      *)
(***************************************************************************)
EXTENDS Naturals, FiniteSets

CONSTANTS
    Tasks, Users, Own,        \* Own: the account
    Refers,                   \* the tasks whose text is read from the Bible
    MaxActs, MaxMishaps, MaxCalls, MaxAttempts

VARIABLES
    attempts, stored,         \* the server's, and those kept in the browser
    open, task, user,
    text, exam, submitted,    \* the text is there; a paper is made; the attempt shown
    serverHistory, localHistory, reviewed,
    loading, saving, originalLoading, syncError,
    running,
    lost, stranded, overtaken,
    count, acts, mishaps

books   == <<attempts, stored>>
place   == <<open, task, user>>
paper   == <<text, exam, submitted>>
records == <<serverHistory, localHistory, reviewed>>
flags   == <<loading, saving, originalLoading, syncError>>
ghost   == <<lost, stranded, overtaken>>
bounds  == <<acts, mishaps>>
vars    == <<books, place, paper, records, flags, running, ghost, count, bounds>>

key == <<task, user>>
Keys == Tasks \X Users
Call(op, k, id) == [op |-> op, key |-> k, id |-> id, latest |-> TRUE, ph |-> "sent", ans |-> {}]
Outdated(S, ops) == {IF d.op \in ops THEN [d EXCEPT !.latest = FALSE] ELSE d : d \in S}

Init ==
    /\ attempts = [k \in Keys |-> {}] /\ stored = [k \in Keys |-> {}]
    /\ open = FALSE /\ task \in Tasks /\ user = Own
    /\ text = FALSE /\ exam = FALSE /\ submitted = 0
    /\ serverHistory = {} /\ localHistory = {} /\ reviewed = 0
    /\ loading = FALSE /\ saving = FALSE /\ originalLoading = FALSE /\ syncError = FALSE
    /\ running = {} /\ lost = {} /\ stranded = FALSE /\ overtaken = FALSE
    /\ count = 0 /\ acts = 0 /\ mishaps = 0

-----------------------------------------------------------------------------
Act  == acts < MaxActs /\ acts' = acts + 1 /\ UNCHANGED mishaps
Room(n) == Cardinality(running) + n <= MaxCalls

\* loadRecords of the task and the member that are chosen now.
Records(k) == {Call("records", k, 0)}

\* The watch of the task while the quiz is open: everything begins anew, for the account.
\* A text that was loading for a task whose text is not read leaves its loading behind.
Open(t) ==
    /\ Act /\ Room(2) /\ ~(open /\ t = task) /\ open' = TRUE /\ task' = t /\ user' = Own
    /\ text' = (t \notin Refers) /\ exam' = FALSE /\ submitted' = 0
    /\ serverHistory' = {} /\ localHistory' = stored[<<t, Own>>] /\ reviewed' = 0
    /\ loading' = TRUE /\ syncError' = FALSE
    /\ originalLoading' = (originalLoading \/ t \in Refers)
    /\ running' = Outdated(running, {"original", "review"}) \cup Records(<<t, Own>>)
                  \cup (IF t \in Refers THEN {Call("original", <<t, Own>>, 0)} ELSE {})
    /\ stranded' = (originalLoading /\ t \notin Refers)
    /\ overtaken' = (running # {})
    /\ UNCHANGED <<books, saving, lost, count>>

Close ==
    /\ Act /\ open /\ open' = FALSE
    /\ originalLoading' = FALSE /\ stranded' = FALSE /\ reviewed' = 0
    /\ running' = Outdated(running, {"original", "review"})
    /\ UNCHANGED <<books, task, user, paper, serverHistory, localHistory, loading, saving, syncError, lost, overtaken, count>>

changeMember(u) ==
    /\ Act /\ Room(1) /\ open /\ ~saving /\ u # user /\ user' = u
    /\ exam' = FALSE /\ submitted' = 0
    /\ serverHistory' = {} /\ localHistory' = stored[<<task, u>>] /\ reviewed' = 0
    /\ loading' = TRUE
    /\ running' = Outdated(running, {"review"}) \cup Records(<<task, u>>)
    /\ stranded' = (stranded \/ originalLoading)
    /\ overtaken' = (running # {})
    /\ UNCHANGED <<books, open, task, text, saving, originalLoading, syncError, lost, count>>

generate ==
    /\ Act /\ open /\ ~saving /\ ~originalLoading /\ text /\ exam' = TRUE /\ submitted' = 0
    /\ UNCHANGED <<books, place, text, records, flags, running, ghost, count>>

reset ==
    /\ Act /\ open /\ ~saving /\ ~originalLoading /\ text' = FALSE /\ exam' = FALSE /\ submitted' = 0
    /\ UNCHANGED <<books, place, records, flags, running, ghost, count>>

grade ==
    /\ Act /\ Room(1) /\ open /\ ~saving /\ ~originalLoading /\ exam /\ submitted = 0
    /\ count < MaxAttempts /\ count' = count + 1
    /\ submitted' = count + 1 /\ saving' = TRUE
    /\ running' = running \cup {Call("save", key, count + 1)}
    /\ overtaken' = (overtaken \/ running # {})
    /\ UNCHANGED <<books, place, text, exam, records, loading, originalLoading, syncError, lost, stranded>>

\* A record that has its paper is shown at once.
reviewRecord(id) ==
    /\ Act /\ Room(1) /\ open /\ id \in serverHistory \cup localHistory
    /\ LET there == id \in localHistory \/ id = submitted IN
       /\ reviewed' = IF there THEN id ELSE 0
       /\ running' = Outdated(running, {"review"}) \cup (IF there THEN {} ELSE {Call("review", key, id)})
    /\ UNCHANGED <<books, place, paper, serverHistory, localHistory, flags, ghost, count>>

-----------------------------------------------------------------------------
(* The server.                                                              *)
OtherCalls(c) == running \ {c}
Answered(c, ph, ans) ==
    /\ c.ph = "sent" /\ running' = OtherCalls(c) \cup {[c EXCEPT !.ph = ph, !.ans = ans]}
    /\ UNCHANGED <<stored, place, paper, records, flags, ghost, count, acts>>

Serve(c) ==
    /\ Answered(c, "ok", IF c.op = "records" THEN attempts[c.key] ELSE {}) /\ UNCHANGED mishaps
    /\ attempts' = IF c.op = "save" THEN [attempts EXCEPT ![c.key] = @ \cup {c.id}] ELSE attempts

Refuse(c) ==
    /\ mishaps < MaxMishaps /\ mishaps' = mishaps + 1
    /\ Answered(c, "error", {}) /\ UNCHANGED attempts

-----------------------------------------------------------------------------
(* The answers.                                                             *)

\* Mistake: the answer for another member or task counts.
Counts_Open(c) == open

Counts(c) == open /\ c.key = key

RecordsDone(c) ==
    /\ c.op = "records" /\ c.ph \in {"ok", "error"} /\ running' = OtherCalls(c)
    /\ serverHistory' = IF c.ph = "ok" /\ Counts(c) THEN c.ans ELSE serverHistory
    /\ syncError' = IF Counts(c) THEN c.ph = "error" ELSE syncError
    /\ loading' = (loading /\ c.key # key)
    /\ UNCHANGED <<books, place, paper, localHistory, reviewed, saving, originalLoading, ghost, count, bounds>>

OriginalDone(c) ==
    /\ c.op = "original" /\ c.ph \in {"ok", "error"} /\ running' = OtherCalls(c)
    /\ text' = (text \/ (c.ph = "ok" /\ c.latest /\ Counts(c)))
    /\ originalLoading' = (originalLoading /\ ~(c.latest /\ c.key = key))
    /\ UNCHANGED <<books, place, exam, submitted, records, loading, saving, syncError, ghost, count, bounds>>

\* Mistake: an attempt that could not be saved is gone.
KeptHere_Not(c) == FALSE

\* It is kept in the browser while the quiz is still open for it.
KeptHere(c) == Counts(c)

SaveDone(c) ==
    /\ c.op = "save" /\ c.ph \in {"ok", "error"}
    /\ running' = OtherCalls(c) /\ saving' = FALSE
    /\ overtaken' = (overtaken \/ (c.ph = "ok" /\ Counts(c) /\ syncError))
    /\ IF c.ph = "ok"
       THEN /\ serverHistory' = IF Counts(c) THEN serverHistory \cup {c.id} ELSE serverHistory
            /\ submitted' = IF Counts(c) THEN c.id ELSE submitted
            /\ syncError' = (syncError /\ ~Counts(c))
            /\ UNCHANGED <<stored, localHistory, lost>>
       ELSE /\ stored' = IF KeptHere(c) THEN [stored EXCEPT ![key] = localHistory \cup {c.id}] ELSE stored
            /\ localHistory' = IF KeptHere(c) THEN localHistory \cup {c.id} ELSE localHistory
            /\ syncError' = (syncError \/ Counts(c))
            /\ lost' = IF Counts(c) THEN lost ELSE lost \cup {c.id}
            /\ UNCHANGED <<serverHistory, submitted>>
    /\ UNCHANGED <<attempts, place, text, exam, reviewed, loading, originalLoading, stranded, count, bounds>>

\* Mistake: the paper that was asked before is shown in place of the last one.
LatestPaper_Open(c) == open

LatestPaper(c) == c.latest /\ open

ReviewDone(c) ==
    /\ c.op = "review" /\ c.ph \in {"ok", "error"} /\ running' = OtherCalls(c)
    /\ reviewed' = IF c.ph = "ok" /\ LatestPaper(c) THEN c.id ELSE reviewed
    /\ UNCHANGED <<books, place, paper, serverHistory, localHistory, flags, ghost, count, bounds>>

Next ==
    \/ \E t \in Tasks : Open(t)
    \/ Close \/ generate \/ reset \/ grade
    \/ \E u \in Users : changeMember(u)
    \/ \E id \in 1..MaxAttempts : reviewRecord(id)
    \/ \E c \in running : Serve(c) \/ Refuse(c)
    \/ \E c \in running : RecordsDone(c) \/ OriginalDone(c) \/ SaveDone(c) \/ ReviewDone(c)

Spec == Init /\ [][Next]_vars

-----------------------------------------------------------------------------
\* Types: every attempt that is shown or listed was made.
TypeOK ==
    /\ task \in Tasks /\ user \in Users /\ submitted \in 0..MaxAttempts /\ reviewed \in 0..MaxAttempts
    /\ serverHistory \subseteq 1..MaxAttempts /\ localHistory \subseteq 1..MaxAttempts

\* What the quiz lists is of the task and the member it is open for, and all of it when
\* nothing is under way and no notice says otherwise, unless it was overtaken.
HistoryOfMember ==
    open => /\ serverHistory \subseteq attempts[key]
            /\ localHistory = stored[key]
            /\ reviewed \in attempts[key] \cup stored[key] \cup {0}
            /\ running = {} /\ ~syncError /\ ~overtaken => serverHistory = attempts[key]

\* A graded attempt is on the server, in the browser or on its way, unless its saving failed
\* after the quiz had been closed or changed.
AttemptsAreKept ==
    \A id \in 1..count :
        \/ \E k \in Keys : id \in attempts[k] \cup stored[k]
        \/ \E c \in running : c.op = "save" /\ c.id = id
        \/ id \in lost

\* With nothing under way the quiz is free again; a text that nobody gave up was loaded.
QuizSettles ==
    running = {} => ~loading /\ ~saving /\ (~stranded => ~originalLoading)
=============================================================================
