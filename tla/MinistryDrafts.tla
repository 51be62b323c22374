--------------------------- MODULE MinistryDrafts ---------------------------
(***************************************************************************)
(* The two composers of MinistryGroups.vue: the share that is written or   *)
(* edited, and the progress with the files that are uploaded for it.  Both *)
(* outlive the selection of another ministry group, and go to the one that *)
(* is shown when they are saved; the server decides whether what they name *)
(* belongs to it.  Beside them the attachments that are ticked for the     *)
(* download queue.                                                         *)
(*                                                                         *)
(* A form stays open while it is saved, and is emptied when the answer     *)
(* comes, whatever was typed since: during is what was.                    *)
(*                                                                         *)
(* A text is the number of times something was typed, 0 when there is      *)
(* none.  Left out: titles, dates, who may edit, and the reads that follow *)
(* a change, which MinistryPage has.                                       *)
(***************************************************************************)
EXTENDS Naturals, FiniteSets

CONSTANTS
    Ministries, None,
    MaxActs, MaxMishaps, MaxCalls

VARIABLES
    current,                         \* the ministry of the detail, None while there is none
    shares, posts, files,            \* server: what was shared and told, and who uploaded where
    share, progress,                 \* the forms
    picked,                          \* selectedAttachmentKeys
    saving, uploading,
    calls,
    typed, kept,                     \* texts typed, and those the server had or the member dropped
    during, gone,                    \* texts typed in a form while it is saved, and texts lost
    acts, mishaps

server == <<shares, posts, files>>
forms  == <<share, progress>>
locks  == <<saving, uploading>>
ghost  == <<typed, kept, during, gone>>
bounds == <<acts, mishaps>>
vars   == <<current, server, forms, picked, locks, calls, ghost, bounds>>

NoShare    == [id |-> 0, text |-> 0, open |-> FALSE]
NoProgress == [text |-> 0, files |-> {}]
Shown      == {s \in shares : s.m = current}

Call(op)      == [op |-> op, m |-> current, id |-> 0, text |-> 0, files |-> {}, left |-> 0, ph |-> "sent"]
OtherCalls(c) == calls \ {c}

Room == Cardinality(calls) < MaxCalls
Act  == acts < MaxActs /\ acts' = acts + 1 /\ UNCHANGED <<server, mishaps>>
Free == Act /\ Room /\ current # None

Init ==
    /\ current \in Ministries
    /\ shares = {[id |-> 1, m |-> current, text |-> 1]} /\ posts = {} /\ files = {}
    /\ share = NoShare /\ progress = NoProgress /\ picked = {}
    /\ saving = FALSE /\ uploading = FALSE /\ calls = {}
    /\ typed = 1 /\ kept = {0, 1} /\ during = {} /\ gone = {}
    /\ acts = 0 /\ mishaps = 0

-----------------------------------------------------------------------------
(* The member.                                                              *)

\* selectGroup, or another study group: the forms stay.  The ticks go, but for those of a
\* study group that is left and those made while the detail was on its way.
Select(m) ==
    /\ Act /\ m # current /\ current' = m /\ picked' \in {{}, picked}
    /\ UNCHANGED <<forms, locks, calls, ghost>>

\* What a form had is the member's own to throw away.
Drop(text) == kept' = kept \cup {text} /\ UNCHANGED <<typed, during, gone>>

\* A text is typed over another, while the form is saved or not.
Types(op, text) ==
    /\ typed' = typed + 1 /\ kept' = kept \cup {text} /\ UNCHANGED gone
    /\ during' = IF \E c \in calls : c.op = op THEN during \cup {typed'} ELSE during

editShare(s) ==
    /\ Act /\ s \in Shown /\ share' = [id |-> s.id, text |-> s.text, open |-> TRUE] /\ Drop(share.text)
    /\ UNCHANGED <<current, progress, picked, locks, calls>>

startShareDraft ==
    /\ Act /\ current # None /\ ~share.open /\ share' = [NoShare EXCEPT !.open = TRUE] /\ Drop(share.text)
    /\ UNCHANGED <<current, progress, picked, locks, calls>>

resetShareForm ==
    /\ Act /\ share.open /\ share' = NoShare /\ Drop(share.text)
    /\ UNCHANGED <<current, progress, picked, locks, calls>>

resetProgressForm ==
    /\ Act /\ progress # NoProgress /\ progress' = NoProgress /\ Drop(progress.text)
    /\ UNCHANGED <<current, share, picked, locks, calls>>

TypeShare ==
    /\ Act /\ share.open /\ Types("share", share.text) /\ share' = [share EXCEPT !.text = typed']
    /\ UNCHANGED <<current, progress, picked, locks, calls>>

TypeProgress ==
    /\ Act /\ current # None /\ Types("progress", progress.text) /\ progress' = [progress EXCEPT !.text = typed']
    /\ UNCHANGED <<current, share, picked, locks, calls>>

saveShare ==
    /\ Free /\ share.text # 0 /\ ~saving /\ saving' = TRUE
    /\ calls' = calls \cup {[Call("share") EXCEPT !.id = share.id, !.text = share.text]}
    /\ UNCHANGED <<current, forms, picked, uploading, ghost>>

\* deleteShare, once the dialog is confirmed.
deleteShare(s) ==
    /\ Free /\ s \in Shown /\ ~saving /\ saving' = TRUE
    /\ calls' = calls \cup {[Call("delete") EXCEPT !.id = s.id]}
    /\ UNCHANGED <<current, forms, picked, uploading, ghost>>

\* The files that were chosen are sent one after the other.
uploadAttachments(n) ==
    /\ Free /\ ~uploading /\ uploading' = TRUE
    /\ calls' = calls \cup {[Call("upload") EXCEPT !.left = n]}
    /\ UNCHANGED <<current, forms, picked, saving, ghost>>

removeProgressAsset(f) ==
    /\ Act /\ f \in progress.files /\ progress' = [progress EXCEPT !.files = @ \ {f}]
    /\ UNCHANGED <<current, share, picked, locks, calls, ghost>>

saveProgress ==
    /\ Free /\ progress.text # 0 /\ ~saving /\ ~uploading /\ saving' = TRUE
    /\ calls' = calls \cup {[Call("progress") EXCEPT !.text = progress.text, !.files = progress.files]}
    /\ UNCHANGED <<current, forms, picked, uploading, ghost>>

Attached == UNION {p.files : p \in {p \in posts : p.m = current}}

\* Files of the progress that is shown are ticked, then queued together.
toggleAttachmentSelection(f) ==
    /\ Act /\ f \in Attached
    /\ picked' = IF f \in picked THEN picked \ {f} ELSE picked \cup {f}
    /\ UNCHANGED <<current, forms, locks, calls, ghost>>

downloadSelectedAttachments ==
    /\ Act /\ picked \cap Attached # {} /\ picked' = {} /\ UNCHANGED <<current, forms, locks, calls, ghost>>

-----------------------------------------------------------------------------
(* The server.                                                              *)
Client     == <<current, forms, picked, locks, typed, during, gone, acts>>
Mishap     == mishaps < MaxMishaps /\ mishaps' = mishaps + 1
Fine(c)    == [c EXCEPT !.ph = "ok"]
Refused(c) == [c EXCEPT !.ph = "error"]

\* The answer comes, or is lost and taken for a refusal.
Answered(c, a) ==
    /\ c.ph = "sent" /\ UNCHANGED Client
    /\ \/ calls' = OtherCalls(c) \cup {a} /\ UNCHANGED mishaps
       \/ calls' = OtherCalls(c) \cup {Refused(c)} /\ Mishap
Stored(c) == kept' = kept \cup {c.text}

\* CreateShare and UpdateShare; an edit names a share of the ministry.
ServeShare(c) ==
    /\ c.op = "share" /\ UNCHANGED <<posts, files>>
    /\ LET old == {s \in shares : s.id = c.id /\ s.m = c.m} IN
       IF c.id = 0
       THEN /\ shares' = shares \cup {[id |-> Cardinality(shares) + 1, m |-> c.m, text |-> c.text]}
            /\ Stored(c) /\ Answered(c, Fine(c))
       ELSE IF old # {} THEN /\ shares' = (shares \ old) \cup {[s EXCEPT !.text = c.text] : s \in old}
                             /\ Stored(c) /\ Answered(c, Fine(c))
       ELSE UNCHANGED <<shares, kept>> /\ Answered(c, Refused(c))

\* A share that is deleted is marked, its ID is not used again.
ServeDelete(c) ==
    /\ c.op = "delete" /\ UNCHANGED <<posts, files, kept>>
    /\ shares' = {IF s.id = c.id /\ s.m = c.m THEN [s EXCEPT !.m = None] ELSE s : s \in shares}
    /\ Answered(c, IF shares' = shares THEN Refused(c) ELSE Fine(c))

ServeUpload(c) ==
    /\ c.op = "upload" /\ UNCHANGED <<shares, posts, kept>>
    /\ LET f == [id |-> Cardinality(files) + 1, m |-> c.m] IN
       files' = files \cup {f} /\ Answered(c, [Fine(c) EXCEPT !.files = {f}])

\* Mistake: any file of the study group may be attached.
Attachable_Any(f, m) == TRUE

\* CreateProgress refuses everything when one file is of another ministry.
Attachable(f, m) == f.m = m

ServeProgress(c) ==
    /\ c.op = "progress" /\ UNCHANGED <<shares, files>>
    /\ IF \A f \in c.files : Attachable(f, c.m)
       THEN /\ posts' = posts \cup {[m |-> c.m, text |-> c.text, files |-> c.files]}
            /\ Stored(c) /\ Answered(c, Fine(c))
       ELSE UNCHANGED <<posts, kept>> /\ Answered(c, Refused(c))

\* Lost before the server did anything.
Lost(c) ==
    /\ c.ph = "sent" /\ calls' = OtherCalls(c) \cup {Refused(c)} /\ Mishap
    /\ UNCHANGED <<Client, server, kept>>

-----------------------------------------------------------------------------
(* The answers.                                                             *)
Same == <<current, server, picked, bounds>>

\* Mistake: the form is emptied whether or not it was saved.
Empties_Always(c) == c.op \in {"share", "progress"}

Empties(c) == c.op \in {"share", "progress"} /\ c.ph = "ok"

\* The form is emptied, whatever it has by now.
Forget(text) == gone' = gone \cup ({text} \ (kept \cup during)) /\ UNCHANGED <<typed, kept>>

\* saveShare, saveProgress and deleteShare end; the lock of runMutation goes.
Saved(c) ==
    /\ c.op # "upload" /\ c.ph # "sent" /\ calls' = OtherCalls(c) /\ saving' = FALSE /\ during' = {}
    /\ IF Empties(c) /\ c.op = "share" THEN share' = NoShare /\ Forget(share.text) /\ UNCHANGED progress
       ELSE IF Empties(c) THEN progress' = NoProgress /\ Forget(progress.text) /\ UNCHANGED share
       ELSE IF c.op = "delete" /\ c.ph = "ok" /\ share.id = c.id
       THEN share' = NoShare /\ kept' = kept \cup {share.text} /\ UNCHANGED <<progress, typed, gone>>
       ELSE UNCHANGED <<forms, typed, kept, gone>>
    /\ UNCHANGED <<Same, uploading>>

More(c) == c.left > 1 /\ c.ph = "ok"

\* Mistake: the lock goes with the first file.
Unlocked_First(c) == TRUE

Unlocked(c) == ~More(c)

\* The file is pushed to the form there is, and the next one is sent.
Uploaded(c) ==
    /\ c.op = "upload" /\ c.ph # "sent"
    /\ progress' = [progress EXCEPT !.files = @ \cup c.files]
    /\ calls' = OtherCalls(c) \cup IF More(c) THEN {[c EXCEPT !.left = @ - 1, !.ph = "sent", !.files = {}]} ELSE {}
    /\ uploading' = (uploading /\ ~Unlocked(c))
    /\ UNCHANGED <<Same, share, saving, ghost>>

-----------------------------------------------------------------------------
Next ==
    \/ \E m \in Ministries \cup {None} : Select(m)
    \/ \E s \in shares : editShare(s) \/ deleteShare(s)
    \/ startShareDraft \/ resetShareForm \/ resetProgressForm \/ TypeShare \/ TypeProgress
    \/ saveShare \/ saveProgress \/ downloadSelectedAttachments
    \/ \E n \in 1..2 : uploadAttachments(n)
    \/ \E f \in files : removeProgressAsset(f) \/ toggleAttachmentSelection(f)
    \/ \E c \in calls : ServeShare(c) \/ ServeDelete(c) \/ ServeUpload(c) \/ ServeProgress(c) \/ Lost(c) \/ Saved(c) \/ Uploaded(c)

Spec == Init /\ [][Next]_vars

-----------------------------------------------------------------------------
\* Types: the texts in the composers were typed, their files were uploaded.
TypeOK ==
    /\ current \in Ministries \cup {None} /\ {saving, uploading} \subseteq BOOLEAN
    /\ share.text \in 0..typed /\ progress.text \in 0..typed /\ progress.files \subseteq files
    /\ picked \subseteq files /\ \A f \in files : f.m \in Ministries

\* However forms, uploads and selections overlap, what is told in one ministry has files of
\* that ministry only.
AttachmentsOfMinistry == \A p \in posts : \A f \in p.files : f.m = p.m

\* A text leaves its form only when the server has it, or the member threw it away or deleted
\* the share it was for; one that was typed in the form while an earlier one was being saved
\* goes with that one (MinistryGroups.vue:389, 618), and no other text does, whatever fails.
DraftsAreKept == gone = {}

\* The locks end with what they stand for.
ComposersFree == (saving => \E c \in calls : c.op # "upload") /\ (uploading <=> \E c \in calls : c.op = "upload")
=============================================================================
