--------------------------- MODULE ContentReader ---------------------------
(***************************************************************************)
(* Opening what is to be studied: openContentTarget, closeViewer and       *)
(* openViewerItemInNewWindow of legacy-app.js, and ContentViewer.vue.      *)
(* One viewer is open at a time.  Scripture, courses, files and texts are  *)
(* read before the viewer appears; a recording's viewer appears at once    *)
(* and its address follows.  viewerRequestID, or for recordings the viewer *)
(* object itself, tells whether the member still waits for an answer.      *)
(*                                                                         *)
(* A target is a number, in the order of opening; what is in it, the       *)
(* sections beside it and how it is laid out are left out.                 *)
(***************************************************************************)
EXTENDS Naturals, FiniteSets

CONSTANTS
    MaxOpens,   \* targets opened
    MaxSwitches

VARIABLES
    context,        \* dataContextKey: how often the account or the group changed
    viewer,         \* state.viewer
    urls,           \* object URLs of the viewer that were not revoked
    windows,        \* blank windows that wait for their contents
    running,
    opened,         \* the last thing the member did: the target opened, 0 when it was closed
    failed,         \* targets that could not be read
    opens           \* targets so far

vars == <<context, viewer, urls, windows, running, opened, failed, opens>>

NoViewer == [id |-> 0, ready |-> FALSE, object |-> FALSE]

\* The branches of openContentTarget: text that is at hand and links; chapters; lessons;
\* recordings; files of the server; texts elsewhere.
AtHand == {"inline", "link"}
Kinds  == {"bible", "course", "media", "file", "text"}
\* Reading an answer takes a second step, and is compared again after it.
TwoSteps == {"file", "text"}
\* Chapters and lessons come from files of the site, and are compared with the context too.
Contextual == {"bible", "course"}

Shown(id, object) == [id |-> id, ready |-> TRUE, object |-> object]

\* now: viewerRequestID is what it was.
Outdated == {[c EXCEPT !.now = FALSE] : c \in running}
OtherCalls(c) == running \ {c}

Init ==
    /\ context = 0 /\ viewer = NoViewer /\ urls = {} /\ windows = {} /\ running = {}
    /\ opened = 0 /\ failed = {} /\ opens = 0

-----------------------------------------------------------------------------
\* Mistake: the object URL stays.
Revoked_Not == urls

\* closeViewer.
Revoked == IF viewer.object THEN urls \ {viewer.id} ELSE urls

Close ==
    /\ viewer # NoViewer \/ \E c \in running : c.now
    /\ viewer' = NoViewer /\ urls' = Revoked /\ running' = Outdated /\ opened' = 0
    /\ UNCHANGED <<context, windows, failed, opens>>

Opens ==
    /\ opens < MaxOpens /\ opens' = opens + 1 /\ opened' = opens'
    /\ urls' = Revoked
    /\ UNCHANGED <<context, windows, failed>>

OpenAtHand ==
    Opens /\ viewer' = Shown(opens', FALSE) /\ running' = Outdated

OpenTarget(kind) ==
    /\ Opens
    /\ viewer' = IF kind = "media" THEN [NoViewer EXCEPT !.id = opens'] ELSE NoViewer
    /\ running' = Outdated \cup
         {[id |-> opens', kind |-> kind, step |-> 1, ph |-> "sent", now |-> TRUE, context |-> context]}

\* openCurrentInNewWindow opens a blank window; openItemInNewWindow opens one at the end.
OpenWindow(blank) ==
    /\ opens < MaxOpens /\ opens' = opens + 1
    /\ windows' = IF blank THEN windows \cup {opens'} ELSE windows
    /\ running' = running \cup
         {[id |-> opens', kind |-> "window", step |-> 1, ph |-> "sent", now |-> TRUE, context |-> context]}
    /\ UNCHANGED <<context, viewer, urls, opened, failed>>

CloseWindow(w) ==
    windows' = windows \ {w} /\ UNCHANGED <<context, viewer, urls, running, opened, failed, opens>>

\* switchGroup and logout close the viewer.
Switch ==
    /\ context < MaxSwitches /\ context' = context + 1
    /\ viewer' = NoViewer /\ urls' = Revoked /\ running' = Outdated /\ opened' = 0
    /\ UNCHANGED <<windows, failed, opens>>

Serve(c, ph) ==
    /\ c.ph = "sent" /\ running' = OtherCalls(c) \cup {[c EXCEPT !.ph = ph]}
    /\ UNCHANGED <<context, viewer, urls, windows, opened, failed, opens>>

-----------------------------------------------------------------------------
(* The answers.                                                             *)

\* Mistake: the answer is compared when it begins to arrive, and not after it was read.
Awaited_Before(c) == c.now \/ c.step = 2

Awaited(c) == c.now /\ (c.kind \in Contextual => c.context = context)

\* The first step of a file or text: its status is known, its contents are not.
Arrives(c) ==
    /\ c.kind \in TwoSteps /\ c.step = 1 /\ c.ph = "ok"
    /\ running' = IF c.now THEN OtherCalls(c) \cup {[c EXCEPT !.step = 2, !.ph = "sent"]} ELSE OtherCalls(c)
    /\ UNCHANGED <<context, viewer, urls, windows, opened, failed, opens>>

\* Files that are not texts are shown from an object URL.
Show(c) ==
    /\ c.kind \in Contextual \/ (c.kind \in TwoSteps /\ c.step = 2)
    /\ c.ph = "ok" /\ running' = OtherCalls(c)
    /\ IF Awaited(c)
       THEN \E object \in IF c.kind = "file" THEN BOOLEAN ELSE {FALSE} :
               /\ viewer' = Shown(c.id, object)
               /\ urls' = IF object THEN urls \cup {c.id} ELSE urls
       ELSE UNCHANGED <<viewer, urls>>
    /\ UNCHANGED <<context, windows, opened, failed, opens>>

Play(c) ==
    /\ c.kind = "media" /\ c.ph = "ok" /\ running' = OtherCalls(c)
    /\ viewer' = IF viewer.id = c.id THEN Shown(c.id, FALSE) ELSE viewer
    /\ UNCHANGED <<context, urls, windows, opened, failed, opens>>

\* Mistake: the viewer is closed whichever it is by now.
Closes_Any(c) == c.kind = "media"

Closes(c) == c.kind = "media" /\ viewer.id = c.id

\* What could not be read is told, and the viewer of a recording goes with it.
Fail(c) ==
    /\ c.kind # "window" /\ c.ph = "error" /\ failed' = failed \cup {c.id}
    /\ IF Closes(c)
       THEN /\ viewer' = NoViewer /\ urls' = Revoked
            /\ running' = {[d EXCEPT !.now = FALSE] : d \in OtherCalls(c)}
       ELSE running' = OtherCalls(c) /\ UNCHANGED <<viewer, urls>>
    /\ UNCHANGED <<context, windows, opened, opens>>

\* The blank window gets the contents, or is closed.
WindowDone(c) ==
    /\ c.kind = "window" /\ c.ph \in {"ok", "error"}
    /\ running' = OtherCalls(c) /\ windows' = windows \ {c.id}
    /\ UNCHANGED <<context, viewer, urls, opened, failed, opens>>

-----------------------------------------------------------------------------
Next ==
    \/ Close \/ OpenAtHand \/ Switch
    \/ \E kind \in Kinds : OpenTarget(kind)
    \/ \E blank \in BOOLEAN : OpenWindow(blank)
    \/ \E w \in windows : CloseWindow(w)
    \/ \E c \in running, ph \in {"ok", "error"} : Serve(c, ph)
    \/ \E c \in running : Arrives(c) \/ Show(c) \/ Play(c) \/ Fail(c) \/ WindowDone(c)

Spec == Init /\ [][Next]_vars

-----------------------------------------------------------------------------
\* Types: whatever is shown, held or failed was opened before.
TypeOK ==
    /\ context \in 0..MaxSwitches /\ opens \in 0..MaxOpens /\ opened \in 0..opens
    /\ viewer.id \in 0..opens /\ urls \subseteq 1..opens /\ windows \subseteq 1..opens
    /\ failed \subseteq 1..opens /\ \A c \in running : c.id \in 1..opens /\ c.context \in 0..context

\* Whatever else was opened before and answers late, the viewer has what was opened last,
\* and nothing appears after it was closed or the group was left.
ViewerIsLastOpened == viewer # NoViewer => viewer.id = opened

\* The memory behind a file goes when its viewer does.
ObjectsReleased == urls \subseteq {viewer.id}

\* What was opened appears and can be read, unless reading it failed.
OpenedAppears ==
    running = {} =>
        /\ opened # 0 /\ opened \notin failed => viewer.id = opened /\ viewer.ready
        /\ windows = {}
=============================================================================
