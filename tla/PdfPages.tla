------------------------------ MODULE PdfPages ------------------------------
(***************************************************************************)
(* The pages of a PDF (PdfViewer.vue): a document is loaded for what was   *)
(* chosen, its pages are drawn one after the other, and both are begun     *)
(* again whenever another document is chosen or the scale changes, while   *)
(* the earlier ones are still waiting.  Of two loads, and of two drawings, *)
(* the last one counts; that a document is released when it is left is     *)
(* held says.  The library answers in any order; a page of a document that *)
(* was released is refused or never comes.                                 *)
(***************************************************************************)
EXTENDS Naturals, Sequences, FiniteSets

CONSTANTS
    Documents, None, Pages,
    Short,                    \* documents that end before the page of the day
    MaxActs, MaxLoads         \* bounds: what the reader does, loads at once

VARIABLES
    want, mounted,            \* the document of props
    loading, error, doc, scale,
    canvas,                   \* what every page shows; <<>> without a canvas
    loads,                    \* in the order they began; cur: its sequence is loadSequence
    renders,                  \* drawings; cur: likewise
    held,                     \* loads whose document is open
    task,                     \* loadingTask
    blamed, failed,           \* history: a page of another document failed; one of this did
    n, acts                   \* loads so far

page == <<loading, error, doc, scale, canvas>>
kept == <<held, task>>
told == <<blamed, failed>>
vars == <<want, mounted, page, loads, renders, kept, told, n, acts>>

Blank == [p \in 1..Pages |-> None]
Act   == acts < MaxActs /\ acts' = acts + 1
Still == UNCHANGED acts

\* A load begins: the drawing is cancelled, and the former document is being destroyed.
Begun(cs) == Append([k \in DOMAIN cs |-> [cs[k] EXCEPT !.cur = FALSE]], [id |-> n + 1, src |-> None, cur |-> TRUE, ph |-> "destroy"])

\* The loads that go on when the k-th has ended.
Without(k) == SubSeq(loads, 1, k - 1) \o SubSeq(loads, k + 1, Len(loads))

\* Mistake: what is being drawn is drawn to its end.
Cancelled_Not(R) == R

\* renderTask.cancel.
Cancelled(R) == {r \in R : r.ph # "draw"}

Init ==
    /\ want \in Documents /\ mounted = TRUE /\ loading = TRUE /\ error = FALSE /\ doc = None /\ scale = 1
    /\ canvas = <<>> /\ loads = <<[id |-> 1, src |-> None, cur |-> TRUE, ph |-> "destroy"]>> /\ renders = {}
    /\ held = {} /\ task = 0 /\ blamed = FALSE /\ failed = FALSE /\ n = 1 /\ acts = 0

\* loadPDF up to its first wait.
loadPDF ==
    /\ Len(loads) < MaxLoads
    /\ loading' = TRUE /\ error' = FALSE /\ canvas' = <<>> /\ scale' = 1
    /\ loads' = Begun(loads) /\ n' = n + 1 /\ renders' = Cancelled(renders) /\ held' = held \ {task}
    /\ blamed' = FALSE /\ failed' = FALSE /\ UNCHANGED <<doc, task, mounted>>

Choose(d) == Act /\ mounted /\ d # want /\ want' = d /\ loadPDF
Retry     == Act /\ mounted /\ error /\ ~loading /\ loadPDF /\ UNCHANGED want

\* The earlier drawings stop at their next page: renderSequence.
Superseded(R) == {[r EXCEPT !.cur = FALSE] : r \in Cancelled(R)}

\* renderDocument up to its first wait.
Rendered(R) == IF doc = None THEN R
               ELSE Superseded(R) \cup {[of |-> doc, id |-> task, cur |-> TRUE, ph |-> "tick", page |-> 1, scale |-> scale']}

\* changeZoom, fitWidth and the observer of the size.
Rescale(s) ==
    /\ Act /\ mounted /\ s # scale /\ scale' = s /\ renders' = Rendered(renders)
    /\ UNCHANGED <<want, mounted, loading, error, doc, canvas, loads, kept, told, n>>

Unmount ==
    /\ Act /\ mounted /\ mounted' = FALSE /\ canvas' = <<>> /\ held' = held \ {task}
    /\ loads' = [k \in DOMAIN loads |-> [loads[k] EXCEPT !.cur = FALSE]]
    /\ renders' = {[r EXCEPT !.cur = FALSE] : r \in Cancelled(renders)}
    /\ task' = 0 /\ doc' = None /\ UNCHANGED <<want, loading, error, scale, told, n>>

-----------------------------------------------------------------------------
\* The former document is gone: what is chosen by now is asked for.
Destroyed(k) ==
    /\ loads[k].ph = "destroy" /\ \A j \in 1..k - 1 : loads[j].ph # "destroy"
    /\ loads' = [loads EXCEPT ![k].ph = "load", ![k].src = want]
    /\ held' = held \cup {loads[k].id} /\ task' = loads[k].id /\ doc' = None
    /\ Still /\ UNCHANGED <<want, mounted, loading, error, scale, canvas, renders, told, n>>

\* Mistake: the document that was asked for first is used as well.
Counts_Always(c) == TRUE

Counts(c) == c.cur

\* Mistake: a document that is not used stays open.
Released_Not(c) == held

Released(c) == held \ {c.id}

Loaded(k) ==
    LET c == loads[k] IN
    /\ c.ph = "load" /\ Still
    /\ IF ~Counts(c) THEN loads' = Without(k) /\ held' = Released(c) /\ UNCHANGED <<page, failed>>
       ELSE /\ doc' = c.src /\ UNCHANGED <<held, scale>>
            /\ IF c.src \in Short
               THEN /\ error' = TRUE /\ failed' = TRUE /\ loading' = FALSE
                    /\ loads' = Without(k) /\ UNCHANGED canvas
               ELSE /\ canvas' = Blank /\ loads' = [loads EXCEPT ![k].ph = "tick"]
                    /\ UNCHANGED <<error, failed, loading>>
    /\ UNCHANGED <<want, mounted, renders, task, blamed, n>>

\* The document cannot be read, or is destroyed while it is read.
LoadFails(k) ==
    LET c == loads[k] IN
    /\ c.ph = "load" /\ loads' = Without(k) /\ held' = held \ {c.id}
    /\ IF c.cur THEN Act /\ error' = TRUE /\ failed' = TRUE /\ loading' = FALSE
       ELSE Still /\ UNCHANGED <<error, failed, loading>>
    /\ UNCHANGED <<want, mounted, doc, scale, canvas, renders, task, blamed, n>>

\* After nextTick: the load waits for its drawing, which changes nothing more than loading.
Drawn(k) ==
    /\ loads[k].ph = "tick" /\ loads' = Without(k) /\ loading' = FALSE
    /\ scale' = scale /\ renders' = IF mounted THEN Rendered(renders) ELSE renders
    /\ Still /\ UNCHANGED <<want, mounted, error, doc, canvas, kept, told, n>>

-----------------------------------------------------------------------------
(* A drawing: its canvases are there, a page comes, the page is drawn.      *)
Canvases == canvas # <<>> /\ ~error

Ends(r)    == renders' = renders \ {r}
Goes(r, s) == renders' = (renders \ {r}) \cup {s}

Current(r) == r.cur

AskPage(r) ==
    /\ r.ph = "tick"
    /\ IF Canvases /\ Current(r) /\ doc # None
       THEN Goes(r, [r EXCEPT !.ph = "page", !.of = doc, !.id = task]) ELSE Ends(r)
    /\ Still /\ UNCHANGED <<want, mounted, page, loads, kept, told, n>>

PageComes(r) ==
    /\ r.ph = "page" /\ r.id \in held /\ IF Current(r) THEN Goes(r, [r EXCEPT !.ph = "draw", !.scale = scale]) ELSE Ends(r)
    /\ Still /\ UNCHANGED <<want, mounted, page, loads, kept, told, n>>

\* Its error is told whatever document is shown by now.
PageFails(r) ==
    /\ r.ph = "page" /\ Ends(r) /\ IF r.id \in held THEN Act ELSE Still
    /\ error' = TRUE /\ IF r.id = task /\ r.id \in held THEN failed' = TRUE /\ UNCHANGED blamed
                        ELSE blamed' = TRUE /\ UNCHANGED failed
    /\ UNCHANGED <<want, mounted, loading, doc, scale, canvas, loads, kept, n>>

\* The library never answers for a document that was destroyed.
PageSilent(r) ==
    /\ r.ph = "page" /\ r.id \notin held /\ Ends(r)
    /\ Still /\ UNCHANGED <<want, mounted, page, loads, kept, told, n>>

\* Mistake: one page too many.
Continues_Past(r) == r.page <= Pages

Continues(r) == r.page < Pages

PageDrawn(r) ==
    /\ r.ph = "draw" /\ canvas' = IF canvas = <<>> THEN <<>> ELSE [canvas EXCEPT ![r.page] = <<r.of, r.scale>>]
    /\ IF Continues(r) THEN Goes(r, [r EXCEPT !.ph = "tick", !.page = r.page + 1]) ELSE Ends(r)
    /\ Still /\ UNCHANGED <<want, mounted, loading, error, doc, scale, loads, kept, told, n>>

Next ==
    \/ \E d \in Documents : Choose(d)
    \/ \E s \in {1, 2} : Rescale(s)
    \/ Retry \/ Unmount
    \/ \E k \in DOMAIN loads : Destroyed(k) \/ Loaded(k) \/ LoadFails(k) \/ Drawn(k)
    \/ \E r \in renders : AskPage(r) \/ PageComes(r) \/ PageFails(r) \/ PageSilent(r) \/ PageDrawn(r)

Spec == Init /\ [][Next]_vars

-----------------------------------------------------------------------------
Quiet == loads = <<>> /\ renders = {}

\* Types: every document that is open was loaded, a drawing draws a page it has.
TypeOK ==
    /\ want \in Documents /\ doc \in Documents \cup {None} /\ scale \in {1, 2}
    /\ {mounted, loading, error} \subseteq BOOLEAN /\ held \subseteq 1..n /\ task \in 0..n
    /\ \A k \in DOMAIN loads : loads[k].id \in 1..n /\ \A r \in renders : r.of \in Documents /\ r.page \in 1..Pages

\* Once nothing is under way the pages of the chosen document are drawn at the scale that is
\* shown, whatever was chosen or scaled meanwhile, unless an error is shown in their place,
\* which is of this document or of a page that was asked for before the load.
PagesOfChoice ==
    Quiet /\ mounted =>
        IF error THEN failed \/ blamed
        ELSE doc = want /\ canvas = [p \in 1..Pages |-> <<want, scale>>]

\* No page of another document is ever in the list of the document that is shown.
NoPageOfOthers == canvas # <<>> => \A p \in 1..Pages : canvas[p] # None => canvas[p][1] = doc

\* Loading ends, and no more than the document that is shown stays open.
PdfSettles == Quiet => (mounted => ~loading) /\ held \subseteq (IF mounted THEN {task} ELSE {})
=============================================================================
