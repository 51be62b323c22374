------------------------------ MODULE WeekLinks ------------------------------
(***************************************************************************)
(* What a member can open beside a task of the week, in legacy-app.js: the *)
(* resource the task is bound to, and the resources of the library that    *)
(* belong to it by their titles.  The administrator fills the library and  *)
(* edits the task; every list is computed from what there is by then.      *)
(*                                                                         *)
(* A title is a sequence of words.  Of those "notes" tells one edition of  *)
(* a series from another and is no part of its name; so is "pages", which  *)
(* stands for the range of pages From..To; "script" marks a transcript.    *)
(* Left out: the layout of texts, and the configuration file of the site,  *)
(* whose readings and videos replace the tasks of a week that has none.    *)
(***************************************************************************)
EXTENDS Naturals, Sequences

CONSTANTS
    Ids, Titles,
    Uploads,                     \* the <<category, type>> of files that are uploaded
    From, To                     \* the pages a title names

VARIABLES
    assets,                      \* assets[i]: a resource, <<>> if there is none
    task,                        \* the task of the week
    viewer                       \* what is open: <<>>, or its address and first page

vars == <<assets, task, viewer>>

Words(S, title) == {i \in DOMAIN title : title[i] \in S} # {}
NoURL     == 0
Elsewhere == 100                 \* an address outside the library
URLs      == Ids \cup {Elsewhere, NoURL}
Library   == {i \in Ids : assets[i] # <<>>}

Init ==
    /\ assets = [i \in Ids |-> <<>>] /\ viewer = <<>>
    /\ task \in [kind : {"weekly_book", "weekly_video"}, title : Titles, bound : {NoURL}, url : {NoURL}]

-----------------------------------------------------------------------------
(* Titles.                                                                  *)
normalizeResourceSeriesKey(title) == SelectSeq(title, LAMBDA w : w \notin {"notes", "pages"})

Includes(a, b) == \E i \in 0..(Len(a) - Len(b)) : SubSeq(a, i + 1, i + Len(b)) = b
StartsWith(a, b) == Len(b) <= Len(a) /\ SubSeq(a, 1, Len(b)) = b

\* The title of a transcript up to its mark.
transcriptBase(title) == SubSeq(title, 1, (CHOOSE i \in DOMAIN title : title[i] = "script") - 1)

\* Mistake: the name of a resource has to be the longer one.
matchViewerResourceToTitle_Longer(item, title) ==
    LET key == normalizeResourceSeriesKey(item.title)   target == normalizeResourceSeriesKey(title)
    IN  key # <<>> /\ target # <<>> /\ Includes(key, target)

\* A transcript belongs to every part of its series.
matchViewerResourceToTitle(item, title) ==
    LET key == normalizeResourceSeriesKey(item.title)   target == normalizeResourceSeriesKey(title)
    IN  /\ key # <<>> /\ target # <<>>
        /\ \/ Includes(key, target) \/ Includes(target, key)
           \/ Words({"script"}, item.title) /\ LET base == normalizeResourceSeriesKey(transcriptBase(item.title))
                                               IN  base # <<>> /\ StartsWith(target, base)

isMediaResourceType(type) == type \in {"video", "audio"}

classifyViewerResource(item) ==
    IF isMediaResourceType(item.type) THEN "video"
    ELSE IF item.category \in {"mentor", "handout", "book", "passage"} THEN item.category ELSE ""

-----------------------------------------------------------------------------
(* Links: [title, url, class, type, range].                                 *)
extractPdfPageRange(title) == IF Words({"pages"}, title) THEN <<From, To>> ELSE <<>>

Link(title, url, class, type, range) ==
    [title |-> title, url |-> url, class |-> class, type |-> type, range |-> range]

viewerResourceLink(i) ==
    Link(assets[i].title, i, classifyViewerResource(assets[i]), assets[i].type, <<>>)

\* The resource bound to the task, else its address.
firstTaskAssetLink == Link(task.title, task.bound, "", assets[task.bound].type, extractPdfPageRange(task.title))

weeklyMediaTaskLink ==
    IF task.bound # NoURL THEN {firstTaskAssetLink}
    ELSE IF task.url # NoURL THEN {Link(task.title, task.url, "", "video", <<>>)} ELSE {}

currentMedia(target) ==
    [target EXCEPT !.class = IF isMediaResourceType(target.type) THEN "video" ELSE "", !.range = <<>>]

Related(title) == {i \in Library : matchViewerResourceToTitle(assets[i], title)}

\* Mistake: of one title only the first resource is shown, whatever it is.
dedupeKey_Title(link) == link.title

dedupeKey(link) == <<link.class, link.title>>

\* The first of the links with a key: what is open, then in the order of the library.
unique(target) ==
    LET current == currentMedia(target)
        Earlier(i) == {current} \cup {viewerResourceLink(j) : j \in {k \in Related(target.title) : k < i}}
    IN  {current} \cup
        {viewerResourceLink(i) : i \in {j \in Related(target.title) :
            \A link \in Earlier(j) : dedupeKey(link) # dedupeKey(viewerResourceLink(j))}}

buildMediaViewerSections(target) == {link \in unique(target) : link.class \in {"passage", "handout", "video"}}

\* Mistake: what is opened first is listed again under its own title.
Others_All(primary, links) == links

Others(primary, links) == {link \in links : link.url # primary.url}

weeklyMediaContentLinks(primary) == {primary} \cup Others(primary, buildMediaViewerSections(primary))

bestAssetLinksForTitle ==
    IF task.bound # NoURL THEN {firstTaskAssetLink}
    ELSE {Link(task.title, i, "", assets[i].type, extractPdfPageRange(task.title)) :
             i \in {j \in Related(task.title) : classifyViewerResource(assets[j]) \in {"book", "passage"}}}

contentLinks ==
    IF task.kind = "weekly_book" THEN bestAssetLinksForTitle
    ELSE UNION {weeklyMediaContentLinks(primary) : primary \in weeklyMediaTaskLink}

-----------------------------------------------------------------------------
(* Pages.                                                                   *)

\* A part of a resource of the library is cut out by the server.
resolveContentSourceURL(link) ==
    [url |-> link.url, trimmed |-> link.type = "pdf" /\ link.range # <<>> /\ link.url \in Ids]

\* Mistake: the pages of a part are counted as in the whole.
buildViewerURL_Whole(link) ==
    LET range == IF link.range # <<>> THEN link.range ELSE extractPdfPageRange(link.title)
    IN  IF link.type # "pdf" \/ range = <<>> THEN 1 ELSE range[1]

\* The page that is shown first, as counted in the file that is sent.
buildViewerURL(link) ==
    LET range == IF link.range # <<>> THEN link.range ELSE extractPdfPageRange(link.title)
    IN  IF link.type # "pdf" \/ range = <<>> \/ resolveContentSourceURL(link).trimmed THEN 1 ELSE range[1]

Open(link) ==
    /\ link \in contentLinks
    /\ viewer' = [link |-> link, first |-> buildViewerURL(link), trimmed |-> resolveContentSourceURL(link).trimmed]
    /\ UNCHANGED <<assets, task>>

-----------------------------------------------------------------------------
(* The administrator.                                                       *)
Upload(i, title, file) ==
    /\ i \notin Library /\ viewer' = <<>> /\ UNCHANGED task
    /\ assets' = [assets EXCEPT ![i] = [title |-> title, category |-> file[1], type |-> file[2]]]

Remove(i) ==
    /\ i \in Library /\ assets' = [assets EXCEPT ![i] = <<>>] /\ viewer' = <<>>
    /\ task' = [task EXCEPT !.bound = IF @ = i THEN NoURL ELSE @]

Bind(i) ==
    /\ i \in Library \cup {NoURL} /\ task' = [task EXCEPT !.bound = i] /\ viewer' = <<>> /\ UNCHANGED assets

Address(url) ==
    /\ task.kind = "weekly_video" /\ url \in {NoURL, Elsewhere}
    /\ task' = [task EXCEPT !.url = url] /\ viewer' = <<>> /\ UNCHANGED assets

Next ==
    \/ \E i \in Ids : Remove(i) \/ \E title \in Titles, file \in Uploads : Upload(i, title, file)
    \/ \E i \in URLs : Bind(i) \/ Address(i)
    \/ \E link \in contentLinks : Open(link)

Spec == Init /\ [][Next]_vars

-----------------------------------------------------------------------------
\* Types: the task is bound to a resource of the library, or to none.
TypeOK ==
    /\ \A i \in Ids : assets[i] # <<>> => assets[i].title \in Titles
    /\ task.title \in Titles /\ task.bound \in Library \cup {NoURL} /\ task.url \in URLs \cup {NoURL}

\* Nothing is offered twice beside a task: two links never lead to the same address.
LinkedOnce == \A link, other \in contentLinks : link.url = other.url => link = other

\* Beside a recording that can be opened, every recording, reading and handout of its series
\* is offered, unless what is offered has one of the same kind and the very same title.
Named(link) == {<<link.class, link.title>>} \cup
    {<<classifyViewerResource(assets[i]), assets[i].title>> : i \in Library \cap {link.url}}

CompanionsComplete ==
    \A primary \in weeklyMediaTaskLink : task.kind = "weekly_video" =>
        \A i \in Library :
            LET class == classifyViewerResource(assets[i])
                ours  == normalizeResourceSeriesKey(task.title)
                name  == normalizeResourceSeriesKey(assets[i].title)
            IN  class \in {"passage", "handout", "video"} /\ (StartsWith(ours, name) \/ StartsWith(name, ours)) =>
                \E link \in contentLinks \cup {currentMedia(primary)} :
                    link.url = i \/ <<class, assets[i].title>> \in Named(link)

\* A text that names its pages opens at the first of them, whether the server sends the whole
\* of it or cuts them out.
OpensAtItsPage ==
    viewer # <<>> /\ viewer.link.type = "pdf" /\ Words({"pages"}, viewer.link.title) =>
        (IF viewer.trimmed THEN From + viewer.first - 1 ELSE viewer.first) = From
=============================================================================
