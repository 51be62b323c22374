------------------------------- MODULE Pages --------------------------------
(***************************************************************************)
(* The ministry page, the readers, the downloads, the feedback and the     *)
(* administration of resources, attendance, homes and groups, side by side *)
(* as in Client: a behaviour is one of the part that page names, slot i is *)
(* the i-th variable of its module, and Off when the part has fewer.       *)
(***************************************************************************)
EXTENDS Naturals, Sequences, FiniteSets

CONSTANTS
    Groups, None, Off,
    Ministries, HomeOf,           \* the study group of each ministry
    Ids, Resources, ResourceOf, Scopes,
    Homes, AtStart, Existing,
    Users, Months,
    Readings, Endings,            \* PDF documents, and those without the page of the day
    MinistryGroups,               \* the groups the administration of groups starts with
    Filters,
    concurrentDownloads, persistedTaskLimit, Size,
    MaxActs, MaxMishaps, MaxCalls \* bounds of each part, by the name of its page

ASSUME ConstantsAssumption ==
    /\ None \notin Users \cup Groups \cup Ministries \cup Homes
    /\ HomeOf \in [Ministries -> Groups]
    /\ ResourceOf \in [Ids -> Resources] /\ AtStart \in [Groups -> Existing \cup {None}]
    /\ None \notin Readings /\ Groups # {} /\ MinistryGroups \subseteq Groups /\ Size \in Nat
    /\ None \notin {"created", "delete", "remove", "reset"}    \* what a dialog asks

VARIABLES
    page,
    s1, s2, s3, s4, s5, s6, s7, s8, s9, s10, s11, s12, s13, s14, s15, s16, s17, s18, s19, s20,
    s21

vars == <<page, s1, s2, s3, s4, s5, s6, s7, s8, s9, s10, s11, s12, s13, s14, s15, s16, s17, s18, s19,
        s20, s21>>

MP == INSTANCE MinistryPage WITH
          MaxActs <- MaxActs["ministry"], MaxMishaps <- MaxMishaps["ministry"],
          MaxCalls <- MaxCalls["ministry"],
          group <- s1, version <- s2, visible <- s3, warm <- s4, listed <- s5, selected <- s6,
          detail <- s7, cache <- s8, loading <- s9, detailLoading <- s10, saving <- s11,
          running <- s12, own <- s13, missed <- s14, pulled <- s15, acts <- s16, mishaps <- s17
MD == INSTANCE MinistryDrafts WITH
          MaxActs <- MaxActs["drafts"], MaxMishaps <- MaxMishaps["drafts"],
          MaxCalls <- MaxCalls["drafts"],
          current <- s1, shares <- s2, posts <- s3, files <- s4, share <- s5, progress <- s6,
          picked <- s7, saving <- s8, uploading <- s9, calls <- s10, typed <- s11, kept <- s12,
          during <- s13, gone <- s14, acts <- s15, mishaps <- s16
GO == INSTANCE Governance WITH
          Filters <- Filters, MaxActs <- MaxActs["resources"],
          MaxMishaps <- MaxMishaps["resources"], MaxCalls <- MaxCalls["resources"],
          group <- s1, library <- s2, lists <- s3, graph <- s4, filter <- s5, ticked <- s6,
          dialogs <- s7, loading <- s8, refreshing <- s9, batchBusy <- s10, renaming <- s11,
          changing <- s12, confirming <- s13, running <- s14, own <- s15, missed <- s16,
          acts <- s17, mishaps <- s18
FE == INSTANCE Feedback WITH
          Items <- {1, 2}, Sources <- {"all", "manual"}, MaxActs <- MaxActs["feedback"],
          MaxMishaps <- MaxMishaps["feedback"], MaxCalls <- MaxCalls["feedback"],
          admin <- s1, posts <- s2, news <- s3, cursor <- s4, mounted <- s5, source <- s6,
          items <- s7, opening <- s8, selected <- s9, urls <- s10, loading <- s11,
          detailLoading <- s12, sending <- s13, unread <- s14, running <- s15, seen <- s16,
          acked <- s17, behind <- s18, missed <- s19, acts <- s20, mishaps <- s21
CR == INSTANCE ContentReader WITH
          MaxOpens <- 3, MaxSwitches <- 1,
          context <- s1, viewer <- s2, urls <- s3, windows <- s4, running <- s5, opened <- s6,
          failed <- s7, opens <- s8
PD == INSTANCE PdfPages WITH
          Documents <- Readings, Short <- Endings, Pages <- 2, MaxActs <- MaxActs["pdf"],
          MaxLoads <- 2,
          want <- s1, mounted <- s2, loading <- s3, error <- s4, doc <- s5, scale <- s6,
          canvas <- s7, loads <- s8, renders <- s9, held <- s10, task <- s11, blamed <- s12,
          failed <- s13, n <- s14, acts <- s15
DL == INSTANCE Downloads WITH
          concurrentDownloads <- concurrentDownloads, persistedTaskLimit <- persistedTaskLimit,
          Size <- Size, MaxActs <- MaxActs["downloads"], MaxFaults <- MaxMishaps["downloads"],
          scope <- s1, initialized <- s2, tasks <- s3, stored <- s4, chunks <- s5,
          starting <- s6, cancelling <- s7, running <- s8, files <- s9, used <- s10,
          erased <- s11, revived <- s12, missed <- s13, full <- s14, acts <- s15, faults <- s16
AT == INSTANCE Attendance WITH
          MaxActs <- MaxActs["attendance"], MaxMishaps <- MaxMishaps["attendance"],
          MaxCalls <- MaxCalls["attendance"],
          present <- s1, days <- s2, extra <- s3, groupId <- s4, active <- s5, month <- s6,
          sheet <- s7, loading <- s8, saving <- s9, weekdays <- s10, extraDates <- s11,
          running <- s12, mixed <- s13, touched <- s14, unsure <- s15, wanted <- s16,
          acts <- s17, mishaps <- s18
TE == INSTANCE Tenants WITH
          StudyGroups <- Groups, MaxActs <- MaxActs["homes"], MaxMishaps <- MaxMishaps["homes"],
          MaxCalls <- MaxCalls["homes"],
          exists <- s1, home <- s2, names <- s3, current <- s4, managed <- s5, tenants <- s6,
          groups <- s7, moveTargets <- s8, editName <- s9, editing <- s10, savingAdmin <- s11,
          loading <- s12, dialog <- s13, running <- s14, hasty <- s15, unsure <- s16,
          acts <- s17, mishaps <- s18
GA == INSTANCE GroupAdmin WITH
          StudyGroups <- Groups, Existing <- MinistryGroups, MaxActs <- MaxActs["groups"],
          MaxMishaps <- MaxMishaps["groups"], MaxCalls <- MaxCalls["groups"],
          exists <- s1, names <- s2, memberOf <- s3, adminOf <- s4, accounts <- s5,
          current <- s6, members <- s7, admins <- s8, groupEditName <- s9,
          memberConflict <- s10, memberSaving <- s11, resettingMemberID <- s12, dialog <- s13,
          running <- s14, unsure <- s15, acts <- s16, mishaps <- s17

Init ==
    \/ page = "ministry" /\ MP!Init /\ s18 = Off /\ s19 = Off /\ s20 = Off /\ s21 = Off
    \/ page = "drafts" /\ MD!Init /\ s17 = Off /\ s18 = Off /\ s19 = Off /\ s20 = Off /\ s21 = Off
    \/ page = "resources" /\ GO!Init /\ s19 = Off /\ s20 = Off /\ s21 = Off
    \/ page = "feedback" /\ FE!Init
    \/ page = "reader" /\ CR!Init /\ s9 = Off /\ s10 = Off /\ s11 = Off /\ s12 = Off /\ s13 = Off
          /\ s14 = Off /\ s15 = Off /\ s16 = Off /\ s17 = Off /\ s18 = Off /\ s19 = Off
          /\ s20 = Off /\ s21 = Off
    \/ page = "pdf" /\ PD!Init /\ s16 = Off /\ s17 = Off /\ s18 = Off /\ s19 = Off /\ s20 = Off
          /\ s21 = Off
    \/ page = "downloads" /\ DL!Init /\ s17 = Off /\ s18 = Off /\ s19 = Off /\ s20 = Off /\ s21 = Off
    \/ page = "attendance" /\ AT!Init /\ s19 = Off /\ s20 = Off /\ s21 = Off
    \/ page = "homes" /\ TE!Init /\ s19 = Off /\ s20 = Off /\ s21 = Off
    \/ page = "groups" /\ GA!Init /\ s18 = Off /\ s19 = Off /\ s20 = Off /\ s21 = Off

Next ==
    \/ page = "ministry" /\ MP!Next /\ UNCHANGED <<page, s18, s19, s20, s21>>
    \/ page = "drafts" /\ MD!Next /\ UNCHANGED <<page, s17, s18, s19, s20, s21>>
    \/ page = "resources" /\ GO!Next /\ UNCHANGED <<page, s19, s20, s21>>
    \/ page = "feedback" /\ FE!Next /\ UNCHANGED <<page>>
    \/ page = "reader" /\ CR!Next /\ UNCHANGED <<page, s9, s10, s11, s12, s13, s14, s15, s16, s17,
          s18, s19, s20, s21>>
    \/ page = "pdf" /\ PD!Next /\ UNCHANGED <<page, s16, s17, s18, s19, s20, s21>>
    \/ page = "downloads" /\ DL!Next /\ UNCHANGED <<page, s17, s18, s19, s20, s21>>
    \/ page = "attendance" /\ AT!Next /\ UNCHANGED <<page, s19, s20, s21>>
    \/ page = "homes" /\ TE!Next /\ UNCHANGED <<page, s19, s20, s21>>
    \/ page = "groups" /\ GA!Next /\ UNCHANGED <<page, s18, s19, s20, s21>>

Spec == Init /\ [][Next]_vars

-----------------------------------------------------------------------------
\* What the parts promise: every conjunct is stated and explained in the module of its part.

\* Every part has the types of its own module.
TypeOK ==
    /\ page = "ministry"   => MP!TypeOK
    /\ page = "drafts"     => MD!TypeOK
    /\ page = "resources"  => GO!TypeOK
    /\ page = "feedback"   => FE!TypeOK
    /\ page = "reader"     => CR!TypeOK
    /\ page = "pdf"        => PD!TypeOK
    /\ page = "downloads"  => DL!TypeOK
    /\ page = "attendance" => AT!TypeOK
    /\ page = "homes"      => TE!TypeOK
    /\ page = "groups"     => GA!TypeOK

\* However late an answer comes, what a page shows is of the group, item, home, month or
\* resource that is chosen now (the request numbers of MinistryGroups.vue, FeedbackAdmin.vue,
\* TenantManagement.vue, content.ts and PdfViewer.vue).
PageOfContext ==
    /\ page = "ministry"   => MP!PageOfStudyGroup
    /\ page = "resources"  => GO!GovernanceOfGroup
    /\ page = "feedback"   => FE!ShowsWhatIsOpen
    /\ page = "reader"     => CR!ViewerIsLastOpened
    /\ page = "pdf"        => PD!PagesOfChoice /\ PD!NoPageOfOthers
    /\ page = "attendance" => AT!SheetOfChoice
    /\ page = "homes"      => TE!FormOfHome
    /\ page = "groups"     => GA!MembersOfGroup

\* What somebody changed is what the page shows once nothing is under way, after a refusal and
\* after overlapping loads too; where the answer to a change was lost the page may be behind
\* until it loads again.  A text that was in its form when a save began leaves it only when the
\* server has it; one that is typed while the save is under way goes with it (MinistryGroups.vue:389,
\* 618).  Dates that were being edited stay, and a reply is marked as read only when it was on
\* the screen and its dot stays away then.  A download has one run at a time, with its pieces.
OwnWorkStands ==
    /\ page = "ministry"   => MP!OwnChangeShown
    /\ page = "drafts"     => MD!DraftsAreKept
    /\ page = "resources"  => GO!LibraryIsCurrent /\ GO!GraphIsOfFilters
    /\ page = "feedback"   => FE!UnseenStaysUnread /\ FE!DotStaysAway
    /\ page = "downloads"  => DL!RunsApart
    /\ page = "attendance" => AT!WeekdayIsSaved /\ AT!DatesAreKept
    /\ page = "homes"      => TE!ListsOfHome /\ TE!NamesAreOwn
    /\ page = "groups"     => GA!GroupNamesAreOwn

\* With nothing under way every spinner and lock is gone, what was opened or queued has
\* appeared, gone on or failed, and what was held for it is released: object URLs with their
\* viewer (content.ts), the pieces of a download with its task (downloadManager.ts).
PagesSettle ==
    /\ page = "ministry"   => MP!PageFills /\ MP!SpinnersEnd
    /\ page = "drafts"     => MD!ComposersFree
    /\ page = "resources"  => GO!LocksEnd
    /\ page = "feedback"   => FE!FeedbackSettles
    /\ page = "reader"     => CR!OpenedAppears /\ CR!ObjectsReleased
    /\ page = "pdf"        => PD!PdfSettles
    /\ page = "downloads"  => DL!QueueMoves /\ DL!NothingLeftBehind
    /\ page = "attendance" => AT!SheetUnlocks
    /\ page = "homes"      => TE!HomesSettle
    /\ page = "groups"     => GA!MembersSettle

\* A change, a file or a question never reaches another group, ministry or member than the
\* one it was made for, however long a dialog was open.
ChangesStayInContext ==
    /\ page = "resources" => GO!ChangesStayInGroup
    /\ page = "drafts"    => MD!AttachmentsOfMinistry
    /\ page = "groups"    => GA!AskedOfOpenGroup

\* The download manager implements Transfers: nothing is delivered after it was paused or
\* cancelled or its scope was left, and a file is delivered whole.
Delivers ==
    /\ page = "downloads" => DL!Promise!Init
    /\ [][page = "downloads" => DL!Promise!Next]_<<s3, s9>>
=============================================================================
