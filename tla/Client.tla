------------------------------- MODULE Client -------------------------------
(***************************************************************************)
(* The parts of the member's page, of the learning administration and of   *)
(* the pages for a home's catalogue and robots that share nothing but the  *)
(* session, side by side: a behaviour is one of one part, the one that     *)
(* page names.  Slot i is the i-th variable of that part's module, in the  *)
(* order it declares them, and Off when the part has fewer; nothing is     *)
(* said of two parts together.  The parts' own modules explain their       *)
(* variables, actions and properties.                                      *)
(***************************************************************************)
EXTENDS Naturals, Sequences, FiniteSets

CONSTANTS
    Users, Groups, None, Off,
    GroupsOf, Own,                \* the groups of each account; the account of the quiz
    Reminded, SentIn,             \* the reminders, by number; the group of each
    MemoryItems,                  \* what is remembered of the player
    Bible, WeekOf,                \* chapters of every book; the week of each date
    InitialTasks, Drafts,         \* tasks of the weeks, and those an administrator adds
    Titles, Uploads,
    Catalogued, Chats, Announced, \* ministries; the chats of a robot, and the groups they are bound to
    MaxEndpoints, MaxChain,       \* bounds of an enrolment
    MaxActs, MaxMishaps, MaxCalls \* bounds of each part, by the name of its page

ASSUME ConstantsAssumption ==
    /\ None \notin Users \cup Groups /\ Announced \subseteq Groups
    /\ GroupsOf \in [Users -> SUBSET Groups] /\ Own \in Users
    /\ Reminded \subseteq Nat \ {0} /\ IsFiniteSet(Reminded) /\ SentIn \in [Reminded -> Groups]
    /\ MaxEndpoints \in Nat \ {0}

VARIABLES
    page,
    s1, s2, s3, s4, s5, s6, s7, s8, s9, s10, s11, s12, s13, s14, s15, s16, s17, s18, s19, s20,
    s21, s22, s23, s24, s25

vars == <<page, s1, s2, s3, s4, s5, s6, s7, s8, s9, s10, s11, s12, s13, s14, s15, s16, s17, s18, s19,
        s20, s21, s22, s23, s24, s25>>

CS == INSTANCE ClientSession WITH
          NoUser <- None, NoGroup <- None, Dates <- 1..2, MaxCalls <- MaxCalls["session"],
          MaxActs <- MaxActs["session"],
          session <- s1, token <- s2, refresh <- s3, user <- s4, tab <- s5, date <- s6,
          range <- s7, shown <- s8, calls <- s9, acts <- s10, faults <- s11, behind <- s12,
          misfiled <- s13, told <- s14
LE == INSTANCE LearningEditor WITH
          MaxCalls <- MaxCalls["editor"], MaxActs <- MaxActs["editor"], MaxOthers <- 1,
          MaxFaults <- MaxMishaps["editor"],
          conf <- s1, week <- s2, group <- s3, gen <- s4, config <- s5, list <- s6, draft <- s7,
          date <- s8, hub <- s9, form <- s10, source <- s11, busy <- s12, verseSaving <- s13,
          weekSave <- s14, calls <- s15, acts <- s16, others <- s17, faults <- s18,
          restamped <- s19
RE == INSTANCE Reminders WITH
          Ids <- Reminded, GroupOf <- SentIn, MaxActs <- MaxActs["reminders"],
          MaxFaults <- MaxMishaps["reminders"], MaxCalls <- MaxCalls["reminders"],
          sent <- s1, read <- s2, prefs <- s3, inApp <- s4, scope <- s5, items <- s6,
          pending <- s7, banner <- s8, muted <- s9, savingPreference <- s10, clearing <- s11,
          seen <- s12, offered <- s13, running <- s14, work <- s15, shown <- s16,
          history <- s17, alerts <- s18, loaded <- s19, acked <- s20, times <- s21,
          unsaved <- s22, unsure <- s23, acts <- s24, faults <- s25
AF == INSTANCE AutomaticFeedback WITH
          Errors <- {"e1", "e2"}, MaxPending <- 2, MaxActs <- MaxActs["reports"],
          MaxMishaps <- MaxMishaps["reports"], MaxGens <- 2,
          gen <- s1, token <- s2, valid <- s3, wanted <- s4, refreshing <- s5, clears <- s6,
          pending <- s7, recent <- s8, calls <- s9, stored <- s10, doubts <- s11,
          business <- s12, acts <- s13, mishaps <- s14
SC == INSTANCE Schedules WITH
          MaxDay <- 3, Bible <- Bible, MaxPer <- 2, MaxEdits <- 3, MaxSaves <- 3,
          saved <- s1, history <- s2, draft <- s3, day <- s4, edits <- s5, saves <- s6
VP == INSTANCE VersePlans WITH
          MaxDay <- 4, Texts <- {1, 2}, MaxSteps <- 5,
          plans <- s1, day <- s2, end <- s3, text <- s4, baseline <- s5, drafts <- s6,
          steps <- s7
QZ == INSTANCE VerseQuiz WITH
          Tasks <- {"t1", "t2"}, Refers <- {"t1"}, Own <- Own, MaxActs <- MaxActs["quiz"],
          MaxMishaps <- MaxMishaps["quiz"], MaxCalls <- MaxCalls["quiz"], MaxAttempts <- 2,
          attempts <- s1, stored <- s2, open <- s3, task <- s4, user <- s5, text <- s6,
          exam <- s7, submitted <- s8, serverHistory <- s9, localHistory <- s10,
          reviewed <- s11, loading <- s12, saving <- s13, originalLoading <- s14,
          syncError <- s15, running <- s16, lost <- s17, stranded <- s18, overtaken <- s19,
          count <- s20, acts <- s21, mishaps <- s22
TL == INSTANCE TaskList WITH
          Dates <- 1..3, WeekOf <- WeekOf, InitialTasks <- InitialTasks, Drafts <- Drafts,
          MaxTasks <- 7, MaxRecords <- 2, MaxActs <- MaxActs["list"],
          tasks <- s1, records <- s2, separate <- s3, selectedDate <- s4, view <- s5,
          done <- s6, undone <- s7, acts <- s8
PE == INSTANCE PushEnrolment WITH
          MaxActs <- MaxActs["alerts"], MaxMishaps <- MaxMishaps["alerts"],
          MaxEndpoints <- MaxEndpoints, MaxChain <- MaxChain,
          user <- s1, group <- s2, began <- s3, leaving <- s4, permission <- s5,
          subscription <- s6, ready <- s7, bindings <- s8, muted <- s9, chain <- s10,
          ask <- s11, missed <- s12, left <- s13, strayed <- s14, acts <- s15, mishaps <- s16
SM == INSTANCE StudyMemory WITH
          Items <- MemoryItems, MaxActs <- MaxActs["memory"], MaxCalls <- MaxCalls["memory"],
          account <- s1, ready <- s2, syncing <- s3, failure <- s4, loadFailed <- s5,
          local <- s6, pending <- s7, calls <- s8, frame <- s9, told <- s10, server <- s11,
          made <- s12, mine <- s13, put <- s14, overtaken <- s15, revived <- s16, acts <- s17,
          faults <- s18
WL == INSTANCE WeekLinks WITH
          Ids <- {1, 2}, Titles <- Titles, Uploads <- Uploads, From <- 12, To <- 18,
          assets <- s1, task <- s2, viewer <- s3
CA == INSTANCE Catalog WITH
          Ids <- Catalogued, MaxActs <- MaxActs["catalog"], MaxMishaps <- MaxMishaps["catalog"],
          MaxCalls <- MaxCalls["catalog"],
          catalog <- s1, currentGroup <- s2, groups <- s3, selected <- s4, loading <- s5,
          saving <- s6, dialog <- s7, running <- s8, loaded <- s9, unsure <- s10, acts <- s11,
          mishaps <- s12
BO == INSTANCE Bots WITH
          Chats <- Chats, StudyGroups <- Announced, MaxActs <- MaxActs["bots"],
          MaxMishaps <- MaxMishaps["bots"], MaxCalls <- MaxCalls["bots"],
          bound <- s1, registered <- s2, failed <- s3, shown <- s4, loading <- s5,
          savingBinding <- s6, savingRobot <- s7, clearingFailed <- s8, running <- s9,
          mixed <- s10, unsure <- s11, acts <- s12, mishaps <- s13

Init ==
    \/ page = "session" /\ CS!Init /\ s15 = Off /\ s16 = Off /\ s17 = Off /\ s18 = Off /\ s19 = Off
          /\ s20 = Off /\ s21 = Off /\ s22 = Off /\ s23 = Off /\ s24 = Off /\ s25 = Off
    \/ page = "editor" /\ LE!Init /\ s20 = Off /\ s21 = Off /\ s22 = Off /\ s23 = Off /\ s24 = Off
          /\ s25 = Off
    \/ page = "reminders" /\ RE!Init
    \/ page = "reports" /\ AF!Init /\ s15 = Off /\ s16 = Off /\ s17 = Off /\ s18 = Off /\ s19 = Off
          /\ s20 = Off /\ s21 = Off /\ s22 = Off /\ s23 = Off /\ s24 = Off /\ s25 = Off
    \/ page = "schedule" /\ SC!Init /\ s7 = Off /\ s8 = Off /\ s9 = Off /\ s10 = Off /\ s11 = Off
          /\ s12 = Off /\ s13 = Off /\ s14 = Off /\ s15 = Off /\ s16 = Off /\ s17 = Off
          /\ s18 = Off /\ s19 = Off /\ s20 = Off /\ s21 = Off /\ s22 = Off /\ s23 = Off
          /\ s24 = Off /\ s25 = Off
    \/ page = "verses" /\ VP!Init /\ s8 = Off /\ s9 = Off /\ s10 = Off /\ s11 = Off /\ s12 = Off
          /\ s13 = Off /\ s14 = Off /\ s15 = Off /\ s16 = Off /\ s17 = Off /\ s18 = Off
          /\ s19 = Off /\ s20 = Off /\ s21 = Off /\ s22 = Off /\ s23 = Off /\ s24 = Off
          /\ s25 = Off
    \/ page = "quiz" /\ QZ!Init /\ s23 = Off /\ s24 = Off /\ s25 = Off
    \/ page = "list" /\ TL!Init /\ s9 = Off /\ s10 = Off /\ s11 = Off /\ s12 = Off /\ s13 = Off
          /\ s14 = Off /\ s15 = Off /\ s16 = Off /\ s17 = Off /\ s18 = Off /\ s19 = Off
          /\ s20 = Off /\ s21 = Off /\ s22 = Off /\ s23 = Off /\ s24 = Off /\ s25 = Off
    \/ page = "alerts" /\ PE!Init /\ s17 = Off /\ s18 = Off /\ s19 = Off /\ s20 = Off /\ s21 = Off
          /\ s22 = Off /\ s23 = Off /\ s24 = Off /\ s25 = Off
    \/ page = "memory" /\ SM!Init /\ s19 = Off /\ s20 = Off /\ s21 = Off /\ s22 = Off /\ s23 = Off
          /\ s24 = Off /\ s25 = Off
    \/ page = "links" /\ WL!Init /\ s4 = Off /\ s5 = Off /\ s6 = Off /\ s7 = Off /\ s8 = Off
          /\ s9 = Off /\ s10 = Off /\ s11 = Off /\ s12 = Off /\ s13 = Off /\ s14 = Off
          /\ s15 = Off /\ s16 = Off /\ s17 = Off /\ s18 = Off /\ s19 = Off /\ s20 = Off
          /\ s21 = Off /\ s22 = Off /\ s23 = Off /\ s24 = Off /\ s25 = Off
    \/ page = "catalog" /\ CA!Init /\ s13 = Off /\ s14 = Off /\ s15 = Off /\ s16 = Off /\ s17 = Off
          /\ s18 = Off /\ s19 = Off /\ s20 = Off /\ s21 = Off /\ s22 = Off /\ s23 = Off
          /\ s24 = Off /\ s25 = Off
    \/ page = "bots" /\ BO!Init /\ s14 = Off /\ s15 = Off /\ s16 = Off /\ s17 = Off /\ s18 = Off
          /\ s19 = Off /\ s20 = Off /\ s21 = Off /\ s22 = Off /\ s23 = Off /\ s24 = Off
          /\ s25 = Off

Next ==
    \/ page = "session" /\ CS!Next /\ UNCHANGED <<page, s15, s16, s17, s18, s19, s20, s21, s22, s23,
          s24, s25>>
    \/ page = "editor" /\ LE!Next /\ UNCHANGED <<page, s20, s21, s22, s23, s24, s25>>
    \/ page = "reminders" /\ RE!Next /\ UNCHANGED <<page>>
    \/ page = "reports" /\ AF!Next /\ UNCHANGED <<page, s15, s16, s17, s18, s19, s20, s21, s22, s23,
          s24, s25>>
    \/ page = "schedule" /\ SC!Next /\ UNCHANGED <<page, s7, s8, s9, s10, s11, s12, s13, s14, s15,
          s16, s17, s18, s19, s20, s21, s22, s23, s24, s25>>
    \/ page = "verses" /\ VP!Next /\ UNCHANGED <<page, s8, s9, s10, s11, s12, s13, s14, s15, s16, s17,
          s18, s19, s20, s21, s22, s23, s24, s25>>
    \/ page = "quiz" /\ QZ!Next /\ UNCHANGED <<page, s23, s24, s25>>
    \/ page = "list" /\ TL!Next /\ UNCHANGED <<page, s9, s10, s11, s12, s13, s14, s15, s16, s17, s18,
          s19, s20, s21, s22, s23, s24, s25>>
    \/ page = "alerts" /\ PE!Next /\ UNCHANGED <<page, s17, s18, s19, s20, s21, s22, s23, s24, s25>>
    \/ page = "memory" /\ SM!Next /\ UNCHANGED <<page, s19, s20, s21, s22, s23, s24, s25>>
    \/ page = "links" /\ WL!Next /\ UNCHANGED <<page, s4, s5, s6, s7, s8, s9, s10, s11, s12, s13, s14,
          s15, s16, s17, s18, s19, s20, s21, s22, s23, s24, s25>>
    \/ page = "catalog" /\ CA!Next /\ UNCHANGED <<page, s13, s14, s15, s16, s17, s18, s19, s20, s21,
          s22, s23, s24, s25>>
    \/ page = "bots" /\ BO!Next /\ UNCHANGED <<page, s14, s15, s16, s17, s18, s19, s20, s21, s22, s23,
          s24, s25>>

Spec == Init /\ [][Next]_vars

-----------------------------------------------------------------------------
\* What the parts promise: every conjunct is stated and explained in the module of its part.

\* Every part has the types of its own module.
TypeOK ==
    /\ page = "session"   => CS!TypeOK
    /\ page = "editor"    => LE!TypeOK
    /\ page = "reminders" => RE!TypeOK
    /\ page = "reports"   => AF!TypeOK
    /\ page = "schedule"  => SC!TypeOK
    /\ page = "verses"    => VP!TypeOK
    /\ page = "quiz"      => QZ!TypeOK
    /\ page = "list"      => TL!TypeOK
    /\ page = "alerts"    => PE!TypeOK
    /\ page = "memory"    => SM!TypeOK
    /\ page = "links"     => WL!TypeOK
    /\ page = "catalog"   => CA!TypeOK
    /\ page = "bots"      => BO!TypeOK

\* However late an answer comes, what is shown, listed or told is of the account and the
\* group of the session: the hub and its day (loadAll, legacy-app.js:627), the weeks of the
\* administration, the reminders, the reports of errors, the attempts of a quiz and what is
\* remembered of the player.
ShownInContext ==
    /\ page = "session"   => CS!ShownInContext
    /\ page = "editor"    => LE!WeeksOfGroup
    /\ page = "reminders" => RE!RemindersOfGroup
    /\ page = "reports"   => AF!ReportsOfSession
    /\ page = "quiz"      => QZ!HistoryOfMember
    /\ page = "memory"    => SM!MemoryOfAccount

\* Nobody is left waiting: a page that could not be loaded says so, whoever waits for a new
\* token has a renewal to wait for (authSession.ts:31), a question whose place was taken is
\* answered, and what is disabled while something runs is free again after it.
NothingHangs ==
    /\ page = "session" => CS!RequestedPageArrives /\ CS!NobodyWaitsInVain
    /\ page = "editor"  => LE!NothingStaysBlocked
    /\ page = "reports" => AF!NobodyWaitsInVain
    /\ page = "quiz"    => QZ!QuizSettles
    /\ page = "memory"  => SM!SyncSettles
    /\ page = "catalog" => CA!CatalogUnlocks
    /\ page = "bots"    => BO!BotsUnlock

\* A step changes what was asked for and nothing beside it: no late answer signs the page in
\* again (logout, legacy-app.js:3010), a switch that is saved takes no typed text along, a
\* reminder stays unread until it was read, muting one group mutes no other, a later start
\* keeps the days before it and a verse plan the days outside its range.
OnlyAskedChanges ==
    [][ /\ page = "session"   => CS!SignsInWhenAsked
        /\ page = "editor"    => LE!SavesOnlyWhatIsAsked
        /\ page = "reminders" => RE!LosesNoneUnread
        /\ page = "alerts"    => PE!MutesWhatIsAsked
        /\ page = "schedule"  => SC!KeepsThePast
        /\ page = "verses"    => VP!KeepsOtherDays ]_vars

\* The hub, the calendar and the reader agree on what a day reads and the days follow each
\* other (dailySchedule.ts), a day has one verse, and each material beside a task is linked
\* once, none of its series is missing and it opens at its page (legacy-app.js:1166).  Once
\* the list has loaded again it shows what was ticked as done and what was taken back as not
\* done, its head counts the same, and a record completes one task (legacy-app.js:2312).  The
\* catalogue and the bindings of the robots are the server's after every change and refusal, where
\* no answer to a change was lost since they were loaded.
PagesAgree ==
    /\ page = "schedule" => SC!PagesAgree /\ SC!ReadingContinues
    /\ page = "verses"   => VP!OneVerseADay
    /\ page = "links"    => WL!LinkedOnce /\ WL!CompanionsComplete /\ WL!OpensAtItsPage
    /\ page = "list"     => TL!CheckedIsShown /\ TL!UndoneIsPending /\ TL!HeadAgrees /\ TL!OneTaskPerRecord
    /\ page = "catalog"  => CA!CatalogIsCurrent
    /\ page = "bots"     => BO!BindingsAreShown

\* Whatever was saved is stored where it was meant to be, or still on its way, or told as
\* lost: attempts of the quiz, study memory, texts and switches.  An error of a session is
\* stored once within its window and its report never ends the session (errorFeedback.ts).
SavesCount ==
    /\ page = "quiz"    => QZ!AttemptsAreKept
    /\ page = "memory"  => SM!NothingUnsent
    /\ page = "session" => CS!StudyWritesByOwner
    /\ page = "editor"  => LE!BasedOnRevision /\ LE!FlagIsSaved
    /\ page = "reports" => AF!StoredOnce /\ AF!RefreshClears

\* A reminder that was read stays read whatever poll answers late, it alerts once, and the
\* switch shows what the server has (learningReminders.js, learning-notifications-sw.js).  When the
\* chain of enrolments has run, alerts come to the device for the account and group that are
\* signed in, and after a sign-out for nobody (learningNotifications.js, AppRoot.vue:488).
AlertsAreOwn ==
    /\ page = "reminders" => RE!ReadStaysRead /\ RE!PreferenceShown /\ RE!AlertOnce
    /\ page = "alerts"    => PE!AlertsOfScope /\ PE!QuietAfterLogout
=============================================================================
