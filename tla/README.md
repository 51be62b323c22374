# Cedar Discipleship: TLA+ models and proofs

This directory models the parts of Cedar Discipleship whose correctness depends on
the order in which things happen: goroutines, SQL transactions, message sends and
restarts in the server; answers, switches and closed dialogs in the page. Each module is
written from the Go, JavaScript, TypeScript or Vue source; `PROJECT.json` gives, for
every definition, the file and the lines it stands for.

Run a model with `tlc -config X.cfg M`, check a proof module with `tlapm M.tla`.

## 1. The system

A Go server (`src/backend`) with a MySQL database and some state in files serves a
Vue application (`src/frontend`). Members of a study group check in daily and weekly
tasks; robots announce the check-ins in chats; administrators edit weeks, settings,
bindings and resources. The server is stopped by killing it: there is no orderly
shutdown. Several of its workers may exist at once (one per robot, one per server
instance), and every HTTP handler is a goroutine of its own. The application is one
page per browser tab; its functions run up to an `await` without interruption and
overlap at every one.

Server:

| Component | State it keeps | Operations | What makes it correct |
| --- | --- | --- | --- |
| Today cache (`server/today*.go`) | LRU of encoded pages, epoch and generations, refresh channel | read through, store, invalidate, clear at midnight, prewarm | nobody reads content older than an acknowledged write; the limits hold; a queued refresh happens |
| Chat bindings (`notification/manager.go`, `bindings.go`) | `bindings.json`, memory copy, the queue's targets and versions, per-target leases | assign, remove, unbind a muted chat, close, restart | a group's message never reaches a chat bound to another group; a late failure removes only its own binding |
| Notification queue (`notification/queue.go`, `sent_state.go`) | job files, last-sent file, the worker's copy of a job | enqueue, wake, process, finish, clear failed | nothing lost, nothing sent twice without cause, no summary that takes names away |
| Check-ins and study weeks (`checkin/`, `learning/mysql_repository.go`) | `checkin_records`, `study_weeks`, `study_tasks` | find, create, delete; save, move, replace, delete a week, import weeks | one completion is one active row, on a task that exists; the tasks that records refer to are kept by everything but an import |
| Reminders and web push (`server/learning_*.go`, `daily_devotion_reminder.go`) | reminders, preferences, device rows, deliveries, slots | remind, read, mute, bind a device, push | a slot reminds once; one sender per delivery; nothing old is replayed |
| Ministry groups (`ministry/`) | groups, members, requests, shares, attendance | apply, decide, leave, appoint, share, pin, count | a decision meets the submission it was made for; no outsider is admitted |
| Robots' fleet, assets, learning configuration, accounts, feedback, backup, statistics, audit | tables, files | see section 7 | (server side not modelled) |

Application:

| Component | State it keeps | Operations | What makes it correct |
| --- | --- | --- | --- |
| Session (`legacy-app.js`, `authSession.ts`) | token, user, group, date, what is shown, request counters | sign in and out, renew, switch, load, poll | what is shown is of the account, group and date that are chosen; a late answer signs nobody in |
| Learning section (`AdminConsole.vue`, `legacy-app.js`) | configuration and its revision, draft of a week, busy flags | edit, switch on and off, save, import, delete | unsaved texts never overwrite a newer revision; a switch is saved alone; locks end |
| Schedules, verse plans (`dailySchedule.ts`, `weekVerse.js`, `config_history.go`) | plans with starts, history, drafts of days | move a start, save a plan across others | page and server choose the same version of a day; past days stay |
| List of the day, links, quiz (`legacy-app.js`, `VerseQuiz.vue`) | joined answers of week, hub and records; unsaved attempts | check, take back, open, grade, review | a click is what the reloaded list shows; no attempt vanishes or is shown to another |
| Study memory (`study-memory.js`) | storage per account, what waits, worker, revision | save, send, poll, bind | a newer value is never replaced by an older answer; nothing that was saved is forgotten |
| Reminder page and service worker | list, seen and shown IDs, banner | poll, read, clear, mute, alert | read stays read; an alert once |
| Enrolment for alerts (`learningNotifications.js`) | one chain of work, the browser's subscription | enrol, remove, mute | at the end of the chain alerts are of whoever is signed in |
| Error reports (`errorFeedback.ts`) | pending, recent signatures | report, retry, renew | stored once, ends the session never |
| Ministry page, governance, feedback, attendance, tenants, catalogue, robots, groups | lists, selections, dialogs, locks, drafts | load, select, change, confirm | late answers of another context are dropped, locks end, refused changes are taken back |
| Viewer, PDF viewer (`legacy-app.js`, `PdfViewer.vue`) | what is open, object URLs, documents | open, close, scale | the last one opened is shown, the others are released |
| Download manager (`downloadManager.ts`) | tasks, runs, stored chunks | start, pause, resume, cancel, reload | a download is delivered whole and only while it is wanted |

**Interactions.** A check-in handler commits a row and then enqueues a job; the
queue reads the database again when it processes the job. Saving the learning
configuration invalidates the today cache and wakes the queues. A binding change
takes the lease that the queue's worker holds during a send. Saving or deleting a
week runs against the check-ins of that week. The push workers of all instances
share only the deliveries table. In the page all parts share the session: a group
switch or a sign-out comes between the requests of every one of them, and all
requests share one renewal of the access token. The parts hardly share anything
else, which is why each is modelled with a session of its own.

**Hard behaviours.** Loads and sends outside the mutex that protects their result;
multi-file updates cut short by a kill; answers lost after the effect; retries from
frozen data; batches that are stale when used; record IDs that stand in for commit
order; lock cycles between transactions. In the page: answers in another order than
the questions, a switch of group or account between an `await` and what follows it,
dialogs that stay open across a switch, optimistic changes that are refused, locks
whose `finally` belongs to another caller. They are listed, with their lines and the
properties aimed at them, under `hazards` in `PROJECT.json`.

## 2. Modules

Every component has a module with its state, actions and properties. The modules of the
server have one or more configurations each, and an `MC` module where the constants
are more than small sets; those of the page are checked through `MCClient` and
`MCPages`. Proofs are in `*Proofs`.

### TodayCache

`entries`, `lru`, `sizeBytes`, `epoch` and `gen` are the fields of
`todayContentCache`; `db` holds the committed versions of a group's settings and
week, the two things a load reads in two SQL statements. A reader or the maintenance
goroutine goes through `get`, `capture` (of epoch and generation), `settings`,
`week` and `store`; a writer commits and then invalidates. `handleClearTodayCache`,
midnight, corrupted payloads, the refresh channel with its capacity, the retry timer
and prewarming are actions. `Total` and `Without` are recursive functions on the LRU
list, so that what they compute can be proved. The PDF range cache and the counters are left out.

### BindingLease

`disk`, `store` and `published` are the three copies of the bindings, `version` the
queue's target versions, `wlock` the exclusive side of the leases, `mu` the
manager's mutex. An administrator's request waits for the mutex, writes the file
(which may fail before or after the rename), takes the leases of the changed
targets, publishes and enqueues the initial summary. The worker prepares, takes the
shared lease, re-checks the version, sends, and on a muted chat unbinds under the
mutex. `Queue.mu` protects only steps that do not block, so those steps are atomic.

### DeliveryQueue

The job files of one chat and topic, the last-sent file and the worker's copy of a
job, in the steps between which a kill or another goroutine can come: `process`,
`Enabled`, `Snapshot`, `CheckNeedsSend`, `freeze`, `SendText`, `Answered`, `finish`,
`Record`, `finalize`. A summary is the set of check-ins it lists. `WakeInitial` and
the enqueue after it are two steps. Faults are a kill, a cancelled context, a failing
write and an answer lost after delivery.

### Checkins

Requests of one member are processes whose steps are SQL statements; an administrator
at a time saves a week with its dates and tasks, deletes one, or imports weeks from a
file (`ImportWeeks`, by `ReplaceStudyWeeks` and `DeleteAllWeeksTx`). MySQL is modelled by what the code relies on: snapshots,
row locks to the end of the transaction, the range locked by the subquery of
`DeleteWeekTasksTx`, the unique key, and the deadlock victim. `FindExistingDaily`,
`findExistingWeeklyBook` and `findExistingWeeklyTask` are the code's lookups;
`Completes` is the independent statement of which two rows are one completion.
`imported` remembers which rows were there at an import, for it deletes their tasks.

### LearningPush

`reminders`, `runs`, `deliveries` and `sub` are tables; `worker` is the local state of
each instance's loop: `slot`, `tx` (the slot's transaction is open), `fill`, `select`,
`claim`, `send`, `accepted`. The device may be bound to the member or to another
account. A day has four phases, two of which are the minutes in which a slot is due;
`clock` orders the `created_at` of device rows and reminders, and a reminder's is
taken before its insert. Recipients do not interact, so one is modelled.

### Ministry

`group`, `members`, `request` and `notices` are the tables of one ministry group,
`inside` the active members of the study group. A request under way is a job: the
service step reads without locks (access row, auto approval, status of the request),
then the job takes row locks in `LockOrder` and commits. `Refused` is the check of
the applicant under his lock; a new leader is only read. `rulings` and `promoted` are
history. Shares, progress and attendance are modelled as the page sees them
(`MinistryPage`, `MinistryDrafts`, `Attendance`), not on the server.

Seen while modelling, and said by no document: appointing a leader does not close his
pending application, so a later approval of it resets an admin role he was given
meanwhile, and a rejection is announced to the leader; removal from the study group
leaves ministry memberships, roles and leadership as they are.

### The page: Client and Pages

The parts of the application share the session and little else, so each has a module
of its own and two modules put them side by side. In `Client` and `Pages` the variable
`page` names the part a behaviour is of, and the slots `s1`, `s2`, ... are that part's
variables (`CS == INSTANCE ClientSession WITH ..., user <- s1, ...`), so a state space
is the disjoint sum of the parts' and one run checks them all. Every property of the
sum is one promise to the user, a conjunct for every part that could break it, e.g.
`ShownInContext` is `CS!ShownInContext` for the session and `QZ!HistoryOfMember` for
the quiz; the conjuncts are stated and explained in the modules of the parts.

In all of these modules a running async function is a record `call`: what it captured
when it started, whether its request is on the way (`sent`), was served (`ok`, `no`)
or got lost (before the server had it, or after it had stored the change: the page
cannot tell), and whether the request number, the revision or the scope it compares
later is still current. Answers arrive in any order. The server is what the requests
and answers show of it. An action is the code from one `await` to the next. Where the
code lets something happen that no document rules out, a flag records it (`pulled`,
`misfiled`, `lost`, ...), the property excuses the state, and the flag's comment says
why: they are collected in section 4.

| Module | Source | Models |
| --- | --- | --- |
| ClientSession | `legacy-app.js`, `authSession.ts`, `App.vue` | sign-in and out, renewals shared by the requests, group switches with conflict and retry, loads of a day, polls, statistics, the default group, study memory writes, a second tab |
| LearningEditor | `AdminConsole.vue`, `legacy-app.js`, `dialog.js` | one administrator with texts, a switch, a verse and a week; another one; questions; reads that replace; group switches |
| Schedules | `dailySchedule.ts`, `AdminConsole.vue`, `config_history.go` | starts that move, the version of a day by page and by server, readings that cycle |
| VersePlans | `weekVerse.js`, `AdminConsole.vue` | plans that cut other plans, drafts of days |
| VerseQuiz | `VerseQuiz.vue` | opening, records, text, papers, attempts that are saved, kept or tried again |
| TaskList | `legacy-app.js`, `learning/service.go` | the join of week, hub and records, and clicks on it |
| WeekLinks | `legacy-app.js`, `content.ts` | which resources belong to a task, and the page a text opens at |
| StudyMemory | `study-memory.js`, `OriginalCoursePlayer.vue` | storage, pending values, the worker, polls, accounts, the player's frame, another device |
| Reminders | `learningReminders.js`, `reminderRefresh.js`, the service worker | polls against reads, clears and mutes; alerts by push and by page |
| PushEnrolment | `learningNotifications.js`, `MemberReminderControl.vue`, `AppRoot.vue` | the chain of enrolments over changes of account and group |
| AutomaticFeedback | `errorFeedback.ts`, `authSession.ts` | settings asked once for several reports, retries, renewals |
| MinistryPage | `MinistryGroups.vue` | workspace, detail, cache, changes, decisions beside group switches |
| MinistryDrafts | `MinistryGroups.vue` | the two composers, uploads, ticked attachments |
| Governance | `ResourceGovernance.vue` | three lists, graph, dialogs, single and batch changes |
| Feedback | `FeedbackCenter.vue`, `FeedbackAdmin.vue`, `feedbackUnread.js` | lists, details with images, receipts, the store of unread items |
| ContentReader | `legacy-app.js`, `ContentViewer.vue` | openings that overtake each other, object URLs |
| PdfPages | `PdfViewer.vue` | loads and drawings begun again, documents released |
| Downloads, Transfers | `downloadManager.ts`, `downloadStorage.ts`, `downloads.ts` | runs with ranges and chunks, and what they promise |
| Attendance, Tenants, Catalog, Bots, GroupAdmin | the components of these names in `components/` | loads after changes, optimistic changes, confirmations, locks |

`Transfers` is the abstract specification of a download: wanted, stopped, wanted again,
delivered whole and once for each time it was wanted. `Downloads` implements it: the
mapping sends a task that is queued or runs to `wanted` and the files handed to the
browser to the deliveries, and `Delivers` states initial states and steps
(`DL!Promise!Init`, `[][DL!Promise!Next]`).

The counters of the code (request numbers, revisions, generations) are never numbers
here: a call carries whether the counter it captured has moved. That is exact, since the
code only compares for equality, and keeps the state finite without a bound.

Particular abstractions. ClientSession: the requests of one load are answered in three
steps (profile, batch, statistics). LearningEditor: one switch, text, verse and week
stand for all, and of today's page it keeps the group and the day (`hub`), since a switch
reads it again. StudyMemory: storage that is full and two tabs over one storage are left
out; several polls that wait for one worker are one. Tenants and Governance: lists that
are asked for and awaited together are one answer. TaskList: a click and its reload are
one step each. PdfPages: a page of a document that was destroyed is refused or never
comes. Reminders: the page asks for alerts even where push owns them, which is one more
source of doubles and not fewer.

## 3. Runs

| Run | Bounds | Shows |
| --- | --- | --- |
| `today_cache` | one group, one reader, one writer, the maintainer, two writes or faults, one midnight, two entries and two bytes with content of one or two | `FreshCache`, `ReadsAcknowledgedWrites`, `CacheAccounting`, `RefreshIsServed`: an overtaken load is not stored, a reader sees every write acknowledged before its request, list, bytes and limits agree, a queued refresh is served across midnight and failing queries |
| `binding_lease` | one chat, two groups, two administrators, two changes | nothing is sent under a binding that changed (`SendUnderCurrentBinding`), a late muted answer leaves newer bindings alone (`MutedUnbindsItsOwnBinding`), the queue follows the store (`PublishedIsStored`), every change returns (`AssignCompletes`) |
| `delivery_queue` | two check-ins committing in any order, two parts, two attempts, one administrator's request, one fault of any kind | `RefreshNotLost`, `SentWasDelivered`, `DuplicatesNeedFaults`, `CoverageGrows` |
| `delivery_settles` | three check-ins in ID order, a midnight, retries, no faults | `EventsSettle`, `SummariesDoNotRegress` |
| `delivery_resend` | one check-in, one kill | violation of `NoResend` (finding 1) |
| `delivery_regress` | two check-ins committing out of ID order | violation of `SummariesDoNotRegress` (finding 2) |
| `checkins` | two requests of any kind, two dates in two weeks, any of them there at the start, one verse, one change by an administrator | `OneCompletion`, `TasksKept` (up to an import), `TargetIsCurrent`, and despite lock waits and deadlocks `CompletionsAnnounced` |
| `learning_push` | two instances, one peer, a shared Apple device, any three requests, phases or faults, two attempts | `DailyOnce`, `OneSender`, `CopiesExplained`, `NoReplay`, `PushesEnd` |
| `push_muted` | the same with two events | violation of `PushesAreWanted` (finding 3) |
| `ministry` | one applicant with two rounds, another member, two overlapping requests, three changes by administrators | `RoundsRuledOnce`, `RoundsAnnounced`, `OnlyInsidersApply`, `NoLockCycle` |
| `client` | two accounts, two groups (the second in one account only), ministries and chats, two or three calls at once, two to six acts of people or mishaps of the network, in every part | `TypeOK`, `ShownInContext`, `NothingHangs`, `OnlyAskedChanges`, `PagesAgree`, `SavesCount`, `AlertsAreOwn` |
| `pages` | two groups, ministries, homes and accounts; three downloads of two resources in two scopes; three PDF documents of two pages; two calls, two to five acts, one mishap | `TypeOK`, `PageOfContext`, `OwnWorkStands`, `PagesSettle`, `ChangesStayInContext`, `Delivers` |

Bounds are counts of what the environment does: writes, requests, changes, faults,
days. They are large enough for each property to be broken by a small change of the
code: every property has a mutant in `PROJECT.json`, a definition changed as a
plausible bug would change it, under which the same run reports a violation; a property
that gathers several parts has a mutant for each of them that matters. Limits
of the code (5 or 3 attempts, 20 deliveries, entries and bytes) are constants set to
2 or 3, so that they are reached. Two concurrent requests, instances, calls or
administrators are the smallest number that race; a third adds no new conflict where
the code orders them through one lock, one unique key, one compare-and-set or one
request number. The bounds of each part of the page are the constants `MaxActs`,
`MaxMishaps` and `MaxCalls` of `Client` and `Pages`, functions on the names of the parts
with their values in `MCClient` and `MCPages`; acts and mishaps share one bound where a
part's states would be too many otherwise, a fault counting twice in `StudyMemory`. With
these values `client` has 1.3 million distinct states and `pages` 1.8 million. The bound
of two on the acts of the learning section is what five minutes allow beside the others;
alone it was also checked with three (9.7 million states), and so were the session with
four acts and the reminders with five.

Every module states its type invariant `TypeOK`. `client` and `pages` check those of all
their parts. On the server no run checks them, which leaves the time to the other
properties: they are proved for `TodayCache`, `BindingLease`, `LearningPush`,
`DeliveryQueue`, `Checkins` and the state of `Ministry`. The jobs of `ministry` are
interchangeable and symmetric; runs with liveness use no symmetry. Deadlock checking is
off where the bounds let the modelled part come to rest.

**Fairness.** `TodayCache`: the scheduler runs the maintenance goroutine, and Go's
`select` picks among ready channels at random, hence strong fairness of its two
branches. `BindingLease`: goroutines run, a send has a timeout, and `sync.Mutex`
hands over to waiters (strong fairness of acquiring it). `DeliveryQueue`: the worker
ticks every second and backoffs are bounded. `Checkins`: statements return and MySQL
detects deadlocks. `LearningPush`: the workers tick every five seconds and the minute
of `next_attempt_at` passes. No handler, fault or change of day is assumed to happen.

The parts of the page state no fairness. That somebody waits for ever is said there as
an invariant of quiet states: with no request under way and no function to continue,
nothing turns, no lock is held, no caller still waits and what was asked for is shown,
refused or told as failed (`NothingHangs`, `PagesSettle`). It needs no assumption that
the network answers.

## 4. Findings

1. **A restart can send again** (`delivery_resend`). `README.md:265` promises
   「重启不重发」. `process` saves the result of a send after the chat has it; a kill in
   between repeats the part. `DuplicatesNeedFaults` bounds it: one copy per fault.
2. **A retried summary can take a name away** (`delivery_regress`). `NeedsSend` and
   the snapshot's cutoff take record IDs for commit order. If a check-in with a lower
   ID commits later, while the message of the higher one is being retried, the frozen
   body is sent after the complete one. With commits in ID order the property holds
   (`delivery_settles`).
3. **A push can reach a member who has just muted** (`push_muted`).
   `CHANGE-CONSTRAINTS.md:68` says that muted and inactive members, and reminders
   already read, are not pushed. The batch is read once and sent item by item; the
   claim does not look at those conditions again.

### Seen in the page, and said by no test

What follows is what the models reach and no document of the repository promises
otherwise in so many words, unless a line is quoted. The properties excuse it by the
flag in parentheses, or do not speak of it.

* **Lost answers.** Where a change was stored and only its answer is lost, the page takes
  it for refused: `assign` shows the old binding again (`BotManagementAdmin.vue:130`), a robot
  that was registered or removed is not reloaded, nor are a group that was moved or a home
  that was made (`TenantManagement.vue:81`, `:145`), a mark keeps its old value and
  `toggleWeekday` the old days (`CountingAttendance.vue:100`, `:143`), and the switch of the
  reminders stays as it was (`learningReminders.js:66`). Only the deletion of several
  ministries loads again. What the page shows of it is wrong until something loads; the
  modules call it `unsure`, of the chat, setting or list it concerns, and their properties
  (`BindingsAreShown`, `CatalogIsCurrent`, `ListsOfHome`, `WeekdayIsSaved`, `SheetOfChoice`,
  `PreferenceShown`) speak of everything else.
* **Check-ins.** The Excel import of weeks deletes all tasks of the group, those that
  check-ins refer to as well (`learning/mysql_repository.go:512`), although the lookup counts on
  「A replaced task retains its historical resource binding」
  (`checkin/mysql_repository.go:107`), as `DeleteWeekTasksTx` sees to. Records of before an import
  name a task and a week that are gone, so the same book, video or outline can be completed
  a second time; `OneCompletion` compares by the tasks there are and does not count that,
  and `TasksKept` is up to an import (`imported`).
* **ClientSession.** Three answers put another account or group under the page without
  clearing what it shows: a renewal after another tab moved, `/auth/me`, and `setDefaultGroup`,
  which compares no context either; `loadAdminData` compares the group and no account.
  `CHANGE-CONSTRAINTS.md:92` wants asynchronous results to agree with the account and the group
  they were asked in. What stands there from before, and what was on its way then and compares
  generations that did not move, is `behind` until it is read again or cleared. `api` repeats a
  write with a renewed token that may be of another account or group, which another tab
  signed in (`misfiled`). A failed switch discards the answers of the loads that were
  running. A sign-out leaves members, check-ins, weeks, assets and the calendar in memory
  (`legacy-app.js:3026`). A sign-out that nobody awaits may end a newer sign-in.
* **LearningEditor.** `saveLearningConfig` compares no group: a save whose answer comes after a
  group switch replaces the new group's configuration (`legacy-app.js:2481`). A switch compares
  the revision of its click (`:2495`): texts that came in between click and answer, by a read
  or a save answered late, are given the switch's revision, although the comment at `:2511`
  says that 「A stale content draft must retain its old revision」 and
  `CHANGE-CONSTRAINTS.md:26` 「不提升旧内容草稿版本号以绕过并发保护」; in the same way a switch that fails
  restores its old value over a newer configuration (both `restamped`, until the next
  configuration is read). Today's page, read again after a switch, is kept if the group is the
  same (`:2517`, `:2530`): it may be of a day that was left, and the week of the
  bootstrap is always the one of today. `deleteVersePlan` is not
  restored when it fails. Texts typed into a week while it is saved are lost, entering
  the section throws its draft away, and after a group switch it stays empty until then.
* **MinistryPage.** A change that ends after another ministry was chosen chooses the old
  one again and cancels the load of the new one (`pulled`). Composers are not emptied by
  a group switch. **MinistryDrafts.** A draft typed for one ministry is posted in another
  one that is open by then; a retry after a lost answer posts twice; an uploaded file
  lands in whatever draft is open. What is typed while a share or a progress is being saved
  is thrown away when the answer comes (`MinistryGroups.vue:389`, `:618`; `during`).
* **Governance.** The graph is asked for with the type that is chosen above the graph or
  above the shared list, but the watch that asks again follows strength, depth and group
  only (`ResourceGovernance.vue:702`, `:784`): after a choice above the list the graph is of the type
  before (`asked`). The backdrop closes dialogs while they are being saved, which the Escape
  key is kept from; saving one category frees the lock of a running batch; a batch that
  ends closes a dialog of its kind that was opened meanwhile. **Feedback.** An answer pulls the
  list back to its item; text typed while a reply is sent is lost; a page that is left
  still marks as read (`behind`); muting before the settings are loaded overwrites them
  with defaults.
* **ContentReader.** Openings that were overtaken still tell their failure; the object URLs
  of windows that were opened beside the page are never revoked. **PdfPages.** A page that is refused
  for a document that was left shows its error over the document that is open (`blamed`):
  the `catch` of `renderDocument` compares no sequence.
* **Downloads.** A resumed download asks for a range without `If-Range`; a run that ends
  while `initialize` counts chunks writes a list that is not there yet (`erased`);
  a task that was being cancelled may come back, since `initialize` lists it again while
  its chunks are still being cleared, and run while that goes on (`revived`). Chunks that
  cannot be cleared and a list that cannot be stored are passed over in silence
  (`downloadManager.ts:180`, `:418`), so that chunks of a task that is gone may stay (`missed`).
* **Attendance, Tenants, Catalog, Bots, GroupAdmin.** Loads compare nothing in `Attendance`
  and `Bots`; drafts of the ministry that was left are put back by a refusal; a home
  whose creation is answered late becomes the managed one, and a deletion that was
  confirmed for another home deletes that one; names that are being typed are overwritten by a
  reload; the Enter key passes by `memberSaving` and by the catalogue's lock; an account
  found late is added to the group that is open by then.
* **Schedules.** `docs/legacy-group-compatibility.md:82` says 「读完最后一章后不再循环」, and
  so do `:27` and `:39`; the code begins again after the last chapter, as `dailySchedule.test.ts:256` expects.
  A start that is moved back before a version of the history lets that version hide the
  configuration.
* **TaskList, WeekLinks, VerseQuiz.** A book is completed by the pages of another book, a video
  without a resource by any video of the week. A resource with the title and the kind of
  another one is hidden by it. An attempt whose saving fails after the quiz was closed or
  its task changed is lost (`lost`), and text that was given up leaves its spinner
  (`stranded`).
* **PushEnrolment, Reminders.** An enrolment after a switch that fails leaves
  `pushSubscriptionReady` set (`missed`); the switch of a member's reminders saves in
  whatever group is open (`strayed`); a session that cannot be restored keeps its
  subscription. A newer banner is marked as read together with an older one that is
  dismissed on Android.
* **StudyMemory.** The worker of an account that signs out and in again lives on beside its
  successor, so that an older position can be stored after a newer one (`overtaken`,
  `revived`).

## 5. Proofs

Proved with TLAPS for every value of the constants that the named assumptions allow:

* **TodayCacheProofs**: `TypeCorrect`, `CacheIsFresh` (`Spec => []FreshCache`),
  `ReadYourWrites` (`Spec => []ReadsAcknowledgedWrites`) and `AccountsAreExact`
  (`Spec => []CacheAccounting`). `FreshCache` is not
  inductive: a load in flight could store old content. `FreshnessInv` adds, for every
  load, that what it has read is no older than its caller may expect and, as long as
  its captured epoch and generation are current, no older than the group's last
  invalidation. Invalidation raises the generation, which falsifies the second
  premise for the loads it overtakes; a store that passes the comparison therefore
  stores fresh content. The eviction of entries only removes keys. The accounts rest on
  what `Total` and `Without` compute on every list: the library's induction takes an
  operator, so a lemma states induction up to a number for a set (`UpTo`, from the
  least-number principle), and the sums of two parts, of a list without some keys and
  under another sizing follow from it. `AccountingInv` says that the list has the keys of
  the entries, each once, and that the bytes are their sum; an eviction takes the shortest
  prefix after which both limits hold (`EvictionFits`).
* **BindingLeaseProofs**: `TypeCorrect`, `BindingInvariant`,
  `SendsUnderCurrentBinding`, `LateFailureKeepsNewBinding`, `QueueFollowsStore`.
  `BindingInv` says who holds the mutex (`MutexInv`), that the queue's view lags
  behind the store only between two steps of the holder (`LagInv`), that leases cover
  exactly what is about to be published and exclude the reader (`LeaseInv`), and that
  an unchanged version means an unchanged binding, which the lease pins during a send
  and the mutex during the unbinding (`VersionInv`).
* **LearningPushProofs**: `TypeCorrect`, `DailyOnceCorrect`, `NoReplayCorrect`,
  `OneSenderCorrect`, `CopiesExplainedCorrect`. `DailyInv` adds to `DailyOnce` that an
  open transaction of a slot holds a row that is not committed, and holds it alone.
  `ReplayInv` follows the keys of batches and deliveries back to reminders
  (`KeysInv`) and says that every reminder the current binding is old enough for met
  the device bound to the member (`PresentInv`), which is why `created_at` must be
  renewed when the row moves between accounts. `OnceInv` says that a delivery being
  sent is neither due nor finished (`SenderInv`), that a reminder has deliveries to
  one row of the device only, because a new row is younger (`RowInv`), and that a copy
  that no lost answer explains is saved or about to be (`CountInv`): a worker about to
  send therefore finds no such copy.
* **MinistryProofs**: `RoundsRuledOnceCorrect`, `RoundsAnnouncedCorrect`,
  `OnlyInsidersApplyCorrect`, `LeaderIsMemberCorrect`, `AdminsPromotedCorrect`, `NoLockCycleCorrect`.
  `MinistryInv` says that no two transactions hold the same row (`Exclusion`), that
  the applicant whose row an application or approval holds is inside
  (`ApplicantInv`: a removal needs that row, so he stays inside until the commit),
  that no ruling is on a round that is still pending (`RulingInv`, which makes the
  next one the first), and that only members have the admin role (`RoleInv`, because
  leaving resets it). `NoLockCycle` needs the types only: group, member and request
  rows have ranks, every transaction locks in rising rank, and a circle of waits
  would need more than the three ranks there are. `AnnouncedInv`, relative to
  `MinistryInv`, says that the notices of decisions are those of the rulings, by their keys,
  and that of a request that waits the administrators were told: as a round is ruled on
  once, it is announced once.
* **DeliveryQueueProofs**: `QueueStaysSound` (types), `RefreshIsNotLost`
  (`RefreshNotLost`), `SentMeansDelivered` (`SentWasDelivered`), `DuplicatesAreFaults`
  (`DuplicatesNeedFaults`), `CoverageOnlyGrows` (the action property `CoverageGrows`).
  `QueueInv` relates a job's file and the worker's copy of it to what the chat has: which
  parts were delivered, how many attempts are left, and that a spare copy goes back to a
  fault, so that a job that counts as sent was delivered. `RefreshInv` says where a summary
  that is owed is kept: the initial job is in its file, and both the file and the worker's
  copy have read the configuration that asked for it or are going to read one (`Kept`);
  between the two steps of a wake-up that holds of the configuration saved last, or there
  is no initial job at all. Coverage is compared by the greatest
  record, which exists as records are finite.
* **CheckinsProofs**: `CheckinsTypes`, `CompletedOnce` (`OneCompletion`), `TasksStay`
  (`TasksKept`), `TargetsAreCurrent` (the action property `TargetIsCurrent`).
  `CheckinsInv` says which statement comes next for which kind of check-in (`RequestInv`),
  that the part of a row's key follows from the rest of it (`RowInv`), who holds the
  member's row and the weeks (`LockInv`), and that what a request found before it inserts
  is still so (`InsertInv`): its target is valid and no check-in that counts completes the
  same, because whoever could change that waits for one of the locks it holds. For the
  daily kinds, which take no lock, the unique key does it. `TasksStay` lets an import, and
  nothing else, drop the task of a record, and only of a record older than it. A lookup takes the first record that fits, which the
  least-number principle gives.
* **PagesProofs**, about the sum `Pages`, for any groups, ministries, homes, accounts,
  documents, downloads, and any number of acts, mishaps and calls:
  `PagesShowTheirContext` (`Spec => []PageOfContext`; of an attendance sheet it includes that the
  marks are the server's, unless the answer to a mark was lost), `ChangesReachTheirOwn`
  (`Spec => []ChangesStayInContext`), `PagesDeliver` (`Spec => Delivers`, the refinement of
  `Transfers`), and `OwnWorkOfParts`, the conjuncts of `OwnWorkStands` and `PagesSettle` that
  the same invariants give. A step changes the slots of the part that `page` names, so
  `PagesInv` is one inductive invariant per part:
  * `MinistryInv`, `GovernanceInv`: a request whose context still counts is for the group
    that is open and none of the others is still on its way; the server answers a detail
    from its own group only.
  * `DraftsInv`: one upload runs at a time, a post with another ministry's file is refused, and
    texts are numbered by when they were typed, so that a text in a form when its save ends
    is the one that was sent, or younger (`during`): what leaves the form unsaved was
    typed under the save.
  * `FeedbackInv`: a chain of requests whose list, item or question is still the last one
    says so, its item is the open one, and the reply it is about to mark as read was on the
    screen.
  * `ReaderInv`: an answer that is still awaited is of what was opened last.
  * `PdfInv`: the load begun last is the one that counts, no page is shown while an earlier
    document is being destroyed, and what is drawn is drawn by the one drawing that counts,
    at the scale that is shown. Loads and drawings are sequences, and a drawing that ends
    moves those after it.
  * `AttendanceInv`: as long as nothing has overlapped there is one call at a time, a mark
    is made on the sheet of what is chosen, and the sheet is the server's but for that mark,
    or for one whose answer was lost.
  * `GroupsInv`: one load counts and is of the open group; what it brings, or is going to
    bring, are the members the server has, unless a change was answered and is not yet read
    again. It is the longest: orders, loads and locks hold each other up.
  * `DownloadsInv` is `TypeOK` and `RunsApart`: one run of a task at a time, none of a task
    being cancelled unless it came back, chunks a prefix of the file. Saving the file of a
    task that did not come back is `Deliver`, which `RunsApart` shows to be whole; what
    lengthens the list of what is queued or runs is `Want`, what shortens it is `Stop`, and
    no other step is seen. What is saved of a task that came back while it was being
    cancelled is not counted. `DownloadsStaySound` and `DownloadsDeliver` say this of the
    manager alone.
  * `FormOfHome` of the homes is inductive as it stands.
* **StudyMemoryProofs**: `MemoryTypes`, `MemoryIsOfAccount` (`MemoryOfAccount`),
  `NothingStaysUnsent` (`NothingUnsent`), `MemorySettles` (`SyncSettles`), for any accounts
  and items, provided that the guest is no account. `MemoryInv` says of every request what
  its answer may still do: a worker's value is one that was saved here and, once answered,
  stored (`PutFits`); a poll that still counts found nothing older than what was saved here
  and no longer waits (`GetFits`), which is why both a save and a value that ceases to wait
  must raise the revision; there is one worker (`CallsFit`). `SettleInv` names the request
  or message that will end whatever turns. They are the conjuncts of `Client`'s properties
  that are about the memory.

The assumptions are the `ConstantsAssumption` of each module (limits are positive,
process names differ, bounds are natural numbers); TLC evaluates them in every run.

`LeaderIsMember` and `AdminsPromoted` are proved and in no run.

The parts of the page have no assumptions of their own, being instantiated only. Those of
`Pages` say that `None` is no group, ministry, home, account or document and none of the
questions a dialog asks, which group a ministry is of, and that there is a group; of the
memory alone, `None \notin Users` is a hypothesis of the theorems.

Only model-checked: liveness (`RefreshIsServed`, `AssignCompletes`, `EventsSettle`,
`CompletionsAnnounced`, `PushesEnd`), which the prover cannot do under fairness;
`SummariesDoNotRegress`, which holds only where commits are in the order of IDs; Ministry's
`TypeOK` beyond the part its proofs need (`StateType`); of `Pages`, `TypeOK`, `PagesSettle` and
`OwnWorkStands` beyond the conjuncts in `OwnWorkOfParts`; and the properties of `Client`,
of which the conjuncts about the memory are proved. `BacklogStays` and `RequestsEnd` are stated
in their modules for larger instances and are in no run.

## 6. Plan

Proofs first, then the rest of the server.

1. `VersePlans`: `OneVerseADay` and `KeepsOtherDays`, from the plans being apart, which `Cut`
   keeps; `Reminders` and `PushEnrolment`: that alerts are of the member who is
   signed in, the next of the properties of `Client`.
2. An abstract at-least-once delivery (accepted, delivered, given up) that `DeliveryQueue`
   implements, by `SentWasDelivered` and `DuplicatesNeedFaults`.
3. Server: shares with review rounds and pins; assets against the weeks, plans and
   imports that use them; sessions, revocation and requests in flight; concurrent saves of
   the learning configuration; the fleet of robots; backup and restore. Most of these decide
   something by a read that another transaction may overtake, as `Ministry` does.

## 7. Not modelled

Of the server: the parts listed under 3 above; statistics, the files that are exported and the audit log
(queries and appended rows); the import of a backup; recitation grading (a comparison of strings); the PDF range
cache (the today cache's LRU under one mutex); the offline migration tools; HTTP wiring.
Weekly periods in the queue, quarantine of unreadable files, the bootstrap of the
last-sent state when upgrading and the checks of an endpoint's form are left out of
modules that otherwise model their component.

Of the page: templates, layout, focus and gestures; courses and media players, apart from
what they save and open; parsing and formatting of texts, titles and verses beyond the page
ranges; forms of one request at a time (personal settings, personal books); diagnostics
and installation; generated players under `public/ovcm-player`. Their state is a view
of what is modelled, or waits for nothing.

`PROJECT.json` lists every component with its status and the reason.
