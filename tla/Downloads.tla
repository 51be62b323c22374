------------------------------ MODULE Downloads ------------------------------
(***************************************************************************)
(* The download manager: stores/downloadManager.ts with the chunks of      *)
(* runtime/downloadStorage.ts, DownloadCenter.vue and the ranges of        *)
(* runtime/downloads.ts.  A run fetches one file, keeps each piece in      *)
(* IndexedDB and hands the whole to the browser; it looks after every      *)
(* await whether it is still the run of a task that is being downloaded.   *)
(*                                                                         *)
(* A file is Size pieces; a piece is what is flushed at once, so parts     *)
(* that were read and not flushed are the piece a stopped run loses.  The  *)
(* order of the queue, its history list, sizes and names are left out.     *)
(***************************************************************************)
EXTENDS Naturals, Sequences, FiniteSets

CONSTANTS
    Ids, Resources, ResourceOf,   \* ResourceOf[id]: what task id downloads
    Scopes, None,                 \* a scope is an account in a group
    concurrentDownloads, persistedTaskLimit,
    Size,
    MaxActs,                      \* things the member does, and before them faults
    MaxFaults

VARIABLES
    scope, initialized,
    tasks,        \* the status of each task, "none" for what is not in the list
    stored,       \* localStorage: the tasks of each scope
    chunks,       \* IndexedDB: the pieces of each task, in the order of their indices
    starting,     \* calls of initialize that count chunks
    cancelling,   \* calls of cancel that wait for the run or clear the chunks
    running,      \* runTask: the entries of controllers and completions
    files,        \* what was last saved for each task
    used,         \* tasks that were made
    erased,       \* a list was written before it was there
    revived,      \* tasks that were restored while their cancelling went on
    missed,       \* chunks or an old list stayed where their task is gone
    full,         \* the browser's storage may refuse what is written
    acts, faults

memory == <<scope, initialized, tasks>>
disk   == <<stored, chunks>>
calls  == <<starting, cancelling, running>>
ghost  == <<files, used, erased, revived, missed, full>>
bounds == <<acts, faults>>
vars   == <<memory, disk, calls, ghost, bounds>>

Statuses == {"queued", "downloading", "paused", "failed"}
NoTasks  == [id \in Ids |-> "none"]
Listed(T)       == {id \in Ids : T[id] # "none"}
Downloading(T)  == {id \in Ids : T[id] = "downloading"}
Paused(S)       == [id \in Ids |-> IF id \in S THEN "paused" ELSE "none"]
Controllers(S)  == {r.id : r \in S}
Without(T, S)   == [id \in Ids |-> IF id \in S THEN "none" ELSE T[id]]
Aborted(S, I)   == {IF r.id \in I THEN [r EXCEPT !.aborted = TRUE] ELSE r : r \in S}
OtherRuns(r)    == running \ {r}

\* runTask, at its first await.  attempt is the second fetch; offset and index are where
\* the next piece is in the file and among the chunks.  Calls are told apart by the member's
\* act they go back to.
Run(id) == [id |-> id, scope |-> scope, since |-> acts, aborted |-> FALSE, stage |-> "size",
            attempt |-> 0, offset |-> 0, index |-> 0]

Init ==
    /\ scope = None /\ initialized = FALSE /\ tasks = NoTasks
    /\ stored = [s \in Scopes |-> {}] /\ chunks = [id \in Ids |-> <<>>]
    /\ starting = {} /\ cancelling = {} /\ running = {}
    /\ files = [id \in Ids |-> <<>>] /\ used = {} /\ erased = FALSE /\ revived = {}
    /\ missed = FALSE /\ full = FALSE
    /\ acts = 0 /\ faults = 0

-----------------------------------------------------------------------------
\* persist; a list that cannot be stored is dropped without a word.
Persist(T) ==
    \/ stored' = IF scope = None THEN stored ELSE [stored EXCEPT ![scope] = Listed(T)]
    \/ full /\ UNCHANGED stored

\* It is called while initialize still counts the chunks, and the list is not there yet.
Erases == scope # None /\ ~initialized /\ stored[scope] # {}

\* Mistake: a task is started again while its last run is still ending.
Startable_Any(T, S) == {id \in Ids : T[id] = "queued"}

Startable(T, S) == {id \in Ids : T[id] = "queued"} \ Controllers(S)

\* persist and pump, with tasks T and runs S.
Pump(T, S) ==
    LET lanes == concurrentDownloads - Cardinality(Downloading(T)) IN
    /\ Persist(T) /\ erased' = (erased \/ Erases)
    /\ IF ~initialized \/ Cardinality(Downloading(T)) >= concurrentDownloads
       THEN tasks' = T /\ running' = S
       ELSE \E K \in SUBSET Startable(T, S) :
               /\ Cardinality(K) = lanes \/ (K = Startable(T, S) /\ Cardinality(K) < lanes)
               /\ tasks' = [id \in Ids |-> IF id \in K THEN "downloading" ELSE T[id]]
               /\ running' = S \cup {Run(id) : id \in K \ Controllers(S)}

-----------------------------------------------------------------------------
(* The member.                                                              *)
Act == acts + faults < MaxActs /\ acts' = acts + 1 /\ UNCHANGED <<faults, missed, full, files>>

\* closeSession
Leave ==
    /\ Act /\ scope # None
    /\ scope' = None /\ initialized' = FALSE /\ tasks' = NoTasks
    /\ running' = Aborted(running, Ids)
    /\ UNCHANGED <<disk, starting, cancelling, used, erased, revived>>

\* initialize; the account object is replaced by every load, so the scope may be the same.
Initialize(s) ==
    LET saved == IF scope = s THEN Listed(tasks) ELSE stored[s] IN
    /\ Act /\ ~(initialized /\ scope = s)
    /\ scope' = s /\ tasks' = NoTasks /\ running' = Aborted(running, Ids)
    /\ Persist(tasks)
    /\ erased' = (erased \/ (scope # None /\ ~(stored[scope] \subseteq Listed(tasks) \cup {c.id : c \in cancelling})))
    /\ IF saved = {} THEN initialized' = TRUE /\ UNCHANGED starting
       ELSE initialized' = FALSE /\ starting' = starting \cup {[scope |-> s, since |-> acts, saved |-> saved]}
    /\ UNCHANGED <<chunks, cancelling, used, revived>>

Initialized(i) ==
    /\ starting' = starting \ {i}
    /\ IF scope = i.scope
       THEN /\ tasks' = Paused(i.saved) /\ initialized' = TRUE
            /\ Persist(Paused(i.saved))
            /\ erased' = (erased \/ Listed(tasks) \ i.saved # {})
            /\ revived' = revived \cup (i.saved \cap {c.id : c \in cancelling})
       ELSE UNCHANGED <<tasks, initialized, stored, erased, revived>>
    /\ UNCHANGED <<scope, chunks, cancelling, running, files, used, missed, full, bounds>>

\* enqueue: a resource that is in the list is asked for again, another gets a task.
Enqueue(R) ==
    LET old == {id \in Listed(tasks) : ResourceOf[id] \in R}
        missing == R \ {ResourceOf[id] : id \in old} IN
    /\ Act /\ initialized
    /\ Cardinality(Listed(tasks)) + Cardinality(missing) <= persistedTaskLimit
    /\ \E fresh \in SUBSET (Ids \ used) :
          /\ {ResourceOf[id] : id \in fresh} = missing /\ Cardinality(fresh) = Cardinality(missing)
          /\ used' = used \cup fresh
          /\ Pump([id \in Ids |-> IF id \in fresh \/ (id \in old /\ tasks[id] \in {"paused", "failed"})
                                  THEN "queued" ELSE tasks[id]], running)
    /\ UNCHANGED <<scope, initialized, chunks, starting, cancelling, revived>>

Pause(id) ==
    /\ Act /\ tasks[id] \in {"queued", "downloading"}
    /\ Pump([tasks EXCEPT ![id] = "paused"], Aborted(running, {id}))
    /\ UNCHANGED <<scope, initialized, chunks, starting, cancelling, used, revived>>

\* resume and retry
Resume(id) ==
    /\ Act /\ tasks[id] \in {"paused", "failed"}
    /\ Pump([tasks EXCEPT ![id] = "queued"], running)
    /\ UNCHANGED <<scope, initialized, chunks, starting, cancelling, used, revived>>

Cancels(S) ==
    /\ Act /\ S # {} /\ S \subseteq Listed(tasks)
    /\ tasks' = Without(tasks, S) /\ running' = Aborted(running, S)
    /\ cancelling' = cancelling \cup {[id |-> id, scope |-> scope, since |-> acts] : id \in S}
    /\ UNCHANGED <<scope, initialized, disk, starting, used, erased, revived>>

Cancel(id) == Cancels({id})
ClearQueue == Cancels(Listed(tasks) \ Downloading(tasks))

\* clearChunks where its failing is caught.
Clears(id) ==
    \/ chunks' = [chunks EXCEPT ![id] = <<>>] /\ UNCHANGED <<missed, faults>>
    \/ faults < MaxFaults /\ faults' = faults + 1 /\ missed' = TRUE /\ UNCHANGED chunks

\* Mistake: the chunks are cleared while the run may still be writing one.
RunEnded_Not(c) == TRUE

\* completions.get(taskID) was awaited: the run there was, not one that came later.
RunEnded(c) == \A r \in running : r.id = c.id => r.since > c.since

\* The chunks may fail to go, which is caught and not told; the task is gone all the same.
Cancelled(c) ==
    /\ RunEnded(c) /\ cancelling' = cancelling \ {c}
    /\ Clears(c.id)
    /\ IF scope = c.scope THEN Pump(tasks, running) ELSE UNCHANGED <<tasks, stored, running, erased>>
    /\ UNCHANGED <<scope, initialized, starting, files, used, revived, full, acts>>

\* The page is reloaded, and a piece that was being written may have been or not.
Written(r) == [chunks EXCEPT ![r.id] =
                  IF r.index <= Len(@) THEN [@ EXCEPT ![r.index] = r.offset + 1] ELSE Append(@, r.offset + 1)]

Reload ==
    /\ acts + faults < MaxActs /\ acts' = acts + 1 /\ scope # None
    /\ missed' = (missed \/ cancelling # {} \/ \E r \in running : r.stage = "cleared")
    /\ scope' = None /\ initialized' = FALSE /\ tasks' = NoTasks
    /\ starting' = {} /\ cancelling' = {} /\ running' = {}
    /\ \/ UNCHANGED chunks
       \/ \E r \in running : r.stage = "put" /\ chunks' = Written(r)
    /\ UNCHANGED <<stored, files, used, erased, revived, full, faults>>

-----------------------------------------------------------------------------
(* A run.                                                                   *)

\* Mistake: only the list of tasks is looked at.
isCurrent_Listed(r) == r.scope = scope /\ tasks[r.id] # "none"

isCurrent(r) == r.scope = scope /\ ~r.aborted /\ tasks[r.id] = "downloading"

Rest == UNCHANGED <<scope, initialized, starting, cancelling, used, revived, full, acts>>
At(r, stage) == running' = OtherRuns(r) \cup {[r EXCEPT !.stage = stage]}
Same == UNCHANGED <<tasks, stored>>

\* Mistake: what waits is not started when a run ends.
Continue_Not(T, S) == Persist(T) /\ erased' = (erased \/ Erases) /\ tasks' = T /\ running' = S

Continue(T, S) == Pump(T, S)

\* The finally clause, after the reader was cancelled.
Finish(r, T) ==
    IF scope = r.scope
    THEN Continue(T, OtherRuns(r))
    ELSE running' = OtherRuns(r) /\ tasks' = T /\ UNCHANGED <<stored, erased>>

HasReader(r) == r.stage \in {"open", "read", "put", "final", "cleared"}
Stops(r, T) ==
    IF HasReader(r) THEN At(r, "end") /\ tasks' = T /\ UNCHANGED <<stored, erased>> ELSE Finish(r, T)

\* A run that is not current stops at its next await; what it had asked of the storage is done.
Superseded(r) ==
    /\ ~isCurrent(r) /\ r.stage \notin {"put", "cleared", "end"}
    /\ Stops(r, tasks)
    /\ chunks' = IF r.stage \in {"clear", "clearRead"} THEN [chunks EXCEPT ![r.id] = <<>>] ELSE chunks
    /\ Rest /\ UNCHANGED <<files, missed, faults>>

\* A network, quota or storage error, an answer that is no file, a file that is too large.
Fails(r, wipe) ==
    /\ isCurrent(r) /\ r.stage \notin {"cleared", "end"} /\ faults < MaxFaults /\ faults' = faults + 1
    /\ chunks' = IF wipe THEN [chunks EXCEPT ![r.id] = <<>>] ELSE chunks
    /\ wipe => r.stage = "read"
    /\ Stops(r, [tasks EXCEPT ![r.id] = "failed"])
    /\ Rest /\ UNCHANGED <<files, missed>>

Counted(r) ==
    /\ r.stage = "size" /\ isCurrent(r)
    /\ running' = OtherRuns(r) \cup {[r EXCEPT !.stage = "fetch", !.offset = Len(chunks[r.id])]}
    /\ Same /\ Rest /\ UNCHANGED <<chunks, files, erased, missed, faults>>

Fetched(r) == r.stage = "fetch" /\ isCurrent(r) /\ Same /\ Rest /\ UNCHANGED <<chunks, files, erased, missed>>

\* 206 from where the chunks end, or 200 with nothing kept.
Answers(r) ==
    /\ Fetched(r) /\ r.offset < Size
    /\ At(r, "open") /\ UNCHANGED faults

\* Mistake: what was kept stays when the whole file comes.
AnswersWhole_Keeps(r) ==
    /\ Fetched(r) /\ r.offset > 0
    /\ running' = OtherRuns(r) \cup {[r EXCEPT !.stage = "open", !.offset = 0]} /\ UNCHANGED faults

\* 200 with pieces kept: the server sends the file from its start.
AnswersWhole(r) ==
    Fetched(r) /\ r.offset > 0 /\ At(r, "clearRead") /\ UNCHANGED faults

\* 416, which a run that has every piece gets, and a range that is another one.
AnswersOtherwise(r) ==
    /\ Fetched(r) /\ r.offset > 0
    /\ r.attempt = 0 \/ r.offset < Size
    /\ IF r.offset = Size THEN UNCHANGED faults ELSE faults < MaxFaults /\ faults' = faults + 1
    /\ At(r, "clear")

\* 401 renews the session and tries again.
Unauthorized(r) ==
    /\ Fetched(r) /\ r.attempt = 0 /\ faults < MaxFaults /\ faults' = faults + 1
    /\ running' = OtherRuns(r) \cup {[r EXCEPT !.attempt = 1]}

\* The second answer that cannot be used ends the run.
Restarts(r) ==
    /\ r.stage \in {"clear", "clearRead"} /\ isCurrent(r)
    /\ chunks' = [chunks EXCEPT ![r.id] = <<>>]
    /\ IF r.stage = "clear" /\ r.attempt = 1 THEN Stops(r, [tasks EXCEPT ![r.id] = "failed"])
       ELSE /\ running' = OtherRuns(r) \cup
                 {[r EXCEPT !.stage = IF @ = "clear" THEN "fetch" ELSE "open", !.attempt = 1, !.offset = 0]}
            /\ Same /\ UNCHANGED erased
    /\ Rest /\ UNCHANGED <<files, missed, faults>>

\* persist and listChunks: the next piece goes after those that are there.
Opens(r) ==
    /\ r.stage = "open" /\ isCurrent(r)
    /\ running' = OtherRuns(r) \cup {[r EXCEPT !.stage = "read", !.index = Len(chunks[r.id]) + 1]}
    /\ Persist(tasks) /\ UNCHANGED tasks /\ Rest /\ UNCHANGED <<chunks, files, erased, missed, faults>>

Reads(r) ==
    /\ r.stage = "read" /\ isCurrent(r)
    /\ At(r, IF r.offset < Size THEN "put" ELSE "final")
    /\ Same /\ Rest /\ UNCHANGED <<chunks, files, erased, missed, faults>>

\* putChunk ends whether the run is current or not.
Puts(r) ==
    /\ r.stage = "put" /\ chunks' = Written(r)
    /\ running' = OtherRuns(r) \cup
         {[r EXCEPT !.stage = "read", !.offset = @ + 1, !.index = @ + 1]}
    /\ IF isCurrent(r) THEN Persist(tasks) ELSE UNCHANGED stored
    /\ UNCHANGED tasks /\ Rest /\ UNCHANGED <<files, erased, missed, faults>>

\* saveBlob; the task leaves the list.  A task that was brought back while it was being
\* cancelled may have lost its first pieces under way, and what it saves is left open.
Saves(r) ==
    /\ r.stage = "final" /\ isCurrent(r)
    /\ files' = [files EXCEPT ![r.id] = IF r.id \in revived THEN @ ELSE chunks[r.id]]
    /\ tasks' = [tasks EXCEPT ![r.id] = "none"]
    /\ At(r, "cleared") /\ Rest /\ UNCHANGED <<stored, chunks, erased, missed, faults>>

\* The chunks of a saved file may fail to go.
Tidies(r) ==
    /\ r.stage = "cleared" /\ At(r, "end")
    /\ Clears(r.id)
    /\ Same /\ Rest /\ UNCHANGED <<files, erased>>

Ends(r) ==
    /\ r.stage = "end" /\ Finish(r, tasks)
    /\ Rest /\ UNCHANGED <<chunks, files, missed, faults>>

-----------------------------------------------------------------------------
\* The storage of the browser is used up, or may be used no longer.
Fills ==
    /\ ~full /\ full' = TRUE /\ missed' = TRUE /\ faults < MaxFaults /\ faults' = faults + 1
    /\ UNCHANGED <<memory, disk, calls, files, used, erased, revived, acts>>

Member ==
    \/ Leave \/ ClearQueue \/ Reload
    \/ \E s \in Scopes : Initialize(s)
    \/ \E R \in SUBSET Resources \ {{}} : Enqueue(R)
    \/ \E id \in Ids : Pause(id) \/ Resume(id) \/ Cancel(id)

Step(r) ==
    \/ Superseded(r) \/ Counted(r) \/ Answers(r) \/ AnswersWhole(r) \/ AnswersOtherwise(r)
    \/ Unauthorized(r) \/ Restarts(r) \/ Opens(r) \/ Reads(r) \/ Puts(r) \/ Saves(r) \/ Tidies(r)
    \/ Ends(r) \/ \E wipe \in BOOLEAN : Fails(r, wipe)

Next ==
    \/ Member \/ Fills
    \/ \E i \in starting : Initialized(i)
    \/ \E c \in cancelling : Cancelled(c)
    \/ \E r \in running : Step(r)

Spec == Init /\ [][Next]_vars

-----------------------------------------------------------------------------
\* Types: a list is kept for each scope, chunks and files are pieces of a resource.
Stages == {"size", "fetch", "clear", "clearRead", "open", "read", "put", "final", "cleared", "end"}
RunType == [id : Ids, scope : Scopes, since : Nat, aborted : BOOLEAN, stage : Stages,
            attempt : {0, 1}, offset : 0..Size, index : Nat]

TypeOK ==
    /\ scope \in Scopes \cup {None} /\ initialized \in BOOLEAN /\ (initialized => scope \in Scopes)
    /\ tasks \in [Ids -> Statuses \cup {"none"}] /\ stored \in [Scopes -> SUBSET Ids]
    /\ chunks \in [Ids -> Seq(1..Size)] /\ files \in [Ids -> Seq(1..Size)]
    /\ running \subseteq RunType /\ used \subseteq Ids /\ acts \in Nat
    /\ \A i \in starting : i.scope \in Scopes /\ i.saved \subseteq Ids
    /\ \A c \in cancelling : c.id \in Ids /\ c.since \in Nat

\* A task has one run at a time, also after it was paused and resumed while a run ended.
OneRun ==
    /\ \A r, q \in running : r.id = q.id => r = q
    /\ \A r \in running : r.since <= acts

\* Every task that a list or a call names was made, so a new one is never one of them.
NamesAreUsed ==
    /\ Listed(tasks) \subseteq used
    /\ \A s \in Scopes : stored[s] \subseteq used
    /\ \A i \in starting : i.saved \subseteq used
    /\ \A c \in cancelling : c.id \in used

\* A cancelled task stays out of the list, and gets no run, until its chunks are cleared.
CancelledIsOut ==
    \A c \in cancelling : c.id \notin revived =>
        tasks[c.id] = "none" /\ \A r \in running : r.id # c.id \/ r.since <= c.since

\* The pieces that are kept of a task are its first ones, in order, and its run writes the
\* next one; of a revived task only that they are no more than the run has got.
InOrder(p) == \A i \in 1..Len(p) : p[i] = i

GoesOn(r, p, back) ==
    /\ r.stage \in {"fetch", "open", "read", "put", "final"} =>
          Len(p) <= r.offset /\ (back \/ r.offset = Len(p))
    /\ r.stage \in {"read", "put", "final"} => r.index > 0 /\ (back \/ r.index = r.offset + 1)
    /\ r.stage = "put" => r.offset < Size
    /\ r.stage = "final" => r.offset = Size

PiecesInOrder ==
    /\ \A id \in Ids : Len(chunks[id]) <= Size /\ (id \in revived \/ InOrder(chunks[id]))
    /\ \A r \in running : GoesOn(r, chunks[r.id], r.id \in revived)

RunsApart == OneRun /\ NamesAreUsed /\ CancelledIsOut /\ PiecesInOrder

\* The manager implements its promise: nothing is saved after it was paused or cancelled or
\* its scope was left, and what is saved is every piece once and in order, however often
\* the run was interrupted and whatever the server answered.
Promise == INSTANCE Transfers
              WITH wanted <- {id \in Ids : tasks[id] \in {"queued", "downloading"}}
Delivers == Promise!Spec

\* A lane is used by a run that goes on, and nothing waits while a lane is free, unless a
\* run of its own, or a cancelled one, is still ending.
QueueMoves ==
    /\ Cardinality(Downloading(tasks)) <= concurrentDownloads
    /\ \A id \in Downloading(tasks) : \E r \in running : r.id = id /\ isCurrent(r)
    /\ \A id \in Ids : tasks[id] = "queued" /\ cancelling = {} =>
          id \in Controllers(running) \/ Cardinality(Downloading(tasks)) = concurrentDownloads
            \/ \E r \in running : r.stage \in {"cleared", "end"}

\* No pieces stay behind for a task that no list has, once nothing is under way.
NothingLeftBehind ==
    running = {} /\ cancelling = {} /\ starting = {} /\ ~missed /\ ~erased =>
        \A id \in Ids : chunks[id] # <<>> => id \in Listed(tasks) \cup UNION {stored[s] : s \in Scopes}
=============================================================================
