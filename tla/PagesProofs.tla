------------------------------ MODULE PagesProofs ------------------------------
(***************************************************************************)
(* Proofs about the parts that Pages puts side by side, for any groups,    *)
(* ministries, homes, accounts, documents, tasks, scopes and size of a     *)
(* file, and any number of acts and faults.  A section is about one part:  *)
(* names for its slots, its inductive invariant, lemmas for its steps.     *)
(* The last one puts them together: what is shown is of what is chosen,    *)
(* changes stay in their context, and downloads implement Transfers.       *)
(***************************************************************************)
EXTENDS Pages, TLAPS

-----------------------------------------------------------------------------
(* Sequences: the four facts that are needed of them, stated here because   *)
(* the modules of theorems would lengthen every obligation below.           *)

LEMMA NoSequence == \A S : <<>> \in Seq(S) /\ Len(<<>>) = 0
OBVIOUS

LEMMA LengthOfSequence ==
    ASSUME NEW S, NEW s \in Seq(S)
    PROVE  Len(s) \in Nat /\ s = [i \in 1..Len(s) |-> s[i]] /\ \A i \in 1..Len(s) : s[i] \in S
OBVIOUS

LEMMA ChangedSequence ==
    ASSUME NEW S, NEW s \in Seq(S), NEW k \in 1..Len(s), NEW e \in S
    PROVE  /\ [s EXCEPT ![k] = e] \in Seq(S) /\ Len([s EXCEPT ![k] = e]) = Len(s)
           /\ \A j \in 1..Len(s) : [s EXCEPT ![k] = e][j] = IF j = k THEN e ELSE s[j]
OBVIOUS

LEMMA Concatenation ==
    ASSUME NEW S, NEW s \in Seq(S), NEW t \in Seq(S)
    PROVE  /\ s \o t \in Seq(S) /\ Len(s \o t) = Len(s) + Len(t)
           /\ \A i \in 1..Len(s) + Len(t) : (s \o t)[i] = IF i <= Len(s) THEN s[i] ELSE t[i - Len(s)]
OBVIOUS

-----------------------------------------------------------------------------
(* The download manager, by the names of its module: it implements          *)
(* Transfers.  DownloadsInv is inductive: a task has one run at a time, a   *)
(* cancelled task gets none until its chunks are cleared, and so what is    *)
(* kept of a task is the beginning of its file, which its run goes on from. *)

scope       == s1
initialized == s2
tasks       == s3
stored      == s4
chunks      == s5
starting    == s6
cancelling  == s7
running     == s8
files       == s9
used        == s10
revived     == s12
acts        == s15
USE DEF scope, initialized, tasks, stored, chunks, starting, cancelling, running, files, used, revived,
        acts

DownloadsInv == DL!TypeOK /\ DL!RunsApart

-----------------------------------------------------------------------------
(* The pieces of a task                                                     *)

Kept(p, back) == p \in Seq(1..Size) /\ Len(p) <= Size /\ (back \/ DL!InOrder(p))

\* No chunk kept is the beginning of every file.
LEMMA NothingKept == \A back : Kept(<<>>, back) <=> 0 <= Size
BY NoSequence DEF Kept, DL!InOrder

\* A piece that is written where the run goes on keeps the pieces in order.
LEMMA PieceWritten ==
    ASSUME Size \in Nat, NEW p, NEW back \in BOOLEAN, Kept(p, back),
           NEW r \in DL!RunType, r.stage = "put", DL!GoesOn(r, p, back),
           NEW w, w = IF r.index <= Len(p) THEN [p EXCEPT ![r.index] = r.offset + 1]
                                           ELSE Append(p, r.offset + 1)
    PROVE  Kept(w, back) /\ Len(w) <= r.offset + 1 /\ (back \/ Len(w) = r.offset + 1)
<1>1. /\ p \in Seq(1..Size) /\ Len(p) \in Nat /\ r.offset \in Nat /\ r.index \in Nat
      /\ r.offset + 1 \in 1..Size /\ r.index > 0 /\ Len(p) <= r.offset
  BY LengthOfSequence DEF Kept, DL!GoesOn, DL!RunType
<1>2. CASE r.index <= Len(p)
  <2>1. back /\ r.index \in 1..Len(p)
    BY <1>1, <1>2 DEF DL!GoesOn
  <2>2. w \in Seq(1..Size) /\ Len(w) = Len(p)
    BY <1>1, <1>2, <2>1, ChangedSequence
  <2> QED
    BY <1>1, <2>1, <2>2 DEF Kept
<1>3. CASE ~(r.index <= Len(p))
  <2>1. /\ w = Append(p, r.offset + 1) /\ w \in Seq(1..Size) /\ Len(w) = Len(p) + 1
        /\ \A i \in 1..Len(p) : w[i] = p[i]
        /\ w[Len(p) + 1] = r.offset + 1
    BY <1>1, <1>3
  <2>2. back \/ (Len(p) = r.offset /\ DL!InOrder(p))
    BY DEF DL!GoesOn, Kept
  <2>3. back \/ DL!InOrder(w)
    BY <1>1, <2>1, <2>2 DEF DL!InOrder
  <2> QED
    BY <1>1, <2>1, <2>2, <2>3 DEF Kept
<1> QED
  BY <1>2, <1>3

\* A run that has every piece has the whole file.
LEMMA AllPieces ==
    ASSUME Size \in Nat, NEW p \in Seq(1..Size), Len(p) = Size, DL!InOrder(p)
    PROVE  p = DL!Promise!Whole
<1>1. p = [i \in 1..Size |-> p[i]]
  BY LengthOfSequence
<1> QED
  BY <1>1 DEF DL!InOrder, DL!Promise!Whole

-----------------------------------------------------------------------------
(* The runs that pump starts                                                *)

\* The tasks K are started, from the list T and beside the runs S.
Started(T, S, K) ==
    /\ K \subseteq {id \in Ids : T[id] = "queued"} \ DL!Controllers(S)
    /\ tasks' = [id \in Ids |-> IF id \in K THEN "downloading" ELSE T[id]]
    /\ running' = S \cup {DL!Run(id) : id \in K}
    /\ K # {} => initialized

\* A list that is written as it is starts no run.
LEMMA NoneStarted ==
    ASSUME NEW T, T = [id \in Ids |-> T[id]], NEW S, tasks' = T, running' = S
    PROVE  Started(T, S, {})
BY DEF Started

\* What pump does, by the runs it starts.
LEMMA PumpStarts ==
    ASSUME NEW T, T = [id \in Ids |-> T[id]], NEW S, DL!Pump(T, S)
    PROVE  /\ DL!Persist(T)
           /\ \E K : Started(T, S, K)
<1>1. CASE ~initialized \/ DL!Cardinality(DL!Downloading(T)) >= concurrentDownloads
  BY <1>1, NoneStarted DEF DL!Pump
<1>2. CASE initialized /\ ~(DL!Cardinality(DL!Downloading(T)) >= concurrentDownloads)
  <2>1. PICK K \in SUBSET DL!Startable(T, S) :
           /\ tasks' = [id \in Ids |-> IF id \in K THEN "downloading" ELSE T[id]]
           /\ running' = S \cup {DL!Run(id) : id \in K \ DL!Controllers(S)}
    BY <1>2 DEF DL!Pump
  <2>2. K \ DL!Controllers(S) = K
    BY DEF DL!Startable
  <2> QED
    BY <1>2, <2>1, <2>2 DEF Started, DL!Startable, DL!Pump
<1> QED
  BY <1>1, <1>2
-----------------------------------------------------------------------------
(* A step: some runs go on, and pump starts others                          *)

\* The runs S fit what is kept after the step, and there is one of each task.
Fit(S) ==
    /\ S \subseteq DL!RunType
    /\ \A q, r \in S : q.id = r.id => q = r
    /\ \A r \in S : r.since <= acts

\* The invariant holds after a step in which tasks are started from a list T, beside runs
\* S that fit, when the rest fits that list.
LEMMA StepInv ==
    ASSUME DownloadsInv, Size \in Nat,
           NEW T \in [Ids -> DL!Statuses \cup {"none"}], NEW S, NEW K, Started(T, S, K), Fit(S),
           scope' \in Scopes \cup {None} /\ initialized' \in BOOLEAN,
           initialized' => scope' \in Scopes,
           acts' \in {acts, acts + 1},
           chunks' \in [Ids -> Seq(1..Size)], files' \in [Ids -> Seq(1..Size)],
           used \subseteq used', used' \subseteq Ids, DL!Listed(T) \subseteq used',
           stored' \in [Scopes -> SUBSET used'],
           \A i \in starting' : i.scope \in Scopes /\ i.saved \subseteq used',
           \A c \in cancelling' :
               /\ c.id \in used' /\ c.since \in Nat
               /\ c.id \notin revived' =>
                     T[c.id] = "none" /\ \A r \in S : r.id # c.id \/ r.since <= c.since,
           \A id \in Ids : Kept(chunks'[id], id \in revived'),
           \A r \in S : DL!GoesOn(r, chunks'[r.id], r.id \in revived')
    PROVE  DownloadsInv'
<1>1. /\ tasks' = [id \in Ids |-> IF id \in K THEN "downloading" ELSE T[id]]
      /\ tasks' \in [Ids -> DL!Statuses \cup {"none"}]
      /\ \A id \in Ids : T[id] = "none" => id \notin K /\ tasks'[id] = "none"
      /\ DL!Listed(tasks)' \subseteq used' /\ K \subseteq Ids
  BY DEF Started, DL!Statuses, DL!Listed
<1>2. running' = S \cup {DL!Run(id) : id \in K}
  BY DEF Started
<1>3. \A id \in K : DL!Run(id) \in DL!RunType /\ DL!Run(id).id = id /\ DL!Run(id).since = acts /\ DL!Run(id).stage = "size"
  BY DEF Started, DownloadsInv, DL!TypeOK, DL!Run, DL!RunType, DL!Stages
<1>4. acts \in Nat /\ acts' \in Nat /\ \A r \in running' : r \in DL!RunType /\ r.since <= acts'
  <2>1. acts \in Nat /\ acts <= acts'
    BY DEF DownloadsInv, DL!TypeOK
  <2> QED
    BY <1>2, <1>3, <2>1 DEF Fit, DL!RunType
<1>5. DL!TypeOK'
  BY <1>1, <1>4 DEF DL!TypeOK, DownloadsInv
<1>6. DL!OneRun'
  <2>1. \A r \in S : r.id \notin K
    BY DEF Started, DL!Controllers
  <2>2. \A q, r \in running' : q.id = r.id => q = r
    BY <1>2, <1>3, <2>1 DEF Fit
  <2> QED
    BY <1>4, <2>2 DEF DL!OneRun
<1>7. DL!NamesAreUsed'
  BY <1>1 DEF DL!NamesAreUsed
<1>8. DL!CancelledIsOut'
  BY <1>1, <1>2, <1>3 DEF DL!CancelledIsOut
<1>9. DL!PiecesInOrder'
  <2>1. \A r \in running' : DL!GoesOn(r, chunks'[r.id], r.id \in revived')
    BY <1>2, <1>3 DEF DL!GoesOn
  <2> QED
    BY <2>1 DEF DL!PiecesInOrder, Kept
<1> QED
  BY <1>5, <1>6, <1>7, <1>8, <1>9 DEF DownloadsInv, DL!RunsApart
\* A list that is persisted has only tasks that were made.
LEMMA PersistType ==
    ASSUME DownloadsInv, NEW T, DL!Listed(T) \subseteq used, DL!Persist(T)
    PROVE  stored' \in [Scopes -> SUBSET used]
BY DEF DownloadsInv, DL!TypeOK, DL!RunsApart, DL!NamesAreUsed, DL!Persist

\* The runs there are fit, and so they do when some are aborted or one has ended.
Like(q, r) ==
    /\ q.id = r.id /\ q.since = r.since /\ q.stage = r.stage
    /\ q.offset = r.offset /\ q.index = r.index

\* The runs that fit still do when some of them are gone or aborted.
LEMMA RunsFit ==
    ASSUME DownloadsInv
    PROVE  /\ \A S \in SUBSET running : Fit(S)
           /\ \A I : Fit(DL!Aborted(running, I)) /\ \A q \in DL!Aborted(running, I) : \E r \in running : Like(q, r)
<1>1. \A S \in SUBSET running : Fit(S)
  BY DEF DownloadsInv, DL!TypeOK, DL!RunsApart, DL!OneRun, Fit
<1>2. ASSUME NEW I
      PROVE  Fit(DL!Aborted(running, I)) /\ \A q \in DL!Aborted(running, I) : \E r \in running : Like(q, r)
  <2>1. \A q \in DL!Aborted(running, I) :
          \E r \in running : q = r \/ (r.id \in I /\ q = [r EXCEPT !.aborted = TRUE])
    BY DEF DL!Aborted
  <2>2. \A r \in running : r \in DL!RunType /\ [r EXCEPT !.aborted = TRUE] \in DL!RunType
                           /\ Like([r EXCEPT !.aborted = TRUE], r) /\ Like(r, r)
    BY DEF DownloadsInv, DL!TypeOK, DL!RunType, Like
  <2>3. ASSUME NEW q \in DL!Aborted(running, I) PROVE q \in DL!RunType /\ \E r \in running : Like(q, r)
    <3>1. PICK r \in running : q = r \/ q = [r EXCEPT !.aborted = TRUE]
      BY <2>1
    <3> QED
      BY <2>2, <3>1
  <2>4. \A q \in DL!Aborted(running, I) : q.since <= acts
    BY <2>3 DEF DownloadsInv, DL!RunsApart, DL!OneRun, Like
  <2>5. ASSUME NEW q \in DL!Aborted(running, I), NEW p \in DL!Aborted(running, I), q.id = p.id
        PROVE  q = p
    <3>1. PICK r \in running : q = IF r.id \in I THEN [r EXCEPT !.aborted = TRUE] ELSE r
      BY DEF DL!Aborted
    <3>2. PICK s \in running : p = IF s.id \in I THEN [s EXCEPT !.aborted = TRUE] ELSE s
      BY DEF DL!Aborted
    <3>3. q.id = r.id /\ p.id = s.id
      BY <2>2, <3>1, <3>2 DEF Like
    <3>4. r = s
      BY <2>5, <3>3 DEF DownloadsInv, DL!RunsApart, DL!OneRun
    <3> QED
      BY <3>1, <3>2, <3>4
  <2> QED
    BY <2>3, <2>4, <2>5 DEF Fit
<1> QED
  BY <1>1, <1>2

\* Runs that are like those there are go on from what is kept, and a cancelled task has
\* none that is newer.
LEMMA LikeGoesOn ==
    ASSUME DownloadsInv, NEW S, Fit(S), \A q \in S : \E r \in running : Like(q, r)
    PROVE  /\ \A q \in S : q.id \in Ids /\ DL!GoesOn(q, chunks[q.id], q.id \in revived)
           /\ \A c \in cancelling : c.id \notin revived => \A q \in S : q.id # c.id \/ q.since <= c.since
<1>1. ASSUME NEW q \in S PROVE q.id \in Ids /\ DL!GoesOn(q, chunks[q.id], q.id \in revived)
  <2>1. PICK r \in running : Like(q, r)
    OBVIOUS
  <2> QED
    BY <2>1 DEF DownloadsInv, DL!TypeOK, DL!RunsApart, DL!PiecesInOrder, DL!GoesOn, Like, DL!RunType
<1>2. \A c \in cancelling : c.id \notin revived => \A q \in S : q.id # c.id \/ q.since <= c.since
  BY DEF DownloadsInv, DL!RunsApart, DL!CancelledIsOut, Like
<1> QED
  BY <1>1, <1>2

\* What a task list T may be after the end of a run r.
After(r) == {tasks} \cup {T \in {[tasks EXCEPT ![r.id] = "failed"], [tasks EXCEPT ![r.id] = "none"]} :
                            tasks[r.id] = "downloading"}

\* What a run leaves the list of tasks like.
LEMMA AfterType ==
    ASSUME DownloadsInv, NEW r \in running, NEW T \in After(r)
    PROVE  /\ T \in [Ids -> DL!Statuses \cup {"none"}] /\ DL!Listed(T) \subseteq used
           /\ T = [id \in Ids |-> T[id]]
           /\ \A id \in Ids : tasks[id] = "none" => T[id] = "none"
<1>1. /\ T \in [Ids -> DL!Statuses \cup {"none"}]
      /\ \A id \in Ids : tasks[id] = "none" => T[id] = "none"
  BY DEF DownloadsInv, DL!TypeOK, After, DL!Statuses
<1> QED
  BY <1>1 DEF DownloadsInv, DL!RunsApart, DL!NamesAreUsed, DL!Listed

\* A run goes on to q, and what it keeps becomes p.
LEMMA RunMoves ==
    ASSUME DownloadsInv, Size \in Nat, NEW r \in running, NEW q \in DL!RunType,
           q.id = r.id, q.since = r.since, running' = DL!OtherRuns(r) \cup {q},
           tasks' \in After(r), DL!Rest, stored' = stored \/ DL!Persist(tasks),
           files' \in [Ids -> Seq(1..Size)],
           NEW p, chunks' = [chunks EXCEPT ![r.id] = p], Kept(p, r.id \in revived),
           DL!GoesOn(q, p, r.id \in revived)
    PROVE  DownloadsInv'
<1> DEFINE S == DL!OtherRuns(r) \cup {q}
<1>0. r.id \in Ids /\ r \in DL!RunType
  BY DEF DownloadsInv, DL!TypeOK, DL!RunType
<1>1. Fit(S)
  BY DEF Fit, DL!OtherRuns, DownloadsInv, DL!TypeOK, DL!RunsApart, DL!OneRun
<1>2. tasks' \in [Ids -> DL!Statuses \cup {"none"}] /\ Started(tasks', S, {}) /\ DL!Listed(tasks') \subseteq used
  BY AfterType, NoneStarted
<1>3. stored' \in [Scopes -> SUBSET used]
  BY PersistType DEF DownloadsInv, DL!TypeOK, DL!RunsApart, DL!NamesAreUsed
<1>4. \A c \in cancelling : c.id \notin revived =>
          tasks'[c.id] = "none" /\ \A s \in S : s.id # c.id \/ s.since <= c.since
  BY AfterType DEF DownloadsInv, DL!TypeOK, DL!RunsApart, DL!CancelledIsOut, DL!OtherRuns
<1>5. chunks' \in [Ids -> Seq(1..Size)] /\ \A id \in Ids : Kept(chunks'[id], id \in revived)
  BY <1>0 DEF DownloadsInv, DL!TypeOK, DL!RunsApart, DL!PiecesInOrder, Kept
<1>6. \A s \in S : DL!GoesOn(s, chunks'[s.id], s.id \in revived)
  <2>1. \A s \in DL!OtherRuns(r) : s \in running /\ s.id \in Ids /\ s.id # r.id
    BY DEF DownloadsInv, DL!TypeOK, DL!RunType, DL!RunsApart, DL!OneRun, DL!OtherRuns
  <2>2. \A s \in DL!OtherRuns(r) : chunks'[s.id] = chunks[s.id]
    BY <2>1 DEF DownloadsInv, DL!TypeOK
  <2>3. chunks'[q.id] = p
    BY <1>0 DEF DownloadsInv, DL!TypeOK
  <2> QED
    BY <2>1, <2>2, <2>3 DEF DownloadsInv, DL!RunsApart, DL!PiecesInOrder
<1>7. /\ scope' = scope /\ initialized' = initialized /\ starting' = starting
      /\ cancelling' = cancelling /\ used' = used /\ revived' = revived /\ acts' = acts
  BY DEF DL!Rest
<1>8. /\ scope \in Scopes \cup {None} /\ initialized \in BOOLEAN
      /\ initialized => scope \in Scopes
      /\ used \subseteq used /\ used \subseteq Ids /\ acts \in {acts, acts + 1}
      /\ \A i \in starting : i.scope \in Scopes /\ i.saved \subseteq used
      /\ \A c \in cancelling : c.id \in used /\ c.since \in Nat
  BY DEF DownloadsInv, DL!TypeOK, DL!RunsApart, DL!NamesAreUsed
<1> QED
  BY <1>1, <1>2, <1>3, <1>4, <1>5, <1>6, <1>7, <1>8, StepInv
\* A run ends with the list T, what it keeps becomes p, and pump starts what waits.
LEMMA RunEnds ==
    ASSUME DownloadsInv, Size \in Nat, NEW r \in running, NEW T \in After(r),
           DL!Finish(r, T), DL!Rest, files' = files,
           NEW p, chunks' = [chunks EXCEPT ![r.id] = p], Kept(p, r.id \in revived)
    PROVE  DownloadsInv'
<1> DEFINE S == DL!OtherRuns(r)
<1>0. r.id \in Ids
  BY DEF DownloadsInv, DL!TypeOK, DL!RunType
<1>1. /\ T \in [Ids -> DL!Statuses \cup {"none"}] /\ T = [id \in Ids |-> T[id]] /\ DL!Listed(T) \subseteq used
      /\ \A id \in Ids : tasks[id] = "none" => T[id] = "none"
  BY AfterType
<1>2. (stored' = stored \/ DL!Persist(T)) /\ \E K : Started(T, S, K)
  BY <1>1, PumpStarts, NoneStarted DEF DL!Finish, DL!Continue
<1>3. PICK K : Started(T, S, K)
  BY <1>2
<1>4. /\ Fit(S)
      /\ \A s \in S : s \in running /\ s.id \in Ids /\ s.id # r.id
  BY RunsFit DEF DL!OtherRuns, DownloadsInv, DL!TypeOK, DL!RunType, DL!RunsApart, DL!OneRun
<1>5. stored' \in [Scopes -> SUBSET used]
  BY <1>1, <1>2, PersistType DEF DownloadsInv, DL!TypeOK, DL!RunsApart, DL!NamesAreUsed
<1>6. chunks' \in [Ids -> Seq(1..Size)] /\ \A id \in Ids : Kept(chunks'[id], id \in revived)
  BY <1>0 DEF DownloadsInv, DL!TypeOK, DL!RunsApart, DL!PiecesInOrder, Kept
<1>7. \A s \in S : DL!GoesOn(s, chunks'[s.id], s.id \in revived')
  BY <1>4 DEF DL!Rest, DownloadsInv, DL!TypeOK, DL!RunsApart, DL!PiecesInOrder
<1>8. \A c \in cancelling : c.id \notin revived =>
          T[c.id] = "none" /\ \A s \in S : s.id # c.id \/ s.since <= c.since
  BY <1>1, <1>4 DEF DownloadsInv, DL!TypeOK, DL!RunsApart, DL!CancelledIsOut
<1>9. /\ scope' = scope /\ initialized' = initialized /\ starting' = starting
      /\ cancelling' = cancelling /\ used' = used /\ revived' = revived /\ acts' = acts
  BY DEF DL!Rest
<1>10. /\ scope \in Scopes \cup {None} /\ initialized \in BOOLEAN
       /\ initialized => scope \in Scopes
       /\ used \subseteq used /\ used \subseteq Ids /\ acts \in {acts, acts + 1}
       /\ \A i \in starting : i.scope \in Scopes /\ i.saved \subseteq used
       /\ \A c \in cancelling : c.id \in used /\ c.since \in Nat
       /\ files \in [Ids -> Seq(1..Size)]
  BY DEF DownloadsInv, DL!TypeOK, DL!RunsApart, DL!NamesAreUsed
<1>11. /\ scope' \in Scopes \cup {None} /\ initialized' \in BOOLEAN
       /\ initialized' => scope' \in Scopes
       /\ used \subseteq used' /\ used' \subseteq Ids /\ acts' \in {acts, acts + 1}
       /\ files' \in [Ids -> Seq(1..Size)] /\ DL!Listed(T) \subseteq used'
       /\ stored' \in [Scopes -> SUBSET used']
  BY <1>1, <1>5, <1>9, <1>10
<1>12. \A i \in starting' : i.scope \in Scopes /\ i.saved \subseteq used'
  BY <1>9, <1>10
<1>13. \A c \in cancelling' :
          /\ c.id \in used' /\ c.since \in Nat
          /\ c.id \notin revived' =>
                T[c.id] = "none" /\ \A s \in S : s.id # c.id \/ s.since <= c.since
  BY <1>8, <1>9, <1>10
<1>14. \A id \in Ids : Kept(chunks'[id], id \in revived')
  BY <1>6, <1>9
<1> HIDE DEF S
<1> QED
  BY <1>1, <1>3, <1>4, <1>6, <1>7, <1>11, <1>12, <1>13, <1>14, StepInv

\* A run that stops, with the chunks of its task as they may be.
LEMMA RunStops ==
    ASSUME DownloadsInv, Size \in Nat, NEW r \in running, NEW T \in After(r),
           DL!Stops(r, T), DL!Rest, files' = files,
           NEW p, chunks' = [chunks EXCEPT ![r.id] = p], Kept(p, r.id \in revived)
    PROVE  DownloadsInv'
<1>1. CASE DL!HasReader(r)
  <2> DEFINE q == [r EXCEPT !.stage = "end"]
  <2>1. q \in DL!RunType /\ q.id = r.id /\ q.since = r.since /\ q.stage = "end"
    BY DEF DownloadsInv, DL!TypeOK, DL!RunType, DL!Stages
  <2>2. DL!GoesOn(q, p, r.id \in revived)
    BY <2>1 DEF DL!GoesOn
  <2>3. running' = DL!OtherRuns(r) \cup {q} /\ tasks' = T /\ stored' = stored
    BY <1>1 DEF DL!Stops, DL!At
  <2>4. files' \in [Ids -> Seq(1..Size)]
    BY DEF DownloadsInv, DL!TypeOK
  <2> HIDE DEF q
  <2> QED
    BY <2>1, <2>2, <2>3, <2>4, RunMoves
<1>2. CASE ~DL!HasReader(r)
  BY <1>2, RunEnds DEF DL!Stops
<1> QED
  BY <1>1, <1>2

-----------------------------------------------------------------------------
(* The steps of a run                                                       *)

\* What is there of a run, and what it may keep.
LEMMA RunFacts ==
    ASSUME DownloadsInv, Size \in Nat, NEW r \in running
    PROVE  /\ r \in DL!RunType /\ r.id \in Ids /\ r.offset \in 0..Size /\ r.index \in Nat
           /\ Kept(chunks[r.id], r.id \in revived) /\ DL!GoesOn(r, chunks[r.id], r.id \in revived)
           /\ Len(chunks[r.id]) \in 0..Size
           /\ chunks = [chunks EXCEPT ![r.id] = chunks[r.id]]
           /\ tasks \in After(r) /\ files \in [Ids -> Seq(1..Size)]
           /\ Kept(<<>>, r.id \in revived) /\ Len(<<>>) = 0
           /\ DL!isCurrent(r) => [tasks EXCEPT ![r.id] = "failed"] \in After(r)
                              /\ [tasks EXCEPT ![r.id] = "none"] \in After(r)
<1>1. r \in DL!RunType /\ r.id \in Ids /\ r.offset \in 0..Size /\ r.index \in Nat
  BY DEF DownloadsInv, DL!TypeOK, DL!RunType
<1>2. chunks[r.id] \in Seq(1..Size) /\ Len(chunks[r.id]) \in Nat
  BY <1>1, LengthOfSequence DEF DownloadsInv, DL!TypeOK
<1>3. Kept(chunks[r.id], r.id \in revived) /\ DL!GoesOn(r, chunks[r.id], r.id \in revived)
  BY <1>1, <1>2 DEF Kept, DownloadsInv, DL!RunsApart, DL!PiecesInOrder
<1>4. Kept(<<>>, r.id \in revived) /\ Len(<<>>) = 0
  BY NothingKept
<1>5. chunks = [chunks EXCEPT ![r.id] = chunks[r.id]] /\ files \in [Ids -> Seq(1..Size)]
  BY DEF DownloadsInv, DL!TypeOK
<1> QED
  BY <1>1, <1>2, <1>3, <1>4, <1>5 DEF After, DL!isCurrent, Kept

\* The steps of a run: superseded, failed, its chunks counted.
LEMMA SupersededInv == ASSUME DownloadsInv, Size \in Nat, NEW r \in running, DL!Superseded(r) PROVE DownloadsInv'
<1>1. chunks' = [chunks EXCEPT ![r.id] = <<>>] \/ chunks' = [chunks EXCEPT ![r.id] = chunks[r.id]]
  BY RunFacts DEF DL!Superseded
<1> QED
  BY <1>1, RunFacts, RunStops DEF DL!Superseded

LEMMA FailsInv ==
    ASSUME DownloadsInv, Size \in Nat, NEW r \in running, NEW wipe \in BOOLEAN, DL!Fails(r, wipe)
    PROVE  DownloadsInv'
<1>1. chunks' = [chunks EXCEPT ![r.id] = <<>>] \/ chunks' = [chunks EXCEPT ![r.id] = chunks[r.id]]
  BY RunFacts DEF DL!Fails
<1> QED
  BY <1>1, RunFacts, RunStops DEF DL!Fails

LEMMA CountedInv == ASSUME DownloadsInv, Size \in Nat, NEW r \in running, DL!Counted(r) PROVE DownloadsInv'
<1> DEFINE q == [r EXCEPT !.stage = "fetch", !.offset = Len(chunks[r.id])]
<1>1. q \in DL!RunType /\ q.id = r.id /\ q.since = r.since /\ q.stage = "fetch" /\ q.offset = Len(chunks[r.id])
  BY RunFacts DEF DL!RunType, DL!Stages
<1>2. DL!GoesOn(q, chunks[r.id], r.id \in revived)
  BY <1>1, RunFacts DEF DL!GoesOn
<1>3. /\ running' = DL!OtherRuns(r) \cup {q} /\ tasks' = tasks /\ stored' = stored /\ DL!Rest
      /\ chunks' = chunks /\ files' = files
  BY DEF DL!Counted, DL!Same
<1> HIDE DEF q
<1> QED
  BY <1>1, <1>2, <1>3, RunFacts, RunMoves

\* The answers to the request of a run.
LEMMA FetchedInv ==
    ASSUME DownloadsInv, Size \in Nat, NEW r \in running,
           DL!Answers(r) \/ DL!AnswersWhole(r) \/ DL!AnswersOtherwise(r) \/ DL!Unauthorized(r)
    PROVE  DownloadsInv'
<1>1. DL!Fetched(r) /\ r.stage = "fetch"
  BY DEF DL!Answers, DL!AnswersWhole, DL!AnswersOtherwise, DL!Unauthorized, DL!Fetched
<1>2. PICK q : /\ running' = DL!OtherRuns(r) \cup {q}
               /\ q \in {[r EXCEPT !.stage = s] : s \in {"open", "clearRead", "clear"}}
                     \cup {[r EXCEPT !.attempt = 1]}
  BY DEF DL!Answers, DL!AnswersWhole, DL!AnswersOtherwise, DL!Unauthorized, DL!At
<1>3. /\ q \in DL!RunType /\ q.id = r.id /\ q.since = r.since /\ q.offset = r.offset
      /\ q.stage \in {"fetch", "open", "clearRead", "clear"}
  BY <1>1, <1>2, RunFacts DEF DL!RunType, DL!Stages
<1>4. DL!GoesOn(q, chunks[r.id], r.id \in revived)
  BY <1>1, <1>3, RunFacts DEF DL!GoesOn
<1>5. /\ tasks' = tasks /\ stored' = stored /\ DL!Rest /\ chunks' = chunks /\ files' = files
  BY <1>1 DEF DL!Fetched, DL!Same
<1> QED
  BY <1>2, <1>3, <1>4, <1>5, RunFacts, RunMoves

\* A run that begins anew, opens the file, reads a piece, keeps it.
LEMMA RestartsInv == ASSUME DownloadsInv, Size \in Nat, NEW r \in running, DL!Restarts(r) PROVE DownloadsInv'
<1>1. CASE r.stage = "clear" /\ r.attempt = 1
  BY <1>1, RunFacts, RunStops DEF DL!Restarts
<1>2. CASE ~(r.stage = "clear" /\ r.attempt = 1)
  <2> DEFINE q == [r EXCEPT !.stage = IF @ = "clear" THEN "fetch" ELSE "open", !.attempt = 1, !.offset = 0]
  <2>1. running' = DL!OtherRuns(r) \cup {q}
    BY <1>2 DEF DL!Restarts
  <2>2. q \in DL!RunType /\ q.id = r.id /\ q.since = r.since /\ q.stage \in {"fetch", "open"} /\ q.offset = 0
    <3>0. r \in DL!RunType
      BY RunFacts
    <3>1. r \in DL!RunType /\ 0 \in 0..Size
      BY <3>0
    <3>2. ASSUME NEW s \in {"fetch", "open"}, NEW u, u = [r EXCEPT !.stage = s, !.attempt = 1, !.offset = 0]
          PROVE  u \in DL!RunType /\ u.id = r.id /\ u.since = r.since /\ u.stage = s /\ u.offset = 0
      BY <3>1, <3>2 DEF DL!RunType, DL!Stages
    <3> QED
      BY <3>2
  <2>3. DL!GoesOn(q, <<>>, r.id \in revived)
    BY <2>2, RunFacts DEF DL!GoesOn
  <2>4. /\ tasks' = tasks /\ stored' = stored /\ DL!Rest
        /\ chunks' = [chunks EXCEPT ![r.id] = <<>>] /\ files' = files
    BY <1>2 DEF DL!Restarts, DL!Same
  <2> HIDE DEF q
  <2> QED
    BY <2>1, <2>2, <2>3, <2>4, RunFacts, RunMoves
<1> QED
  BY <1>1, <1>2
LEMMA OpensInv == ASSUME DownloadsInv, Size \in Nat, NEW r \in running, DL!Opens(r) PROVE DownloadsInv'
<1> DEFINE q == [r EXCEPT !.stage = "read", !.index = Len(chunks[r.id]) + 1]
<1>0. r \in DL!RunType /\ Len(chunks[r.id]) \in 0..Size
  BY RunFacts
<1>1. r \in DL!RunType /\ Len(chunks[r.id]) + 1 \in Nat /\ Len(chunks[r.id]) + 1 > 0
  BY <1>0
<1>2. /\ q \in DL!RunType /\ q.id = r.id /\ q.since = r.since /\ q.stage = "read"
      /\ q.offset = r.offset /\ q.index = Len(chunks[r.id]) + 1
  BY <1>1 DEF DL!RunType, DL!Stages
<1>3. DL!GoesOn(q, chunks[r.id], r.id \in revived)
  <2>1. r.stage = "open" /\ DL!GoesOn(r, chunks[r.id], r.id \in revived)
    BY RunFacts DEF DL!Opens
  <2> QED
    BY <1>1, <1>2, <2>1 DEF DL!GoesOn
<1>4. /\ running' = DL!OtherRuns(r) \cup {q} /\ tasks' = tasks /\ DL!Persist(tasks) /\ DL!Rest
      /\ chunks' = chunks /\ files' = files
  BY DEF DL!Opens
<1> HIDE DEF q
<1> QED
  BY <1>2, <1>3, <1>4, RunFacts, RunMoves

LEMMA ReadsInv == ASSUME DownloadsInv, Size \in Nat, NEW r \in running, DL!Reads(r) PROVE DownloadsInv'
<1> DEFINE s == IF r.offset < Size THEN "put" ELSE "final"
           q == [r EXCEPT !.stage = s]
<1>1. r \in DL!RunType /\ r.offset \in 0..Size /\ r.stage = "read" /\ DL!GoesOn(r, chunks[r.id], r.id \in revived)
  BY RunFacts DEF DL!Reads
<1>2. /\ q \in DL!RunType /\ q.id = r.id /\ q.since = r.since /\ q.stage = s
      /\ q.offset = r.offset /\ q.index = r.index
  BY <1>1 DEF DL!RunType, DL!Stages
<1>3. DL!GoesOn(q, chunks[r.id], r.id \in revived)
  BY <1>1, <1>2 DEF DL!GoesOn
<1>4. /\ running' = DL!OtherRuns(r) \cup {q} /\ tasks' = tasks /\ stored' = stored /\ DL!Rest
      /\ chunks' = chunks /\ files' = files
  BY DEF DL!Reads, DL!At, DL!Same
<1> HIDE DEF q, s
<1> QED
  BY <1>2, <1>3, <1>4, RunFacts, RunMoves

\* A piece that is kept lengthens the beginning, or replaces a piece of a task that came back.
LEMMA PutsInv == ASSUME DownloadsInv, Size \in Nat, NEW r \in running, DL!Puts(r) PROVE DownloadsInv'
<1> DEFINE q == [r EXCEPT !.stage = "read", !.offset = @ + 1, !.index = @ + 1]
           p == IF r.index <= Len(chunks[r.id]) THEN [chunks[r.id] EXCEPT ![r.index] = r.offset + 1]
                                               ELSE Append(chunks[r.id], r.offset + 1)
<1>1. r \in DL!RunType /\ r.stage = "put" /\ DL!GoesOn(r, chunks[r.id], r.id \in revived)
      /\ Kept(chunks[r.id], r.id \in revived)
  BY RunFacts DEF DL!Puts
<1>2. Kept(p, r.id \in revived) /\ Len(p) <= r.offset + 1 /\ (r.id \in revived \/ Len(p) = r.offset + 1)
  <2> DEFINE k == chunks[r.id]
             b == r.id \in revived
  <2>1. /\ b \in BOOLEAN /\ Kept(k, b) /\ DL!GoesOn(r, k, b)
        /\ p = IF r.index <= Len(k) THEN [k EXCEPT ![r.index] = r.offset + 1]
                                    ELSE Append(k, r.offset + 1)
    BY <1>1
  <2> HIDE DEF k, b, p
  <2>2. Kept(p, b) /\ Len(p) <= r.offset + 1 /\ (b \/ Len(p) = r.offset + 1)
    BY <1>1, <2>1, PieceWritten
  <2> QED
    BY <2>2 DEF b
<1>3. r.offset + 1 \in 0..Size /\ r.index + 1 \in Nat /\ r.index + 1 > 0
  BY <1>1 DEF DL!RunType, DL!GoesOn
<1>4. /\ q \in DL!RunType /\ q.id = r.id /\ q.since = r.since /\ q.stage = "read"
      /\ q.offset = r.offset + 1 /\ q.index = r.index + 1
  BY <1>1, <1>3 DEF DL!RunType, DL!Stages
<1>5. DL!GoesOn(q, p, r.id \in revived)
  <2>1. r.id \in revived \/ r.index = r.offset + 1
    BY <1>1 DEF DL!GoesOn
  <2> HIDE DEF q, p
  <2> QED
    BY <1>2, <1>3, <1>4, <2>1 DEF DL!GoesOn
<1>6. /\ running' = DL!OtherRuns(r) \cup {q} /\ tasks' = tasks /\ (stored' = stored \/ DL!Persist(tasks)) /\ DL!Rest
      /\ chunks' = [chunks EXCEPT ![r.id] = p] /\ files' = files
  BY DEF DL!Puts, DL!Written
<1> HIDE DEF q, p
<1> QED
  BY <1>2, <1>4, <1>5, <1>6, RunFacts, RunMoves

\* What is saved of a task that was not revived is the whole file.
LEMMA SavesWhole ==
    ASSUME DownloadsInv, Size \in Nat, NEW r \in running, r.stage = "final", r.id \notin revived
    PROVE  chunks[r.id] = DL!Promise!Whole
<1>1. chunks[r.id] \in Seq(1..Size) /\ DL!InOrder(chunks[r.id]) /\ Len(chunks[r.id]) = Size
  <2>1. Kept(chunks[r.id], r.id \in revived) /\ DL!GoesOn(r, chunks[r.id], r.id \in revived)
    BY RunFacts
  <2> QED
    BY <2>1 DEF Kept, DL!GoesOn
<1> QED
  BY <1>1, AllPieces

\* The file is handed to the browser, its chunks are cleared, the run ends.
LEMMA SavesInv == ASSUME DownloadsInv, Size \in Nat, NEW r \in running, DL!Saves(r) PROVE DownloadsInv'
<1> DEFINE q == [r EXCEPT !.stage = "cleared"]
<1>1. r \in DL!RunType /\ r.id \in Ids /\ Kept(chunks[r.id], r.id \in revived) /\ files \in [Ids -> Seq(1..Size)]
  BY RunFacts
<1>2. q \in DL!RunType /\ q.id = r.id /\ q.since = r.since /\ q.stage = "cleared"
  BY <1>1 DEF DL!RunType, DL!Stages
<1>3. DL!GoesOn(q, chunks[r.id], r.id \in revived)
  BY <1>2 DEF DL!GoesOn
<1>4. /\ running' = DL!OtherRuns(r) \cup {q} /\ tasks' = [tasks EXCEPT ![r.id] = "none"]
      /\ stored' = stored /\ DL!Rest /\ chunks' = chunks
  BY DEF DL!Saves, DL!At
<1>5. files' \in [Ids -> Seq(1..Size)]
  BY <1>1 DEF DL!Saves, Kept
<1>6. tasks' \in After(r)
  BY <1>4, RunFacts DEF DL!Saves
<1> HIDE DEF q
<1> QED
  BY <1>2, <1>3, <1>4, <1>5, <1>6, RunFacts, RunMoves

LEMMA TidiesInv == ASSUME DownloadsInv, Size \in Nat, NEW r \in running, DL!Tidies(r) PROVE DownloadsInv'
<1> DEFINE q == [r EXCEPT !.stage = "end"]
<1>1. r \in DL!RunType
  BY RunFacts
<1>2. q \in DL!RunType /\ q.id = r.id /\ q.since = r.since /\ q.stage = "end"
  BY <1>1 DEF DL!RunType, DL!Stages
<1>3. \A p : DL!GoesOn(q, p, r.id \in revived)
  BY <1>2 DEF DL!GoesOn
<1>4. /\ running' = DL!OtherRuns(r) \cup {q} /\ tasks' = tasks /\ stored' = stored /\ DL!Rest
      /\ files' = files
  BY DEF DL!Tidies, DL!At, DL!Same
<1>5. chunks' = [chunks EXCEPT ![r.id] = <<>>] \/ chunks' = [chunks EXCEPT ![r.id] = chunks[r.id]]
  BY RunFacts DEF DL!Tidies, DL!Clears
<1> HIDE DEF q
<1> QED
  BY <1>2, <1>3, <1>4, <1>5, RunFacts, RunMoves

LEMMA EndsInv == ASSUME DownloadsInv, Size \in Nat, NEW r \in running, DL!Ends(r) PROVE DownloadsInv'
BY RunFacts, RunEnds DEF DL!Ends
LEMMA RunInv == ASSUME DownloadsInv, Size \in Nat, NEW r \in running, DL!Step(r) PROVE DownloadsInv'
BY SupersededInv, CountedInv, FetchedInv, RestartsInv, OpensInv, ReadsInv, PutsInv, SavesInv,
   TidiesInv, EndsInv, FailsInv DEF DL!Step

-----------------------------------------------------------------------------
(* The steps of the member, and of what is awaited                          *)

\* Runs like those there are go on beside the list T, and the chunks of the tasks D are
\* cleared, which have no run unless they were revived.
LEMMA OthersStep ==
    ASSUME DownloadsInv, Size \in Nat,
           NEW T \in [Ids -> DL!Statuses \cup {"none"}], NEW S, NEW K, Started(T, S, K),
           Fit(S), \A q \in S : \E r \in running : Like(q, r),
           scope' \in Scopes \cup {None}, initialized' \in BOOLEAN, initialized' => scope' \in Scopes,
           acts' \in {acts, acts + 1}, files' = files,
           used \subseteq used', used' \subseteq Ids, DL!Listed(T) \subseteq used',
           stored' \in [Scopes -> SUBSET used'],
           \A i \in starting' : i.scope \in Scopes /\ i.saved \subseteq used',
           revived \subseteq revived',
           \A c \in cancelling' :
               /\ c.id \in used' /\ c.since \in Nat /\ (c.id \notin revived' => T[c.id] = "none")
               /\ c \in cancelling \/ \A q \in S : q.since <= c.since,
           NEW D, chunks' = [id \in Ids |-> IF id \in D THEN <<>> ELSE chunks[id]],
           \A q \in S : q.id \in D => q.id \in revived
    PROVE  DownloadsInv'
<1>1. chunks' \in [Ids -> Seq(1..Size)]
  BY NoSequence DEF DownloadsInv, DL!TypeOK
<1>2. files' \in [Ids -> Seq(1..Size)]
  BY DEF DownloadsInv, DL!TypeOK
<1>3. ASSUME NEW id \in Ids PROVE Kept(chunks'[id], id \in revived')
  <2>1. Kept(chunks[id], id \in revived)
    BY DEF DownloadsInv, DL!TypeOK, DL!RunsApart, DL!PiecesInOrder, Kept
  <2>2. Kept(chunks'[id], id \in revived)
    BY <2>1, NothingKept
  <2> QED
    BY <2>2 DEF Kept
<1>4. ASSUME NEW q \in S PROVE DL!GoesOn(q, chunks'[q.id], q.id \in revived')
  <2>1. q.id \in Ids /\ DL!GoesOn(q, chunks[q.id], q.id \in revived)
    BY LikeGoesOn
  <2>2. CASE q.id \notin D
    BY <2>1, <2>2 DEF DL!GoesOn
  <2>3. CASE q.id \in D
    <3>1. q.id \in revived /\ q.id \in revived' /\ chunks'[q.id] = <<>>
      BY <2>1, <2>3
    <3>2. q.offset \in Nat /\ Len(<<>>) = 0
      BY NoSequence DEF Fit, DL!RunType
    <3> QED
      BY <2>1, <3>1, <3>2 DEF DL!GoesOn
  <2> QED
    BY <2>2, <2>3
<1>5. \A c \in cancelling' :
          /\ c.id \in used' /\ c.since \in Nat
          /\ c.id \notin revived' =>
                T[c.id] = "none" /\ \A r \in S : r.id # c.id \/ r.since <= c.since
  BY LikeGoesOn
<1> QED
  BY <1>1, <1>2, <1>3, <1>4, <1>5, StepInv

\* What is there, as the steps need it.
LEMMA StateFacts ==
    ASSUME DownloadsInv
    PROVE  /\ tasks \in [Ids -> DL!Statuses \cup {"none"}] /\ tasks = [id \in Ids |-> tasks[id]]
           /\ DL!NoTasks \in [Ids -> DL!Statuses \cup {"none"}] /\ DL!Listed(DL!NoTasks) = {}
           /\ DL!Listed(tasks) \subseteq used /\ used \subseteq Ids /\ acts \in Nat
           /\ scope \in Scopes \cup {None} /\ initialized \in BOOLEAN /\ (initialized => scope \in Scopes)
           /\ stored \in [Scopes -> SUBSET used]
           /\ \A i \in starting : i.scope \in Scopes /\ i.saved \subseteq used
           /\ \A c \in cancelling : c.id \in used /\ c.since \in Nat
                                    /\ (c.id \notin revived => tasks[c.id] = "none")
           /\ chunks = [id \in Ids |-> IF id \in {} THEN <<>> ELSE chunks[id]]
           /\ Fit(running) /\ \A q \in running : \E r \in running : Like(q, r)
<1>1. DL!NoTasks \in [Ids -> DL!Statuses \cup {"none"}] /\ DL!Listed(DL!NoTasks) = {}
  BY DEF DL!NoTasks, DL!Listed
<1>2. stored \in [Scopes -> SUBSET used]
  BY DEF DownloadsInv, DL!TypeOK, DL!RunsApart, DL!NamesAreUsed
<1>3. Fit(running) /\ \A q \in running : \E r \in running : Like(q, r)
  BY RunsFit DEF Like
<1> QED
  BY <1>1, <1>2, <1>3 DEF DownloadsInv, DL!TypeOK, DL!RunsApart, DL!NamesAreUsed, DL!CancelledIsOut

\* What happens to the manager: its scope is left.
LEMMA LeaveInv == ASSUME DownloadsInv, Size \in Nat, DL!Leave PROVE DownloadsInv'
<1> DEFINE S == DL!Aborted(running, Ids)
<1>1. Fit(S) /\ \A q \in S : \E r \in running : Like(q, r)
  BY RunsFit
<1>2. Started(DL!NoTasks, S, {}) /\ \A id \in Ids : DL!NoTasks[id] = "none"
  BY NoneStarted DEF DL!Leave, DL!NoTasks
<1>3. /\ scope' = None /\ initialized' = FALSE /\ acts' = acts + 1 /\ files' = files
      /\ chunks' = chunks /\ stored' = stored /\ starting' = starting /\ cancelling' = cancelling
      /\ used' = used /\ revived' = revived
  BY DEF DL!Leave, DL!Act, DL!disk
<1> HIDE DEF S
<1> QED
  BY <1>1, <1>2, <1>3, StateFacts, OthersStep

\* A scope is opened.
LEMMA InitializeInv == ASSUME DownloadsInv, Size \in Nat, NEW s \in Scopes, DL!Initialize(s) PROVE DownloadsInv'
<1> DEFINE S == DL!Aborted(running, Ids)
           saved == IF scope = s THEN DL!Listed(tasks) ELSE stored[s]
<1>1. Fit(S) /\ \A q \in S : \E r \in running : Like(q, r)
  BY RunsFit
<1>2. Started(DL!NoTasks, S, {}) /\ \A id \in Ids : DL!NoTasks[id] = "none"
  BY NoneStarted DEF DL!Initialize, DL!NoTasks
<1>3. /\ scope' = s /\ initialized' \in BOOLEAN /\ acts' = acts + 1 /\ files' = files
      /\ chunks' = chunks /\ cancelling' = cancelling
      /\ used' = used /\ revived' = revived
  BY DEF DL!Initialize, DL!Act
<1>4. stored' \in [Scopes -> SUBSET used]
  BY StateFacts, PersistType DEF DL!Initialize
<1>5. saved \subseteq used
  BY StateFacts
<1>6. \A i \in starting' : i.scope \in Scopes /\ i.saved \subseteq used
  <2>1. starting' = starting \/ starting' = starting \cup {[scope |-> s, since |-> acts, saved |-> saved]}
    BY DEF DL!Initialize
  <2> HIDE DEF saved
  <2> QED
    BY <1>5, <2>1, StateFacts
<1> HIDE DEF S
<1> QED
  BY <1>1, <1>2, <1>3, <1>4, <1>6, StateFacts, OthersStep

\* Tasks are cancelled: their runs are aborted, and none begins until the chunks are gone.
LEMMA CancelsInv == ASSUME DownloadsInv, Size \in Nat, NEW C, DL!Cancels(C) PROVE DownloadsInv'
<1> DEFINE S == DL!Aborted(running, C)
           T == DL!Without(tasks, C)
<1>1. Fit(S) /\ \A q \in S : \E r \in running : Like(q, r)
  BY RunsFit
<1>2. /\ T \in [Ids -> DL!Statuses \cup {"none"}] /\ T = [id \in Ids |-> T[id]] /\ DL!Listed(T) \subseteq used
      /\ \A id \in Ids : (tasks[id] = "none" \/ id \in C) => T[id] = "none"
  BY StateFacts DEF DL!Without, DL!Listed
<1>3. Started(T, S, {})
  BY <1>2, NoneStarted DEF DL!Cancels
<1>4. /\ scope' = scope /\ initialized' = initialized /\ acts' = acts + 1 /\ files' = files
      /\ chunks' = chunks /\ stored' = stored /\ starting' = starting
      /\ used' = used /\ revived' = revived
      /\ cancelling' = cancelling \cup {[id |-> id, scope |-> scope, since |-> acts] : id \in C}
  BY DEF DL!Cancels, DL!Act, DL!disk
<1>5. \A id \in C : id \in used /\ id \in Ids
  BY StateFacts DEF DL!Cancels, DL!Listed
<1>6. ASSUME NEW c \in cancelling'
      PROVE  /\ c.id \in used /\ c.since \in Nat /\ (c.id \notin revived => T[c.id] = "none")
             /\ c \in cancelling \/ \A q \in S : q.since <= c.since
  <2>1. CASE c \in cancelling
    BY <1>2, <2>1, StateFacts
  <2>2. CASE c \notin cancelling
    <3>1. c.id \in C /\ c.since = acts
      BY <1>4, <2>2
    <3>2. \A q \in S : q.since <= acts
      BY <1>1 DEF Fit
    <3> HIDE DEF S, T
    <3> QED
      BY <1>2, <1>5, <3>1, <3>2, StateFacts
  <2> QED
    BY <2>1, <2>2
<1> HIDE DEF S, T
<1> QED
  BY <1>1, <1>2, <1>3, <1>4, <1>6, StateFacts, OthersStep
\* The page is loaded anew: runs are gone, chunks stay.
LEMMA ReloadInv == ASSUME DownloadsInv, Size \in Nat, DL!Reload PROVE DownloadsInv'
<1>1. Started(DL!NoTasks, {}, {}) /\ \A id \in Ids : DL!NoTasks[id] = "none"
  BY NoneStarted DEF DL!Reload, DL!NoTasks
<1>2. /\ scope' = None /\ initialized' = FALSE /\ acts' = acts + 1 /\ files' = files
      /\ stored' = stored /\ starting' = {} /\ cancelling' = {}
      /\ used' = used /\ revived' = revived
  BY DEF DL!Reload
<1>3. Fit({})
  BY DEF Fit
<1>4. chunks' \in [Ids -> Seq(1..Size)] /\ \A id \in Ids : Kept(chunks'[id], id \in revived)
  <2>1. \A id \in Ids : Kept(chunks[id], id \in revived)
    BY DEF DownloadsInv, DL!TypeOK, DL!RunsApart, DL!PiecesInOrder, Kept
  <2>2. ASSUME NEW r \in running, r.stage = "put", chunks' = DL!Written(r)
        PROVE  chunks' \in [Ids -> Seq(1..Size)] /\ \A id \in Ids : Kept(chunks'[id], id \in revived)
    <3> DEFINE k == chunks[r.id]
               b == r.id \in revived
               p == IF r.index <= Len(k) THEN [k EXCEPT ![r.index] = r.offset + 1]
                                         ELSE Append(k, r.offset + 1)
    <3>0. r \in DL!RunType /\ r.id \in Ids /\ Kept(chunks[r.id], r.id \in revived)
          /\ DL!GoesOn(r, chunks[r.id], r.id \in revived)
      BY RunFacts
    <3>1. r \in DL!RunType /\ r.id \in Ids /\ b \in BOOLEAN /\ Kept(k, b) /\ DL!GoesOn(r, k, b)
      BY <3>0
    <3>2. chunks' = [chunks EXCEPT ![r.id] = p]
      BY <2>2 DEF DL!Written
    <3>3. p = IF r.index <= Len(k) THEN [k EXCEPT ![r.index] = r.offset + 1]
                                   ELSE Append(k, r.offset + 1)
      OBVIOUS
    <3> HIDE DEF k, b, p
    <3>4. Kept(p, b) /\ p \in Seq(1..Size)
      BY <2>2, <3>1, <3>3, PieceWritten, ZenonT(40) DEF Kept
    <3> QED
      BY <2>1, <3>1, <3>2, <3>4 DEF b, DownloadsInv, DL!TypeOK
  <2> QED
    BY <2>1, <2>2 DEF DL!Reload, DownloadsInv, DL!TypeOK
<1>5. files \in [Ids -> Seq(1..Size)]
  BY DEF DownloadsInv, DL!TypeOK
<1> QED
  BY <1>1, <1>2, <1>3, <1>4, <1>5, StateFacts, StepInv

\* The chunks are counted, and the stored tasks are listed again.
LEMMA InitializedInv == ASSUME DownloadsInv, Size \in Nat, NEW i \in starting, DL!Initialized(i) PROVE DownloadsInv'
<1>1. /\ scope' = scope /\ acts' = acts /\ files' = files /\ chunks' = chunks
      /\ running' = running /\ starting' \subseteq starting /\ cancelling' = cancelling /\ used' = used
  BY DEF DL!Initialized, DL!bounds
<1>2. i.scope \in Scopes /\ i.saved \subseteq used /\ used \subseteq Ids
  BY StateFacts
<1>3. CASE scope = i.scope
  <2> DEFINE T == DL!Paused(i.saved)
  <2>1. /\ T \in [Ids -> DL!Statuses \cup {"none"}] /\ T = [id \in Ids |-> T[id]] /\ DL!Listed(T) \subseteq used
        /\ \A id \in Ids : id \notin i.saved => T[id] = "none"
    BY <1>2 DEF DL!Paused, DL!Listed, DL!Statuses
  <2>2. /\ tasks' = T /\ initialized' = TRUE /\ DL!Persist(T)
        /\ revived' = revived \cup (i.saved \cap {c.id : c \in cancelling})
    BY <1>3 DEF DL!Initialized
  <2>3. Started(T, running, {})
    BY <1>1, <2>1, <2>2, NoneStarted
  <2>4. stored' \in [Scopes -> SUBSET used]
    BY <2>1, <2>2, PersistType
  <2>5. ASSUME NEW c \in cancelling
        PROVE  c.id \in used /\ c.since \in Nat /\ (c.id \notin revived' => T[c.id] = "none")
    <3>1. c.id \in used /\ c.id \in Ids /\ c.since \in Nat
      BY StateFacts
    <3>2. c.id \notin revived' => c.id \notin i.saved
      BY <2>2
    <3> QED
      BY <2>1, <3>1, <3>2
  <2>6. revived \subseteq revived'
    BY <2>2
  <2> HIDE DEF T
  <2> QED
    BY <1>1, <1>2, <1>3, <2>1, <2>2, <2>3, <2>4, <2>5, <2>6, StateFacts, OthersStep
<1>4. CASE scope # i.scope
  <2>1. tasks' = tasks /\ initialized' = initialized /\ stored' = stored /\ revived' = revived
    BY <1>4 DEF DL!Initialized
  <2>2. Started(tasks, running, {})
    BY <1>1, <2>1, StateFacts, NoneStarted
  <2> QED
    BY <1>1, <1>2, <2>1, <2>2, StateFacts, OthersStep
<1> QED
  BY <1>3, <1>4

\* When the chunks of a cancelled task are cleared, it has no run, or it was revived.
LEMMA CancelledInv == ASSUME DownloadsInv, Size \in Nat, NEW c \in cancelling, DL!Cancelled(c) PROVE DownloadsInv'
<1>1. /\ scope' = scope /\ initialized' = initialized /\ acts' = acts /\ files' = files
      /\ starting' = starting /\ cancelling' \subseteq cancelling /\ used' = used /\ revived' = revived
      /\ chunks' = [chunks EXCEPT ![c.id] = <<>>] \/ chunks' = chunks
  BY DEF DL!Cancelled, DL!Clears
<1>2. \A q \in running : q.id \in {c.id} => q.id \in revived
  <2> SUFFICES ASSUME NEW q \in running, q.id = c.id, c.id \notin revived PROVE FALSE
    OBVIOUS
  <2>1. q.since > c.since
    BY DEF DL!Cancelled, DL!RunEnded
  <2>2. q.since <= c.since
    BY DEF DownloadsInv, DL!RunsApart, DL!CancelledIsOut
  <2>3. q.since \in Nat /\ c.since \in Nat
    BY DEF DownloadsInv, DL!TypeOK, DL!RunType
  <2> QED
    BY <2>1, <2>2, <2>3
<1>3. PICK I \in {{c.id}, {}} : chunks' = [id \in Ids |-> IF id \in I THEN <<>> ELSE chunks[id]]
  BY <1>1, StateFacts DEF DownloadsInv, DL!TypeOK
<1>4. (stored' = stored \/ DL!Persist(tasks)) /\ \E K : Started(tasks, running, K)
  BY StateFacts, PumpStarts, NoneStarted DEF DL!Cancelled
<1>5. stored' \in [Scopes -> SUBSET used]
  BY <1>4, StateFacts, PersistType
<1>6. PICK K : Started(tasks, running, K)
  BY <1>4
<1>7. /\ scope' \in Scopes \cup {None} /\ initialized' \in BOOLEAN /\ (initialized' => scope' \in Scopes)
      /\ used' \subseteq Ids /\ DL!Listed(tasks) \subseteq used' /\ stored' \in [Scopes -> SUBSET used']
      /\ \A i \in starting' : i.scope \in Scopes /\ i.saved \subseteq used'
  BY <1>1, <1>5, StateFacts
<1>8. \A d \in cancelling' :
          /\ d.id \in used' /\ d.since \in Nat /\ (d.id \notin revived' => tasks[d.id] = "none")
          /\ d \in cancelling
  BY <1>1, StateFacts
<1>9. /\ tasks \in [Ids -> DL!Statuses \cup {"none"}] /\ Fit(running)
      /\ \A q \in running : \E r \in running : Like(q, r)
  BY StateFacts
<1>10. acts' \in {acts, acts + 1} /\ files' = files /\ used \subseteq used' /\ revived \subseteq revived'
  BY <1>1
<1>11. \A q \in running : q.id \in I => q.id \in revived
  BY <1>2, <1>3
<1> QED
  BY <1>11, <1>3, <1>6, <1>7, <1>8, <1>9, <1>10, OthersStep

\* Runs are aborted, the list becomes T, and what waits is started.
LEMMA PumpInv ==
    ASSUME DownloadsInv, Size \in Nat, DL!Act,
           NEW T \in [Ids -> DL!Statuses \cup {"none"}],
           \A c \in cancelling : tasks[c.id] = "none" => T[c.id] = "none",
           NEW S, Fit(S), \A q \in S : \E r \in running : Like(q, r), DL!Pump(T, S),
           DL!Listed(T) \subseteq used', used \subseteq used', used' \subseteq Ids,
           UNCHANGED <<scope, initialized, chunks, starting, cancelling, revived>>
    PROVE  DownloadsInv'
<1>1. T = [id \in Ids |-> T[id]]
  OBVIOUS
<1>2. PICK K : Started(T, S, K)
  BY <1>1, PumpStarts
<1>3. stored' \in [Scopes -> SUBSET used']
  BY StateFacts DEF DL!Pump, DL!Persist
<1>4. acts' = acts + 1 /\ files' = files
  BY DEF DL!Act
<1>5. \A c \in cancelling : c.id \notin revived => T[c.id] = "none"
  BY StateFacts
<1>6. /\ \A i \in starting : i.scope \in Scopes /\ i.saved \subseteq used'
      /\ \A c \in cancelling : c.id \in used' /\ c.since \in Nat
  BY StateFacts
<1> QED
  BY <1>2, <1>3, <1>4, <1>5, <1>6, StateFacts, OthersStep

\* A download is asked for, paused and gone on with.
LEMMA EnqueueInv == ASSUME DownloadsInv, Size \in Nat, NEW R, DL!Enqueue(R) PROVE DownloadsInv'
<1> DEFINE old == {id \in DL!Listed(tasks) : ResourceOf[id] \in R}
           T(fresh) == [id \in Ids |-> IF id \in fresh \/ (id \in old /\ tasks[id] \in {"paused", "failed"})
                                       THEN "queued" ELSE tasks[id]]
<1>1. PICK fresh \in SUBSET (Ids \ used) : used' = used \cup fresh /\ DL!Pump(T(fresh), running)
  BY DEF DL!Enqueue
<1>2. /\ T(fresh) \in [Ids -> DL!Statuses \cup {"none"}] /\ DL!Listed(T(fresh)) \subseteq used'
      /\ used \subseteq used' /\ used' \subseteq Ids
  BY <1>1, StateFacts DEF DL!Listed, DL!Statuses
<1>3. \A c \in cancelling : tasks[c.id] = "none" => T(fresh)[c.id] = "none"
  BY <1>1, StateFacts
<1>4. DL!Act /\ UNCHANGED <<scope, initialized, chunks, starting, cancelling, revived>>
  BY DEF DL!Enqueue
<1> HIDE DEF T
<1> QED
  BY <1>1, <1>2, <1>3, <1>4, StateFacts, PumpInv

LEMMA PauseInv == ASSUME DownloadsInv, Size \in Nat, NEW id \in Ids, DL!Pause(id) \/ DL!Resume(id) PROVE DownloadsInv'
<1>1. PICK st \in {"paused", "queued"}, S \in {running, DL!Aborted(running, {id})} :
        DL!Pump([tasks EXCEPT ![id] = st], S)
  BY DEF DL!Pause, DL!Resume
<1> DEFINE T == [tasks EXCEPT ![id] = st]
<1>2. /\ tasks[id] # "none" /\ DL!Act /\ used' = used
      /\ UNCHANGED <<scope, initialized, chunks, starting, cancelling, revived>>
  BY DEF DL!Pause, DL!Resume
<1>3. /\ T \in [Ids -> DL!Statuses \cup {"none"}] /\ DL!Listed(T) \subseteq used
      /\ \A c \in cancelling : tasks[c.id] = "none" => T[c.id] = "none"
  BY <1>2, StateFacts DEF DL!Listed, DL!Statuses
<1>4. Fit(S) /\ \A q \in S : \E r \in running : Like(q, r)
  BY RunsFit, StateFacts
<1> HIDE DEF T
<1>5. DL!Pump(T, S)
  BY <1>1 DEF T
<1> QED
  BY <1>2, <1>3, <1>4, <1>5, StateFacts, PumpInv
\* The invariant holds at the start, and every step keeps it.
LEMMA DownloadsStart == ASSUME Size \in Nat, DL!Init PROVE DownloadsInv
<1>1. <<>> \in Seq(1..Size) /\ Len(<<>>) = 0
  BY NoSequence
<1>2. DL!Listed(tasks) = {} /\ tasks \in [Ids -> DL!Statuses \cup {"none"}]
  BY DEF DL!Init, DL!NoTasks, DL!Listed
<1>3. DL!TypeOK
  BY <1>1, <1>2 DEF DL!Init, DL!TypeOK
<1>4. DL!RunsApart
  BY <1>1, <1>2 DEF DL!Init, DL!RunsApart, DL!OneRun, DL!NamesAreUsed, DL!CancelledIsOut, DL!PiecesInOrder, DL!InOrder
<1> QED
  BY <1>3, <1>4 DEF DownloadsInv

LEMMA DownloadsStep == ASSUME DownloadsInv, Size \in Nat, [DL!Next]_(DL!vars) PROVE DownloadsInv'
<1>1. CASE UNCHANGED DL!vars
  BY <1>1 DEF DL!vars, DL!memory, DL!disk, DL!calls, DL!ghost, DL!bounds, DownloadsInv, DL!TypeOK, DL!RunsApart, DL!OneRun,
              DL!NamesAreUsed, DL!Listed, DL!CancelledIsOut, DL!PiecesInOrder, DL!InOrder, DL!GoesOn
<1>2. CASE DL!Member
  BY <1>2, LeaveInv, ReloadInv, InitializeInv, EnqueueInv, PauseInv, CancelsInv
     DEF DL!Member, DL!Cancel, DL!ClearQueue
<1>3. CASE \E i \in starting : DL!Initialized(i)
  BY <1>3, InitializedInv
<1>4. CASE \E c \in cancelling : DL!Cancelled(c)
  BY <1>4, CancelledInv
<1>5. CASE \E r \in running : DL!Step(r)
  BY <1>5, RunInv
<1>6. CASE DL!Fills
  BY <1>6 DEF DL!Fills, DL!memory, DL!disk, DL!calls, DownloadsInv, DL!TypeOK, DL!RunsApart, DL!OneRun,
              DL!NamesAreUsed, DL!Listed, DL!CancelledIsOut, DL!PiecesInOrder, DL!InOrder, DL!GoesOn
<1> QED
  BY <1>1, <1>2, <1>3, <1>4, <1>5, <1>6 DEF DL!Next

\* A task has one run at a time, and the runs and the chunks that are kept fit: the state has
\* its types, a cancelled task is out of the list until its chunks are cleared, and what is
\* kept of a task that was not brought back under way are its first pieces, in their order.
\* This is runTask, pump and cancel with every interruption the member, the server and the
\* storage make.
THEOREM DownloadsStaySound == ASSUME Size \in Nat PROVE DL!Spec => [](DL!TypeOK /\ DL!RunsApart)
<1>1. DL!Init => DownloadsInv
  BY DownloadsStart
<1>2. DownloadsInv /\ [DL!Next]_(DL!vars) => DownloadsInv'
  BY DownloadsStep
<1> QED
  BY <1>1, <1>2, PTL DEF DL!Spec, DownloadsInv

-----------------------------------------------------------------------------
(* The downloads implement Transfers                                        *)

Wanted(T) == {id \in Ids : T[id] \in {"queued", "downloading"}}

\* Downloads that are asked for, or stopped, are steps of Transfers.
LEMMA WantsOrStops ==
    ASSUME files' = files, Wanted(tasks) \subseteq Wanted(tasks)' \/ Wanted(tasks)' \subseteq Wanted(tasks)
    PROVE  [DL!Promise!Next]_<<Wanted(tasks), files>>
<1>1. PICK V : V = Wanted(tasks)'
  OBVIOUS
<1>2. PICK U : U = Wanted(tasks) \ V
  OBVIOUS
<1>3. V \in SUBSET Ids /\ U \in SUBSET Ids /\ (DL!Promise!Want(V) \/ DL!Promise!Stop(U))
  BY <1>1, <1>2 DEF DL!Promise!Want, DL!Promise!Stop, Wanted
<1>4. \E S \in SUBSET Ids : DL!Promise!Want(S) \/ DL!Promise!Stop(S)
  BY <1>3
<1> QED
  BY <1>4 DEF DL!Promise!Next

\* What is started was asked for.
LEMMA StartedWanted ==
    ASSUME NEW T, NEW S, NEW K, Started(T, S, K) PROVE Wanted(tasks)' = Wanted(T)
BY DEF Started, Wanted

\* Starting runs leaves what is wanted as it is.
LEMMA PumpWanted ==
    ASSUME NEW T, T = [id \in Ids |-> T[id]], NEW S, DL!Pump(T, S) PROVE Wanted(tasks)' = Wanted(T)
BY PumpStarts, StartedWanted

\* A run that stops ends what was wanted, and wants nothing else.
LEMMA StopsWanted ==
    ASSUME DownloadsInv, NEW r \in running, NEW T \in After(r), DL!Stops(r, T) \/ DL!Finish(r, T)
    PROVE  Wanted(tasks)' \subseteq Wanted(tasks)
<1>1. T = [id \in Ids |-> T[id]]
  BY AfterType
<1>2. Wanted(T) \subseteq Wanted(tasks)
  BY DEF After, Wanted, DownloadsInv, DL!TypeOK
<1>3. Wanted(tasks)' = Wanted(T)
  BY <1>1, PumpWanted DEF DL!Stops, DL!Finish, DL!Continue, Wanted
<1> QED
  BY <1>2, <1>3
\* A step of a run stops a download, delivers a whole file, or changes nothing that shows.
LEMMA RunImplements ==
    ASSUME DownloadsInv, Size \in Nat, NEW r \in running, DL!Step(r)
    PROVE  [DL!Promise!Next]_<<Wanted(tasks), files>>
<1>1. CASE DL!Saves(r)
  <2>1. r.id \in Ids /\ DL!isCurrent(r) /\ files \in [Ids -> Seq(1..Size)]
    BY <1>1, RunFacts DEF DL!Saves
  <2>2. tasks' = [tasks EXCEPT ![r.id] = "none"]
    BY <1>1 DEF DL!Saves
  <2>3. /\ tasks \in [Ids -> DL!Statuses \cup {"none"}]
        /\ r.id \in Wanted(tasks) /\ Wanted(tasks)' = Wanted(tasks) \ {r.id}
    BY <2>1, <2>2 DEF DL!isCurrent, Wanted, DownloadsInv, DL!TypeOK
  <2>4. CASE r.id \in revived
    <3>1. files' = files
      BY <1>1, <2>1, <2>4 DEF DL!Saves
    <3> QED
      BY <2>3, <3>1, WantsOrStops
  <2>5. CASE r.id \notin revived
    <3>1. files' = [files EXCEPT ![r.id] = DL!Promise!Whole]
      BY <1>1, <2>5, SavesWhole DEF DL!Saves
    <3>2. DL!Promise!Deliver(r.id)
      BY <2>3, <3>1 DEF DL!Promise!Deliver, Wanted
    <3>3. \E id \in Ids : DL!Promise!Deliver(id)
      BY <2>1, <3>2
    <3> QED
      BY <3>3 DEF DL!Promise!Next
  <2> QED
    BY <2>4, <2>5
<1>2. CASE ~DL!Saves(r)
  <2>1. files' = files
    BY <1>2 DEF DL!Step, DL!Superseded, DL!Counted, DL!Answers, DL!AnswersWhole, DL!AnswersOtherwise, DL!Unauthorized, DL!Fetched,
                DL!Restarts, DL!Opens, DL!Reads, DL!Puts, DL!Tidies, DL!Ends, DL!Fails
  <2>2. tasks' = tasks \/ \E T \in After(r) : DL!Stops(r, T) \/ DL!Finish(r, T)
    <3>1. DL!isCurrent(r) => [tasks EXCEPT ![r.id] = "failed"] \in After(r)
      BY RunFacts
    <3>2. tasks \in After(r)
      BY DEF After
    <3>3. CASE DL!Superseded(r) \/ DL!Ends(r)
      BY <3>2, <3>3 DEF DL!Superseded, DL!Ends
    <3>4. CASE \E wipe \in BOOLEAN : DL!Fails(r, wipe)
      BY <3>1, <3>4 DEF DL!Fails
    <3>5. CASE DL!Restarts(r)
      BY <3>1, <3>5 DEF DL!Restarts, DL!Same
    <3>6. CASE DL!Counted(r) \/ DL!Answers(r) \/ DL!AnswersWhole(r) \/ DL!AnswersOtherwise(r) \/ DL!Unauthorized(r)
               \/ DL!Opens(r) \/ DL!Reads(r) \/ DL!Puts(r) \/ DL!Tidies(r)
      BY <3>6 DEF DL!Counted, DL!Answers, DL!AnswersWhole, DL!AnswersOtherwise, DL!Unauthorized, DL!Fetched, DL!Opens,
                  DL!Reads, DL!Puts, DL!Tidies, DL!Same
    <3> QED
      BY <1>2, <3>3, <3>4, <3>5, <3>6 DEF DL!Step
  <2>3. Wanted(tasks)' \subseteq Wanted(tasks)
    BY <2>2, StopsWanted DEF Wanted
  <2> QED
    BY <2>1, <2>3, WantsOrStops
<1> QED
  BY <1>1, <1>2

\* What the member does asks for downloads or stops some.
LEMMA MemberImplements ==
    ASSUME DownloadsInv, DL!Member PROVE [DL!Promise!Next]_<<Wanted(tasks), files>>
<1>1. files' = files
  BY DEF DL!Member, DL!Leave, DL!ClearQueue, DL!Cancel, DL!Cancels, DL!Reload, DL!Initialize, DL!Enqueue, DL!Pause, DL!Resume, DL!Act
<1>2. CASE DL!Leave \/ DL!Reload \/ \E s \in Scopes : DL!Initialize(s)
  <2>1. Wanted(tasks)' = {}
    BY <1>2 DEF DL!Leave, DL!Reload, DL!Initialize, DL!NoTasks, Wanted
  <2> QED
    BY <1>1, <2>1, WantsOrStops
<1>3. CASE \E C : DL!Cancels(C)
  <2>1. Wanted(tasks)' \subseteq Wanted(tasks)
    BY <1>3 DEF DL!Cancels, DL!Without, Wanted
  <2> QED
    BY <1>1, <2>1, WantsOrStops
<1>4. ASSUME NEW R, DL!Enqueue(R) PROVE Wanted(tasks) \subseteq Wanted(tasks)'
  <2> DEFINE old == {id \in DL!Listed(tasks) : ResourceOf[id] \in R}
             T(fresh) == [id \in Ids |-> IF id \in fresh \/ (id \in old /\ tasks[id] \in {"paused", "failed"})
                                         THEN "queued" ELSE tasks[id]]
  <2>1. PICK fresh : DL!Pump(T(fresh), running)
    BY <1>4 DEF DL!Enqueue
  <2>2. T(fresh) = [id \in Ids |-> T(fresh)[id]] /\ Wanted(tasks) \subseteq Wanted(T(fresh))
    BY DEF Wanted
  <2> HIDE DEF T
  <2> QED
    BY <2>1, <2>2, PumpWanted
<1>5. ASSUME NEW id \in Ids, DL!Pause(id) \/ DL!Resume(id)
      PROVE  Wanted(tasks) \subseteq Wanted(tasks)' \/ Wanted(tasks)' \subseteq Wanted(tasks)
  <2>1. PICK st \in {"paused", "queued"}, S \in {running, DL!Aborted(running, {id})} :
                                    DL!Pump([tasks EXCEPT ![id] = st], S)
    BY <1>5 DEF DL!Pause, DL!Resume
  <2> DEFINE T == [tasks EXCEPT ![id] = st]
  <2>2. T = [i \in Ids |-> T[i]] /\ (Wanted(tasks) \subseteq Wanted(T) \/ Wanted(T) \subseteq Wanted(tasks))
    BY DEF Wanted, DownloadsInv, DL!TypeOK
  <2>3. DL!Pump(T, S)
    BY <2>1
  <2> HIDE DEF T
  <2> QED
    BY <2>2, <2>3, PumpWanted
<1> QED
  BY <1>1, <1>2, <1>3, <1>4, <1>5, WantsOrStops DEF DL!Member, DL!Cancel, DL!ClearQueue

\* Every step is one of Transfers, or changes nothing that it shows.
LEMMA StepImplements ==
    ASSUME DownloadsInv, Size \in Nat, [DL!Next]_(DL!vars)
    PROVE  [DL!Promise!Next]_<<Wanted(tasks), files>>
<1>1. CASE UNCHANGED DL!vars
  BY <1>1, WantsOrStops DEF DL!vars, DL!memory, DL!ghost, Wanted
<1>2. CASE DL!Member
  BY <1>2, MemberImplements
<1>3. ASSUME NEW i \in starting, DL!Initialized(i) PROVE [DL!Promise!Next]_<<Wanted(tasks), files>>
  <2>1. files' = files /\ (Wanted(tasks)' = {} \/ Wanted(tasks)' = Wanted(tasks))
    BY <1>3 DEF DL!Initialized, DL!Paused, Wanted
  <2> QED
    BY <2>1, WantsOrStops
<1>4. ASSUME NEW c \in cancelling, DL!Cancelled(c) PROVE [DL!Promise!Next]_<<Wanted(tasks), files>>
  <2>1. files' = files /\ (DL!Pump(tasks, running) \/ tasks' = tasks)
    BY <1>4 DEF DL!Cancelled
  <2>2. Wanted(tasks)' = Wanted(tasks)
    BY <2>1, StateFacts, PumpWanted DEF Wanted
  <2> QED
    BY <2>1, <2>2, WantsOrStops
<1>5. CASE \E r \in running : DL!Step(r)
  BY <1>5, RunImplements
<1>6. CASE DL!Fills
  BY <1>6, WantsOrStops DEF DL!Fills, DL!memory, Wanted
<1> QED
  BY <1>1, <1>2, <1>3, <1>4, <1>5, <1>6 DEF DL!Next

\* The download manager implements Transfers: a file is saved only of a download that was
\* asked for and neither paused, cancelled nor left since, once, and whole.
THEOREM DownloadsDeliver == ASSUME Size \in Nat PROVE DL!Spec => DL!Delivers
<1>1. DL!Init => DL!Promise!Init
  BY DEF DL!Init, DL!NoTasks, DL!Promise!Init
<1>2. DL!Init => DownloadsInv
  BY DownloadsStart
<1>3. DownloadsInv /\ [DL!Next]_(DL!vars) => DownloadsInv'
  BY DownloadsStep
<1>4. DownloadsInv /\ [DL!Next]_(DL!vars) => [DL!Promise!Next]_<<Wanted(tasks), files>>
  BY StepImplements
<1> QED
  BY <1>1, <1>2, <1>3, <1>4, PTL DEF DL!Spec, DL!Delivers, DL!Promise!Spec, Wanted

-----------------------------------------------------------------------------
(* The resource library, by the names of its module.  A request whose       *)
(* context is the one it captured is for the group that is open, with its   *)
(* session; of the others none is still on its way.  So what they bring, or *)
(* change, is of that group.                                                *)

group    == s1
library  == s2
lists    == s3
graph    == s4
ticked   == s6
dialogs  == s7
filter   == s5
loading  == s8
refreshing == s9
batchBusy == s10
renaming == s11
changing == s12
confirming == s13
requests == s14
USE DEF group, library, lists, graph, filter, ticked, dialogs, loading, refreshing, batchBusy, renaming,
        changing, confirming, requests

Operations == GO!Dialogs \cup {"load", "refresh", "filter", "sharing", "preview", "batchCategory",
                               "rename", "remove", "download"}
Stages     == {"lists", "graph", "app", "read", "api"}
Request == [op : Operations, g : Groups, stage : Stages, at : Groups,
            ph : {"sent", "ok", "error", "asked"}, v : Nat, f : GO!Choices \cup {None},
            cur : BOOLEAN, lnew : BOOLEAN, gnew : BOOLEAN]

OfSession(c, g) == IF c.cur THEN c.g = g /\ c.at = g ELSE c.ph # "sent"
AreOf(S, g)     == S \subseteq Request /\ \A c \in S : OfSession(c, g)

GovernanceInv == GO!TypeOK /\ GO!GovernanceOfGroup /\ AreOf(requests, group)

\* What a request for the group that is open goes on with is of that group too.
LEMMA StageOf ==
    ASSUME group \in Groups, NEW c \in Request, c.cur, OfSession(c, group),
           NEW s \in Stages
    PROVE  /\ GO!Stage(c, s) \in Request /\ OfSession(GO!Stage(c, s), group)
           /\ GO!Stage(c, s).op = c.op
BY DEF Request, OfSession, GO!Stage

\* The three lists, and the graph, are asked for by requests of the group that is open.
LEMMA ListsAsked ==
    ASSUME group \in Groups, NEW c \in Request, c.cur, OfSession(c, group),
           NEW S, AreOf(S, group), GO!LoadLists(c, S)
    PROVE  AreOf(requests', group)
<1>1. \A d \in S : [d EXCEPT !.lnew = FALSE] \in Request /\ OfSession([d EXCEPT !.lnew = FALSE], group)
  BY DEF AreOf, Request, OfSession
<1> DEFINE d == GO!Stage(c, "lists")
<1>2. d \in Request /\ OfSession(d, group)
  BY StageOf DEF Stages
<1> HIDE DEF d
<1>3. [d EXCEPT !.lnew = TRUE] \in Request /\ OfSession([d EXCEPT !.lnew = TRUE], group)
  BY <1>2 DEF Request, OfSession
<1> QED
  BY <1>1, <1>3 DEF GO!LoadLists, AreOf, d

LEMMA GraphAsked ==
    ASSUME group \in Groups, NEW c \in Request, c.cur, OfSession(c, group),
           NEW S, AreOf(S, group), NEW f \in GO!Choices, GO!LoadGraph(c, S, f)
    PROVE  AreOf(requests', group) /\ filter' \in GO!Choices
<1>1. \A d \in S : [d EXCEPT !.gnew = FALSE] \in Request /\ OfSession([d EXCEPT !.gnew = FALSE], group)
  BY DEF AreOf, Request, OfSession
<1> DEFINE d == GO!Stage(c, "graph")
<1>2. d \in Request /\ OfSession(d, group)
  BY StageOf DEF Stages
<1> HIDE DEF d
<1>3. filter' \in GO!Choices
  BY DEF GO!LoadGraph, GO!Choices
<1>4. \A k \in GO!Choices : [d EXCEPT !.gnew = TRUE, !.f = k] \in Request
                            /\ OfSession([d EXCEPT !.gnew = TRUE, !.f = k], group)
  BY <1>2 DEF Request, OfSession
<1>5. requests' = {[e EXCEPT !.gnew = FALSE] : e \in S} \cup {[d EXCEPT !.gnew = TRUE, !.f = filter']}
  BY DEF GO!LoadGraph, d
<1> QED
  BY <1>1, <1>3, <1>4, <1>5 DEF AreOf

\* A call of the group that is open, or for its resources.
LEMMA CallOf ==
    ASSUME group \in Groups, NEW op \in Operations, NEW stage \in Stages
    PROVE  LET c == GO!Call(op, stage) IN
           /\ c \in Request /\ OfSession(c, group) /\ c.g = group /\ c.cur
           /\ [c EXCEPT !.g = group] = c
<1> DEFINE c == GO!Call(op, stage)
<1>1. c \in Request /\ OfSession(c, group) /\ c.g = group /\ c.cur
  BY DEF GO!Call, Request, OfSession
<1> HIDE DEF c
<1>2. [c EXCEPT !.g = group] = c
  BY <1>1 DEF Request
<1> QED
  BY <1>1, <1>2 DEF c

\* The invariant holds at the start.
LEMMA GovernanceStart == ASSUME Groups # {}, GO!Init PROVE GovernanceInv
<1>1. group \in Groups
  BY DEF GO!Init
<1>2. AreOf(requests, group)
  <2> DEFINE c == GO!Call("load", "lists")
  <2>1. c \in Request /\ OfSession(c, group)
    BY <1>1, CallOf DEF Operations, Stages
  <2> HIDE DEF c
  <2>2. [c EXCEPT !.lnew = TRUE] \in Request /\ OfSession([c EXCEPT !.lnew = TRUE], group)
    BY <2>1 DEF Request, OfSession
  <2> QED
    BY <2>2 DEF GO!Init, AreOf, c
<1> QED
  BY <1>1, <1>2 DEF GO!Init, GO!Choices, GO!Types, GovernanceInv, GO!TypeOK, GO!GovernanceOfGroup, GO!NoLists, GO!NoGraph, GO!NoTicks, GO!Closed

\* What a dialog saves is sent for the group it was opened in.
LEMMA DialogSaved ==
    ASSUME GovernanceInv, None \notin Groups, NEW d \in GO!Dialogs, GO!Saves(d, d)
    PROVE  AreOf(requests', group)
<1>1. dialogs[d] = group /\ group \in Groups
  BY DEF GO!Saves, GovernanceInv, GO!GovernanceOfGroup, GO!TypeOK
<1>2. GO!Call(d, "api") \in Request /\ OfSession(GO!Call(d, "api"), group) /\ [GO!Call(d, "api") EXCEPT !.g = group] = GO!Call(d, "api")
  BY <1>1, CallOf DEF Operations, Stages
<1> QED
  BY <1>1, <1>2 DEF GO!Saves, GovernanceInv, AreOf

\* Choices within one group keep the invariant.
LEMMA GovernanceLocal ==
    ASSUME GovernanceInv, GO!refreshResources \/ GO!setResourceDownloads \/ GO!openShare \/ GO!importNext
    PROVE  GovernanceInv'
<1> USE DEF GovernanceInv, GO!TypeOK, GO!GovernanceOfGroup, GO!shown, GO!forms, GO!ghost, GO!busy, AreOf
<1>1. CASE GO!refreshResources
  BY <1>1, CallOf DEF Operations, Stages, GO!refreshResources, GO!Act
<1>2. CASE GO!setResourceDownloads
  BY <1>2, CallOf DEF Operations, Stages, GO!setResourceDownloads, GO!Act
<1>3. CASE GO!openShare
  BY <1>3, CallOf DEF Operations, Stages, GO!openShare, GO!Reads, GO!Act
<1>4. CASE GO!importNext
  BY <1>4, CallOf DEF Operations, Stages, GO!importNext, GO!Reads, GO!Act
<1> QED
  BY <1>1, <1>2, <1>3, <1>4

\* The selection and the dialogs.
LEMMA GovernanceForms ==
    ASSUME GovernanceInv,
           \/ GO!setAssetSelected \/ GO!setSharedSelected \/ GO!clearAssetSelection \/ GO!Opens
           \/ \E d \in GO!Dialogs : GO!Dismiss(d)
    PROVE  GovernanceInv'
<1> USE DEF GovernanceInv, GO!TypeOK, GO!GovernanceOfGroup, GO!shown, GO!forms, GO!ghost, GO!busy, AreOf
<1>1. CASE GO!setAssetSelected \/ GO!setSharedSelected \/ GO!clearAssetSelection
  BY <1>1 DEF GO!setAssetSelected, GO!setSharedSelected, GO!clearAssetSelection, GO!Ticked, GO!Act, GO!Ticks
<1>2. CASE GO!Opens
  <2>1. /\ \E d \in GO!Dialogs, g \in {None, group} : GO!OpenDialog(d, g)
        /\ confirming' \in BOOLEAN
    BY <1>2 DEF GO!Opens, GO!openBatchShare, GO!openBatchDelete, GO!openBatchImport, GO!openCategoryDialog,
                GO!openImport, GO!OpenBatch, GO!ListOf, GO!Ticks, GO!Dialogs
  <2> QED
    BY <1>2, <2>1 DEF GO!Opens, GO!Act, GO!OpenDialog
<1>3. ASSUME NEW d \in GO!Dialogs, GO!Dismiss(d) PROVE GovernanceInv'
  BY <1>3 DEF GO!Dismiss, GO!OpenDialog
<1> QED
  BY <1>1, <1>2, <1>3

\* What is saved, is saved for the resources of its dialog, or those that are ticked.
LEMMA GovernanceSaves ==
    ASSUME GovernanceInv, None \notin Groups,
           \/ GO!saveShare \/ GO!saveBatchShare \/ GO!confirmBatchDelete \/ GO!confirmBatchImport
           \/ GO!confirmImport \/ GO!saveAssetCategory
    PROVE  GovernanceInv'
<1>1. CASE GO!saveShare \/ GO!saveBatchShare \/ GO!confirmBatchDelete \/ GO!confirmBatchImport \/ GO!confirmImport
  <2>1. PICK d \in GO!Dialogs : GO!Saves(d, d)
    BY <1>1 DEF GO!saveShare, GO!saveBatchShare, GO!confirmBatchDelete, GO!confirmBatchImport, GO!confirmImport,
                GO!SaveBatch, GO!Dialogs
  <2>2. AreOf(requests', group)
    BY <2>1, DialogSaved
  <2>3. {batchBusy, changing, confirming}' \subseteq BOOLEAN
    BY <1>1 DEF GovernanceInv, GO!TypeOK, GO!saveShare, GO!saveBatchShare, GO!confirmBatchDelete,
                GO!confirmBatchImport, GO!confirmImport, GO!SaveBatch
  <2> QED
    BY <2>1, <2>2, <2>3 DEF GO!Saves, GO!Act, GovernanceInv, GO!TypeOK, GO!GovernanceOfGroup, GO!shown, GO!forms
<1>2. CASE GO!saveAssetCategory
  <2>1. CASE GO!Saves("category", "category") /\ changing' = TRUE /\ UNCHANGED <<batchBusy, confirming>>
    <3>1. AreOf(requests', group)
      BY <2>1, DialogSaved DEF GO!Dialogs
    <3> QED
      BY <2>1, <3>1 DEF GO!Saves, GO!Act, GovernanceInv, GO!TypeOK, GO!GovernanceOfGroup, GO!shown, GO!forms
  <2>2. CASE ~(GO!Saves("category", "category") /\ changing' = TRUE /\ UNCHANGED <<batchBusy, confirming>>)
    <3>1. /\ changing' = TRUE /\ batchBusy' = TRUE /\ GO!Act /\ ticked["owned"] # None
          /\ requests' = requests \cup {[GO!Call("batchCategory", "api") EXCEPT !.g = ticked["owned"]]}
          /\ GO!OpenDialog("category", ticked["owned"])
          /\ UNCHANGED <<group, GO!shown, filter, ticked, loading, refreshing, renaming, confirming>>
      BY <1>2, <2>2 DEF GO!saveAssetCategory
    <3>2. ticked["owned"] = group /\ group \in Groups
      BY <3>1 DEF GovernanceInv, GO!GovernanceOfGroup, GO!TypeOK, GO!Ticks
    <3>3. AreOf(requests', group)
      BY <3>1, <3>2, CallOf DEF GovernanceInv, AreOf, Operations, Stages
    <3> QED
      BY <3>1, <3>2, <3>3 DEF GO!OpenDialog, GO!Act, GovernanceInv, GO!TypeOK, GO!GovernanceOfGroup, GO!shown
  <2> QED
    BY <2>1, <2>2
<1> QED
  BY <1>1, <1>2

\* A question, and its answer, which the other context does not get.
LEMMA GovernanceAsks ==
    ASSUME GovernanceInv,
           \/ \E op \in {"rename", "remove"} : GO!Ask(op)
           \/ \E f \in GO!Choices : GO!SetFilter(f)
           \/ \E t \in GO!Types : GO!SetType(t)
           \/ \E c \in requests : GO!Answer(c)
    PROVE  GovernanceInv'
<1> USE DEF GovernanceInv, GO!TypeOK, GO!GovernanceOfGroup, GO!shown, GO!forms, GO!busy
<1>1. ASSUME NEW op \in {"rename", "remove"}, GO!Ask(op) PROVE GovernanceInv'
  <2> DEFINE c == GO!Call(op, "api")
  <2>1. c \in Request /\ OfSession(c, group) /\ c.cur
    BY CallOf DEF Operations, Stages
  <2>2. requests' = {d \in requests : d.ph # "asked"} \cup {[c EXCEPT !.ph = "asked"]} /\ GO!Act /\ UNCHANGED <<group, GO!shown, GO!forms, GO!busy>>
    BY <1>1 DEF GO!Ask
  <2> HIDE DEF c
  <2>3. [c EXCEPT !.ph = "asked"] \in Request /\ OfSession([c EXCEPT !.ph = "asked"], group)
    BY <2>1 DEF Request, OfSession
  <2>4. AreOf(requests', group)
    BY <2>2, <2>3 DEF AreOf
  <2> QED
    BY <2>2, <2>4 DEF GO!Act
<1>2. ASSUME NEW f \in GO!Choices, GO!SetFilter(f) PROVE GovernanceInv'
  <2> DEFINE c == GO!Call("filter", "graph")
  <2>1. c \in Request /\ OfSession(c, group) /\ c.cur
    BY CallOf DEF Operations, Stages
  <2>2. GO!LoadGraph(c, requests, f)
    BY <1>2 DEF GO!SetFilter
  <2> HIDE DEF c
  <2>3. AreOf(requests', group) /\ filter' \in GO!Choices
    BY <2>1, <2>2, GraphAsked
  <2> QED
    BY <1>2, <2>3 DEF GO!SetFilter, GO!Act
<1>3. ASSUME NEW c \in requests, GO!Answer(c) PROVE GovernanceInv'
  <2>1. c.cur => GO!Stage(c, "api") \in Request /\ OfSession(GO!Stage(c, "api"), group)
    BY StageOf DEF AreOf, Stages
  <2>2. AreOf(requests', group)
    BY <1>3, <2>1 DEF GO!Answer, AreOf, GO!OtherCalls, GO!Stands
  <2>3. renaming' \in BOOLEAN
    BY <1>3 DEF GO!Answer
  <2> QED
    BY <1>3, <2>2, <2>3 DEF GO!Answer
<1>4. ASSUME NEW t \in GO!Types, GO!SetType(t) PROVE GovernanceInv'
  <2>1. filter' \in GO!Choices
    BY <1>4 DEF GO!SetType, GO!Choices
  <2> QED
    BY <1>4, <2>1 DEF GO!SetType, GO!Act, AreOf
<1> QED
  BY <1>1, <1>2, <1>3, <1>4

\* Another group is opened: what is still on its way ends with the session.
LEMMA GovernanceSwitch ==
    ASSUME GovernanceInv, NEW g \in Groups, GO!Switch(g) PROVE GovernanceInv'
<1> DEFINE Ended(c) == [c EXCEPT !.cur = FALSE, !.lnew = FALSE, !.gnew = FALSE, !.f = None,
                                 !.ph = IF @ = "sent" THEN "error" ELSE @]
           d == GO!Call("load", "lists")
<1>1. \A c \in requests : Ended(c) \in Request /\ OfSession(Ended(c), g)
  BY DEF GovernanceInv, AreOf, Request, OfSession
<1>2. d \in Request
  BY CallOf DEF GovernanceInv, GO!TypeOK, Operations, Stages
<1>3. requests' = {Ended(c) : c \in requests} \cup {[d EXCEPT !.g = g, !.at = g, !.lnew = TRUE]}
  BY DEF GO!Switch
<1>4. d.cur
  BY DEF GO!Call
<1> HIDE DEF Ended, d
<1>5. [d EXCEPT !.g = g, !.at = g, !.lnew = TRUE] \in Request /\ OfSession([d EXCEPT !.g = g, !.at = g, !.lnew = TRUE], g)
  BY <1>2, <1>4 DEF Request, OfSession
<1>6. group' = g /\ AreOf(requests', g)
  <2>1. group' = g
    BY DEF GO!Switch
  <2>2. AreOf({Ended(c) : c \in requests} \cup {[d EXCEPT !.g = g, !.at = g, !.lnew = TRUE]}, g)
    BY <1>1, <1>5 DEF AreOf
  <2> QED
    BY <1>3, <2>1, <2>2
<1> QED
  BY <1>6 DEF GovernanceInv, GO!TypeOK, GO!GovernanceOfGroup, GO!Switch, GO!Act, GO!NoLists, GO!NoGraph, GO!NoTicks,
              GO!Closed, GO!Ticks, GO!Dialogs

\* The server answers, or the network fails.
LEMMA GovernanceServer ==
    ASSUME GovernanceInv,
           \/ \E c \in requests : GO!ServeRead(c) \/ GO!ServeChange(c) \/ GO!Lost(c)
           \/ \E g \in Groups : GO!OtherChanges(g)
    PROVE  GovernanceInv'
<1>1. ASSUME NEW c \in requests, NEW ph \in {"ok", "error"}, NEW v \in Nat, GO!Answered(c, ph, v),
             library' \in [Groups -> Nat]
      PROVE  GovernanceInv'
  <2>1. [c EXCEPT !.ph = ph, !.v = v] \in Request /\ OfSession([c EXCEPT !.ph = ph, !.v = v], group)
    BY DEF GovernanceInv, AreOf, Request, OfSession
  <2>2. AreOf(requests', group)
    BY <1>1, <2>1 DEF GO!Answered, GO!OtherCalls, GovernanceInv, AreOf
  <2> QED
    BY <1>1, <2>2 DEF GO!Answered, GO!shown, GO!forms, GO!busy, GovernanceInv, GO!TypeOK, GO!GovernanceOfGroup
<1>2. ASSUME NEW c \in requests, GO!ServeRead(c) PROVE GovernanceInv'
  <2>1. c.at \in Groups /\ library \in [Groups -> Nat]
    BY DEF GovernanceInv, AreOf, Request, GO!TypeOK
  <2>2. library' = library /\ \E v \in Nat : GO!Answered(c, "ok", v)
    BY <1>2, <2>1 DEF GO!ServeRead
  <2> QED
    BY <1>1, <2>1, <2>2
<1>3. ASSUME NEW c \in requests, GO!ServeChange(c) PROVE GovernanceInv'
  <2>1. c.g \in Groups /\ library \in [Groups -> Nat]
    BY DEF GovernanceInv, AreOf, Request, GO!TypeOK
  <2>2. library' \in [Groups -> Nat] /\ \E ph \in {"ok", "error"}, v \in Nat : GO!Answered(c, ph, v)
    BY <1>3, <2>1 DEF GO!ServeChange
  <2> QED
    BY <1>1, <2>1, <2>2
<1>4. ASSUME NEW c \in requests, GO!Lost(c) PROVE GovernanceInv'
  <2>1. c.g \in Groups /\ library \in [Groups -> Nat]
    BY DEF GovernanceInv, AreOf, Request, GO!TypeOK
  <2>2. library' \in [Groups -> Nat] /\ GO!Answered(c, "error", 0)
    BY <1>4, <2>1 DEF GO!Lost
  <2> QED
    BY <1>1, <2>1, <2>2
<1>5. ASSUME NEW g \in Groups, GO!OtherChanges(g) PROVE GovernanceInv'
  BY <1>5 DEF GO!OtherChanges, GovernanceInv, GO!TypeOK, GO!GovernanceOfGroup, AreOf, GO!shown, GO!forms, GO!busy
<1> QED
  BY <1>2, <1>3, <1>4, <1>5

\* An answer is used by the context that asked only.
LEMMA GovernanceAnswers ==
    ASSUME GovernanceInv, NEW c \in requests,
           \/ GO!Dropped(c) \/ GO!SharingRead(c) \/ GO!Changed(c) \/ GO!AppReloaded(c)
           \/ GO!ListsDone(c) \/ GO!ListsFail(c) \/ GO!GraphDone(c)
    PROVE  GovernanceInv'
<1>1. /\ group \in Groups /\ c \in Request /\ OfSession(c, group) /\ AreOf(requests, group)
      /\ AreOf(GO!OtherCalls(c), group) /\ filter \in GO!Choices
  BY DEF GovernanceInv, AreOf, GO!TypeOK, GO!OtherCalls
<1>2. ASSUME GO!Released(c)
      PROVE  {refreshing, batchBusy, renaming, changing, confirming}' \subseteq BOOLEAN
  BY <1>2 DEF GO!Released, GovernanceInv, GO!TypeOK
<1>3. CASE GO!Dropped(c)
  BY <1>1, <1>2, <1>3 DEF GO!Dropped, GO!Ends, GO!Page, GO!shown, GO!forms, GovernanceInv, GO!TypeOK, GO!GovernanceOfGroup
<1>4. CASE GO!SharingRead(c)
  <2>1. \A d \in GO!Dialogs : dialogs'[d] \in {None, group}
    BY <1>1, <1>4 DEF GO!SharingRead, GO!Current, OfSession, GovernanceInv, GO!TypeOK, GO!GovernanceOfGroup
  <2>2. dialogs' \in [GO!Dialogs -> Groups \cup {None}]
    BY <1>1, <1>4 DEF GO!SharingRead, Request, GovernanceInv, GO!TypeOK
  <2> QED
    BY <1>1, <1>2, <1>4, <2>1, <2>2 DEF GO!SharingRead, GO!Ends, GO!Page, GO!shown, GovernanceInv, GO!TypeOK, GO!GovernanceOfGroup
<1>5. CASE GO!Changed(c)
  <2>1. c.cur
    BY <1>5 DEF GO!Changed
  <2>2. ASSUME c.op \in {"share", "batchShare"} PROVE AreOf(requests', group) /\ loading' \in BOOLEAN
    <3>1. GO!LoadLists(c, GO!OtherCalls(c))
      BY <1>5, <2>2, Zenon DEF GO!Changed
    <3> QED
      BY <1>1, <2>1, <3>1, ListsAsked DEF GO!LoadLists
  <2>3. ASSUME c.op \notin {"share", "batchShare"} PROVE AreOf(requests', group) /\ loading' \in BOOLEAN
    <3>1. requests' = GO!OtherCalls(c) \cup {GO!Stage(c, "app")} /\ loading' = loading
      BY <1>5, <2>3 DEF GO!Changed
    <3> QED
      BY <1>1, <2>1, <3>1, StageOf DEF AreOf, Stages, GovernanceInv, GO!TypeOK
  <2>4. /\ ticked' \in [GO!Ticks -> Groups \cup {None}] /\ dialogs' \in [GO!Dialogs -> Groups \cup {None}]
        /\ \A s \in GO!Ticks : ticked'[s] \in {None, group}
        /\ \A d \in GO!Dialogs : dialogs'[d] \in {None, group}
    BY <1>5 DEF GO!Changed, GovernanceInv, GO!TypeOK, GO!GovernanceOfGroup
  <2> QED
    BY <1>1, <1>5, <2>2, <2>3, <2>4 DEF GO!Changed, GO!Page, GO!shown, GovernanceInv, GO!TypeOK, GO!GovernanceOfGroup
<1>6. CASE GO!AppReloaded(c)
  <2>1. CASE c.op = "download"
    BY <1>1, <1>2, <1>6, <2>1 DEF GO!AppReloaded, GO!Ends, GO!Page, GO!shown, GO!forms, GovernanceInv, GO!TypeOK, GO!GovernanceOfGroup
  <2>2. CASE c.op # "download"
    <3>1. GO!LoadLists(c, GO!OtherCalls(c)) /\ c.cur
      BY <1>6, <2>2 DEF GO!AppReloaded
    <3>2. AreOf(requests', group) /\ loading' = TRUE
      BY <1>1, <3>1, ListsAsked DEF GO!LoadLists
    <3> QED
      BY <1>6, <2>2, <3>2 DEF GO!AppReloaded, GO!Page, GO!shown, GO!forms, GovernanceInv, GO!TypeOK, GO!GovernanceOfGroup
  <2> QED
    BY <2>1, <2>2
<1>7. CASE GO!ListsDone(c)
  <2>1. AreOf(requests', group) /\ filter' \in GO!Choices
    BY <1>1, <1>7, GraphAsked DEF GO!ListsDone, GO!Newest
  <2>2. lists'.g = group
    BY <1>1, <1>7 DEF GO!ListsDone, GO!Newest, OfSession
  <2> QED
    BY <1>1, <1>7, <2>1, <2>2 DEF GO!ListsDone, GO!Page, GO!forms, GO!busy, GovernanceInv, GO!TypeOK, GO!GovernanceOfGroup
<1>8. CASE GO!ListsFail(c)
  BY <1>1, <1>2, <1>8 DEF GO!ListsFail, GO!Ends, GO!Page, GO!shown, GO!forms, GovernanceInv, GO!TypeOK, GO!GovernanceOfGroup
<1>9. CASE GO!GraphDone(c)
  <2>1. graph'.g \in {None, group}
    BY <1>1, <1>9 DEF GO!GraphDone, GO!LastAsked, OfSession, GO!NoGraph, GovernanceInv, GO!GovernanceOfGroup
  <2> QED
    BY <1>1, <1>2, <1>9, <2>1 DEF GO!GraphDone, GO!Ends, GO!Page, GO!forms, GovernanceInv, GO!TypeOK, GO!GovernanceOfGroup
<1> QED
  BY <1>3, <1>4, <1>5, <1>6, <1>7, <1>8, <1>9

\* Every step keeps the invariant.
LEMMA GovernanceStep ==
    ASSUME GovernanceInv, None \notin Groups, [GO!Next]_(GO!vars) PROVE GovernanceInv'
<1>1. CASE UNCHANGED GO!vars
  BY <1>1 DEF GO!vars, GO!shown, GO!forms, GO!busy, GovernanceInv, GO!TypeOK, GO!GovernanceOfGroup, AreOf
<1> QED
  BY <1>1, GovernanceLocal, GovernanceForms, GovernanceSaves, GovernanceAsks, GovernanceSwitch, GovernanceServer,
     GovernanceAnswers DEF GO!Next, GO!Local

\* A change is sent with the session of the group it is of.
LEMMA SentInGroup == GovernanceInv => GO!ChangesStayInGroup
BY DEF GovernanceInv, AreOf, OfSession, GO!ChangesStayInGroup

-----------------------------------------------------------------------------
(* The members and study groups of the administration, by the names of      *)
(* their module.  Only one load counts, and it is of the open group; what   *)
(* it brings, or is still to bring, are the members and administrators the  *)
(* server has, unless a change of them was answered and not yet read again. *)

exists            == s1
names             == s2
memberOf          == s3
adminOf           == s4
accounts          == s5
current           == s6
members           == s7
admins            == s8
groupEditName     == s9
memberConflict    == s10
memberSaving      == s11
resettingMemberID == s12
dialog            == s13
asked             == s14
unsure            == s15
USE DEF exists, names, memberOf, adminOf, accounts, current, members, admins, groupEditName, memberConflict,
        memberSaving, resettingMemberID, dialog, asked, unsure

Orders   == {"group", "rename", "password", "create", "add", "promote", "demote", "delete", "remove", "reset"}
Found    == [members : SUBSET Users, admins : SUBSET Users, g : Groups \cup {None}]
Order    == [op : Orders \cup {"load"}, g : Groups \cup {None}, u : Users \cup {None},
             at : Groups \cup {None}, name : Groups \cup {None}, latest : BOOLEAN,
             ph : {"sent", "ok", "error", "exists"}, ans : Found]
Question == [op : {"delete", "remove", "reset", "created"}, g : Groups \cup {None}, u : Users \cup {None}]

OfCurrent(f)  == /\ current \in exists /\ f.g = current
                 /\ f.members = memberOf[current] /\ f.admins = adminOf[current]
UpToDate      == current = None \/ OfCurrent([members |-> members, admins |-> admins, g |-> current])
ToBeRead      == \E c \in asked : GA!Reloads(c) /\ c.ph = "ok"
Counting(S)   == {c \in S : c.op = "load" /\ c.latest}

GroupTypes ==
    /\ GA!TypeOK /\ accounts \subseteq Users
    /\ memberOf \in [Groups -> SUBSET Users] /\ adminOf \in [Groups -> SUBSET Users]
    /\ asked \subseteq Order /\ dialog \in Question \cup {GA!Quiet} /\ unsure \in BOOLEAN

OrdersFit ==
    \A c \in asked :
        /\ c.op = "load" => c.u = None
        /\ c.op = "create" => c.u \in Users
        /\ c.op = "rename" => c.name = c.g

LoadsFit ==
    /\ \A c, d \in Counting(asked) : c = d
    /\ \A c \in Counting(asked) :
          /\ c.g = current /\ c.ans.g \in {c.g, None} /\ (c.ph \in {"sent", "ok"} \/ unsure)
          /\ c.ph = "ok" => unsure \/ ToBeRead \/ c.ans.g = None \/ OfCurrent(c.ans)
    /\ unsure \/ ToBeRead \/ UpToDate \/ \E c \in Counting(asked) : c.ph \in {"sent", "ok"}

LocksHeld ==
    /\ memberSaving => \E c \in asked : c.op \in {"create", "add"}
    /\ resettingMemberID # None => \E c \in asked : c.op = "reset"

GroupsInv ==
    /\ GroupTypes /\ GA!GroupNamesAreOwn /\ groupEditName = current /\ GA!AskedOfOpenGroup
    /\ OrdersFit /\ LoadsFit /\ LocksHeld

\* The invariant holds at the start.
LEMMA GroupsStart ==
    ASSUME ConstantsAssumption, GA!Init PROVE GroupsInv
<1>1. PICK g \in MinistryGroups, own \in SUBSET Users :
        /\ current = g /\ memberOf = [h \in Groups |-> IF h = g THEN own ELSE {}]
        /\ members = own
        /\ \E more \in SUBSET (Users \ own) : accounts = own \cup more
  BY DEF GA!Init
<1>2. /\ exists = MinistryGroups /\ names = [h \in Groups |-> h] /\ adminOf = [h \in Groups |-> {}]
      /\ admins = {} /\ groupEditName = current /\ memberConflict = None /\ memberSaving = FALSE
      /\ resettingMemberID = None /\ dialog = GA!Quiet /\ asked = {} /\ unsure = FALSE
  BY DEF GA!Init
<1>3. GroupTypes
  BY <1>1, <1>2 DEF GroupTypes, GA!TypeOK, ConstantsAssumption
<1>4. UpToDate /\ OrdersFit /\ LoadsFit /\ LocksHeld
  BY <1>1, <1>2 DEF UpToDate, OfCurrent, OrdersFit, LoadsFit, LocksHeld, Counting, ConstantsAssumption
<1>5. GA!AskedOfOpenGroup /\ GA!GroupNamesAreOwn
  BY <1>2 DEF GA!AskedOfOpenGroup, GA!GroupNamesAreOwn, GA!Quiet, ConstantsAssumption
<1> QED
  BY <1>2, <1>3, <1>4, <1>5 DEF GroupsInv

\* An order is sent, or a question is asked or answered, while the server and the page stay
\* as they are.
LEMMA OrderSent ==
    ASSUME GroupsInv, UNCHANGED <<exists, names, memberOf, adminOf, accounts, current, members, admins, groupEditName, unsure>>,
           NEW S \in SUBSET Order, asked' = asked \cup S,
           \A c \in S : /\ c.op # "load" /\ c.ph = "sent" /\ (c.op = "create" => c.u \in Users)
                        /\ (c.op = "rename" => c.name = c.g),
           dialog' \in Question \cup {GA!Quiet}, GA!AskedOfOpenGroup',
           memberConflict' \in Users \cup {None}, memberSaving' \in BOOLEAN,
           resettingMemberID' \in Users \cup {None},
           memberSaving' => memberSaving \/ \E c \in S : c.op \in {"create", "add"},
           resettingMemberID' # None => resettingMemberID # None \/ \E c \in S : c.op = "reset"
    PROVE  GroupsInv'
<1>1. GroupTypes' /\ GA!GroupNamesAreOwn' /\ groupEditName' = current'
  BY DEF GroupsInv, GroupTypes, GA!TypeOK, GA!GroupNamesAreOwn, GA!Quiet
<1>2. OrdersFit' /\ LocksHeld'
  BY DEF GroupsInv, OrdersFit, LocksHeld
<1>3. /\ Counting(asked)' = Counting(asked)
      /\ ToBeRead => ToBeRead'
      /\ UpToDate => UpToDate'
      /\ \A f : OfCurrent(f) => OfCurrent(f)'
  BY DEF Counting, ToBeRead, UpToDate, OfCurrent, GA!Reloads
<1>4. LoadsFit'
  BY <1>3 DEF GroupsInv, LoadsFit
<1> QED
  BY <1>1, <1>2, <1>4 DEF GroupsInv

\* What the administrator sends is of the open group.
LEMMA CallFits ==
    ASSUME NEW op \in Orders, NEW g \in Groups \cup {None}, NEW u \in Users \cup {None},
           current \in Groups \cup {None}
    PROVE  LET c == GA!Call(op, g, u) IN
           c \in Order /\ c.op = op /\ c.g = g /\ c.u = u /\ c.ph = "sent"
<1>1. op # "load"
  BY DEF Orders
<1> QED
  BY <1>1 DEF GA!Call, Order, Found, GA!Nothing

\* What the administrator does, apart from a switch and a confirmation, keeps the invariant.
LEMMA GroupsOrders ==
    ASSUME GroupsInv, ConstantsAssumption,
           \/ GA!createGroup \/ GA!updateCurrentGroup \/ GA!updateGroupPassword \/ GA!confirmExistingMember
           \/ \E u \in Users : GA!createMember(u) \/ GA!setMemberAdmin(u)
    PROVE  GroupsInv'
<1>1. /\ GA!Act /\ current \in Groups \cup {None} /\ groupEditName = current
      /\ dialog \in Question \cup {GA!Quiet} /\ memberConflict \in Users \cup {None}
      /\ memberSaving \in BOOLEAN /\ resettingMemberID \in Users \cup {None}
  BY DEF GroupsInv, GroupTypes, GA!TypeOK, GA!createGroup, GA!updateCurrentGroup, GA!updateGroupPassword,
         GA!confirmExistingMember, GA!createMember, GA!setMemberAdmin
<1>2. GA!AskedOfOpenGroup
  BY DEF GroupsInv
<1>3. ASSUME NEW op \in Orders, op \notin {"rename", "create"}, NEW g \in {current, None},
             NEW u \in Users \cup {None}, GA!Ask(GA!Call(op, g, u)),
             UNCHANGED <<groupEditName, resettingMemberID, dialog, unsure>>,
             memberConflict' \in Users \cup {None}, memberSaving' \in BOOLEAN,
             memberSaving' => memberSaving \/ op = "add"
      PROVE  GroupsInv'
  <2> DEFINE c == GA!Call(op, g, u)
  <2>1. c \in Order /\ c.op = op /\ c.g = g /\ c.u = u /\ c.ph = "sent" /\ op # "load"
    BY <1>1, CallFits DEF Orders
  <2>2. asked' = asked \cup {c}
    BY <1>3 DEF GA!Ask
  <2> HIDE DEF c
  <2>3. GA!AskedOfOpenGroup'
    BY <1>1, <1>2, <1>3 DEF GA!AskedOfOpenGroup, GA!Act
  <2>4. {c} \in SUBSET Order /\ UNCHANGED <<exists, names, memberOf, adminOf, accounts, current, members, admins>>
    BY <1>1, <2>1 DEF GA!Act, GA!server
  <2> QED
    BY <1>1, <1>3, <2>1, <2>2, <2>3, <2>4, OrderSent
<1>4. CASE GA!createGroup
  BY <1>1, <1>3, <1>4 DEF GA!createGroup, Orders, GA!locks
<1>5. CASE GA!updateGroupPassword
  BY <1>1, <1>3, <1>5 DEF GA!updateGroupPassword, Orders, GA!locks
<1>6. CASE GA!confirmExistingMember
  BY <1>1, <1>3, <1>6 DEF GA!confirmExistingMember, Orders
<1>7. ASSUME NEW u \in Users, GA!setMemberAdmin(u) PROVE GroupsInv'
  <2>1. \E op \in {"demote", "promote"} : GA!Ask(GA!Call(op, current, u))
    BY <1>7 DEF GA!setMemberAdmin
  <2> QED
    BY <1>1, <1>3, <1>7, <2>1 DEF GA!setMemberAdmin, Orders, GA!locks
<1>8. CASE GA!updateCurrentGroup
  <2> DEFINE d == GA!Call("rename", current, None)
             c == [d EXCEPT !.name = groupEditName]
  <2>1. d \in Order /\ d.op = "rename" /\ d.g = current /\ d.ph = "sent"
    BY <1>1, CallFits DEF Orders
  <2>2. asked' = asked \cup {c} /\ UNCHANGED <<groupEditName, memberConflict, GA!locks, dialog, unsure>>
    BY <1>8 DEF GA!updateCurrentGroup, GA!Ask
  <2> HIDE DEF d
  <2>3. c \in Order /\ c.op = "rename" /\ c.ph = "sent" /\ c.name = c.g
    BY <1>1, <2>1 DEF Order
  <2> HIDE DEF c
  <2>4. GA!AskedOfOpenGroup'
    BY <1>1, <1>2, <2>2 DEF GA!AskedOfOpenGroup, GA!Act
  <2>5. {c} \in SUBSET Order /\ UNCHANGED <<memberSaving, resettingMemberID>>
        /\ UNCHANGED <<exists, names, memberOf, adminOf, accounts, current, members, admins>>
    BY <1>1, <2>2, <2>3 DEF GA!Act, GA!server, GA!locks
  <2> QED
    BY <1>1, <2>2, <2>3, <2>4, <2>5, OrderSent
<1>9. ASSUME NEW u \in Users, GA!createMember(u) PROVE GroupsInv'
  <2> DEFINE c == GA!Call("create", current, u)
  <2>1. c \in Order /\ c.op = "create" /\ c.u = u /\ c.ph = "sent"
    BY <1>1, CallFits DEF Orders
  <2>2. asked' = asked \cup {c} /\ memberSaving' = TRUE /\ memberConflict' = None
        /\ UNCHANGED <<groupEditName, resettingMemberID, dialog, unsure>>
    BY <1>9 DEF GA!createMember, GA!Ask
  <2> HIDE DEF c
  <2>3. GA!AskedOfOpenGroup'
    BY <1>1, <1>2, <2>2 DEF GA!AskedOfOpenGroup, GA!Act
  <2>4. {c} \in SUBSET Order /\ UNCHANGED <<exists, names, memberOf, adminOf, accounts, current, members, admins>>
    BY <1>1, <2>1 DEF GA!Act, GA!server
  <2> QED
    BY <1>1, <2>1, <2>2, <2>3, <2>4, OrderSent
<1> QED
  BY <1>4, <1>5, <1>6, <1>7, <1>8, <1>9

\* A question is of the open group when it is asked; it covers the page until it is answered.
LEMMA GroupsQuestions ==
    ASSUME GroupsInv, ConstantsAssumption,
           \/ GA!AskDelete \/ GA!editMemberUsername
           \/ \E u \in Users, op \in {"remove", "reset"} : GA!AskOfMember(op, u)
    PROVE  GroupsInv'
<1>1. /\ current \in Groups \cup {None} /\ dialog \in Question \cup {GA!Quiet}
      /\ memberConflict \in Users \cup {None} /\ memberSaving \in BOOLEAN /\ resettingMemberID \in Users \cup {None}
      /\ GA!AskedOfOpenGroup
  BY DEF GroupsInv, GroupTypes, GA!TypeOK
<1>2. asked' = asked \cup {}
  BY DEF GA!AskDelete, GA!editMemberUsername, GA!AskOfMember
<1>3. CASE GA!editMemberUsername
  <2>1. GA!AskedOfOpenGroup'
    BY <1>1, <1>3 DEF GA!editMemberUsername, GA!AskedOfOpenGroup, GA!shown
  <2>2. {} \in SUBSET Order /\ memberConflict' = None /\ UNCHANGED <<groupEditName, GA!locks, dialog, unsure>>
        /\ UNCHANGED <<exists, names, memberOf, adminOf, accounts, current, members, admins>>
    BY <1>3 DEF GA!editMemberUsername, GA!server, GA!shown
  <2> QED
    BY <1>1, <1>2, <2>1, <2>2, OrderSent DEF GA!locks
<1>4. ASSUME NEW op \in {"delete", "remove", "reset"}, NEW u \in Users \cup {None}, GA!Act,
             dialog' = [op |-> op, g |-> current, u |-> u],
             UNCHANGED <<groupEditName, memberConflict, GA!locks, asked, unsure>>
      PROVE  GroupsInv'
  <2>1. dialog' \in Question \cup {GA!Quiet} /\ GA!AskedOfOpenGroup'
    BY <1>1, <1>4 DEF Question, GA!AskedOfOpenGroup, GA!Act
  <2>2. {} \in SUBSET Order /\ UNCHANGED <<memberSaving, resettingMemberID>>
        /\ UNCHANGED <<exists, names, memberOf, adminOf, accounts, current, members, admins>>
    BY <1>4 DEF GA!Act, GA!server, GA!locks
  <2> QED
    BY <1>1, <1>2, <1>4, <2>1, <2>2, OrderSent
<1> QED
  BY <1>3, <1>4 DEF GA!AskDelete, GA!AskOfMember

\* Another group is opened: what was sent ends, and only the load of that group counts.
LEMMA GroupOpened ==
    ASSUME GroupsInv, NEW g \in Groups \cup {None}, GA!switchGroup(g),
           UNCHANGED <<exists, names, memberOf, adminOf, accounts, memberConflict, memberSaving, resettingMemberID, unsure>>,
           dialog' = GA!Quiet, None \notin {"created", "delete", "remove", "reset"}
    PROVE  GroupsInv'
<1> DEFINE Ended(c) == [c EXCEPT !.ph = IF @ = "sent" THEN "error" ELSE @, !.latest = FALSE]
           d == GA!Call("load", g, None)
           e == [d EXCEPT !.at = g]
<1>1. \A c \in asked : /\ Ended(c) \in Order /\ ~Ended(c).latest /\ Ended(c).op = c.op /\ Ended(c).u = c.u
                       /\ Ended(c).g = c.g /\ Ended(c).name = c.name
  BY DEF GroupsInv, GroupTypes, Order
<1>2. asked' = {Ended(c) : c \in asked} \cup {e}
  BY DEF GA!switchGroup, GA!Left
<1>3. current \in Groups \cup {None}
  BY DEF GroupsInv, GroupTypes, GA!TypeOK
<1>4. d \in Order /\ d.op = "load" /\ d.latest /\ d.ph = "sent" /\ d.g = g /\ d.u = None /\ d.ans = GA!Nothing
  BY <1>3 DEF GA!Call, Order, Found, GA!Nothing
<1> HIDE DEF d, Ended
<1>5. e \in Order /\ e.op = "load" /\ e.latest /\ e.ph = "sent" /\ e.g = g /\ e.u = None /\ e.ans = GA!Nothing
  BY <1>4 DEF Order
<1> HIDE DEF e
<1>6. GroupTypes' /\ groupEditName' = current' /\ GA!GroupNamesAreOwn'
  BY <1>1, <1>2, <1>5 DEF GA!switchGroup, GA!Renamed, GroupsInv, GroupTypes, GA!TypeOK, GA!GroupNamesAreOwn
<1>7. GA!AskedOfOpenGroup'
  BY DEF GA!AskedOfOpenGroup, GA!Quiet
<1>8. OrdersFit'
  BY <1>1, <1>2, <1>5 DEF GroupsInv, OrdersFit
<1>9. LocksHeld'
  BY <1>1, <1>2 DEF GroupsInv, LocksHeld
<1>10. Counting(asked') = {e} /\ current' = g
  BY <1>1, <1>2, <1>5 DEF Counting, GA!switchGroup
<1>11. LoadsFit'
  BY <1>5, <1>10 DEF LoadsFit, Counting, GA!Nothing
<1> QED
  BY <1>6, <1>7, <1>8, <1>9, <1>11 DEF GroupsInv

\* So do a switch of the group and the answer to a dialog.
LEMMA GroupsSwitch ==
    ASSUME GroupsInv, ConstantsAssumption, NEW g \in Groups, GA!Switch(g) PROVE GroupsInv'
BY GroupOpened DEF GA!Switch, GA!Unasked, GA!server, GA!locks, ConstantsAssumption

LEMMA GroupsConfirm ==
    ASSUME GroupsInv, ConstantsAssumption, NEW yes \in BOOLEAN, GA!Confirm(yes) PROVE GroupsInv'
<1>1. /\ current \in Groups \cup {None} /\ dialog \in Question /\ dialog' = GA!Quiet
      /\ memberConflict \in Users \cup {None} /\ memberSaving \in BOOLEAN /\ resettingMemberID \in Users \cup {None}
      /\ UNCHANGED <<exists, names, memberOf, adminOf, accounts, memberConflict, memberSaving, unsure>>
  BY DEF GroupsInv, GroupTypes, GA!TypeOK, GA!Confirm, GA!server
<1>2. GA!AskedOfOpenGroup'
  BY <1>1 DEF GA!AskedOfOpenGroup, GA!Quiet, ConstantsAssumption
<1>3. CASE dialog.op = "created"
  <2>1. GA!switchGroup(dialog.g) /\ UNCHANGED resettingMemberID
    BY <1>3 DEF GA!Confirm
  <2> QED
    BY <1>1, <2>1, GroupOpened DEF Question, ConstantsAssumption
<1>4. CASE dialog.op # "created" /\ ~yes
  <2>1. asked' = asked \cup {} /\ UNCHANGED <<current, members, admins, groupEditName, resettingMemberID>>
    BY <1>4 DEF GA!Confirm, GA!shown
  <2>2. {} \in SUBSET Order /\ dialog' \in Question \cup {GA!Quiet}
    BY <1>1
  <2> QED
    BY <1>1, <1>2, <2>1, <2>2, OrderSent
<1>5. CASE dialog.op # "created" /\ yes
  <2> DEFINE g == IF dialog.op = "delete" THEN dialog.g ELSE current
             c == GA!Call(dialog.op, g, dialog.u)
  <2>1. c \in Order /\ c.op = dialog.op /\ c.ph = "sent" /\ c.op \in {"delete", "remove", "reset"}
    BY <1>1, <1>5, CallFits DEF Question, Orders
  <2>2. /\ asked' = asked \cup {c} /\ UNCHANGED <<current, members, admins, groupEditName>>
        /\ resettingMemberID' = IF dialog.op = "reset" THEN dialog.u ELSE resettingMemberID
    BY <1>5 DEF GA!Confirm, GA!Ask, GA!shown
  <2> HIDE DEF c
  <2>3. /\ resettingMemberID' \in Users \cup {None}
        /\ resettingMemberID' # None => resettingMemberID # None \/ c.op = "reset"
    BY <1>1, <2>1, <2>2 DEF Question
  <2>4. GroupsInv /\ {c} \in SUBSET Order /\ dialog' \in Question \cup {GA!Quiet}
    BY <1>1, <2>1
  <2> QED
    BY <1>1, <1>2, <2>1, <2>2, <2>3, <2>4, OrderSent
<1> QED
  BY <1>3, <1>4, <1>5

\* The answer of c, in place of it; what it says of a load that counts is what the server has.
LEMMA OrderAnswered ==
    ASSUME GroupsInv, NEW c \in asked, NEW ph \in {"ok", "error", "exists"}, NEW f \in Found,
           GA!Answered(c, ph, f), GroupTypes', unsure => unsure', GA!GroupNamesAreOwn',
           c.op = "load" => /\ f.g \in {c.g, None}
                            /\ ph # "ok" => unsure'
                            /\ c.latest /\ ph = "ok" => f.g = None \/ OfCurrent(f),
           /\ UNCHANGED <<exists, memberOf, adminOf>>
           \/ unsure' \/ (GA!Reloads(c) /\ ph = "ok")
           \/ (UNCHANGED <<memberOf, adminOf>> /\ exists \subseteq exists')
    PROVE  GroupsInv'
<1> DEFINE d == [c EXCEPT !.ph = ph, !.ans = f]
<1>1. /\ d \in Order /\ d.op = c.op /\ d.g = c.g /\ d.u = c.u /\ d.name = c.name /\ d.latest = c.latest
      /\ d.ph = ph /\ d.ans = f
  BY DEF GroupsInv, GroupTypes, Order
<1>2. /\ c.ph = "sent" /\ asked' = (asked \ {c}) \cup {d}
      /\ UNCHANGED <<current, members, admins, groupEditName, memberConflict, memberSaving, resettingMemberID, dialog>>
  BY DEF GA!Answered, GA!OtherCalls, GA!shown, GA!locks
<1> HIDE DEF d
<1>3. GA!AskedOfOpenGroup' /\ groupEditName' = current'
  BY <1>2 DEF GroupsInv, GA!AskedOfOpenGroup
<1>4. OrdersFit' /\ LocksHeld'
  BY <1>1, <1>2 DEF GroupsInv, OrdersFit, LocksHeld
<1>5. ToBeRead => ToBeRead'
  BY <1>1, <1>2 DEF ToBeRead
<1>6. GA!Reloads(c) /\ ph = "ok" => ToBeRead'
  BY <1>1, <1>2 DEF ToBeRead, GA!Reloads
<1>7. Counting(asked') = IF c \in Counting(asked) THEN {d} ELSE Counting(asked)
  <2>1. c \in Counting(asked) => Counting(asked) = {c}
    BY DEF GroupsInv, LoadsFit
  <2> QED
    BY <1>1, <1>2, <2>1 DEF Counting
<1>8. ASSUME ~unsure', ~ToBeRead'
      PROVE  (UpToDate => UpToDate') /\ \A h : OfCurrent(h) => OfCurrent(h)'
  <2>1. UNCHANGED <<memberOf, adminOf>> /\ exists \subseteq exists'
    BY <1>6, <1>8
  <2> QED
    BY <1>2, <2>1 DEF UpToDate, OfCurrent
<1>9. \A e, h \in Counting(asked') : e = h
  BY <1>7 DEF GroupsInv, LoadsFit
<1>10. ASSUME NEW e \in Counting(asked')
       PROVE  /\ e.g = current' /\ e.ans.g \in {e.g, None} /\ (e.ph \in {"sent", "ok"} \/ unsure')
              /\ e.ph = "ok" => unsure' \/ ToBeRead' \/ e.ans.g = None \/ OfCurrent(e.ans)'
  <2>1. CASE c \in Counting(asked)
    <3>1. e = d /\ c.op = "load" /\ c.latest /\ c.g = current
      BY <1>7, <2>1 DEF Counting, GroupsInv, LoadsFit
    <3>2. OfCurrent(f) => unsure' \/ ToBeRead' \/ OfCurrent(f)'
      BY <1>8
    <3> QED
      BY <1>1, <1>2, <3>1, <3>2
  <2>2. CASE c \notin Counting(asked)
    <3>1. e \in Counting(asked)
      BY <1>7, <2>2
    <3>2. OfCurrent(e.ans) => unsure' \/ ToBeRead' \/ OfCurrent(e.ans)'
      BY <1>8
    <3> QED
      BY <1>2, <1>5, <3>1, <3>2 DEF GroupsInv, LoadsFit
  <2> QED
    BY <2>1, <2>2
<1>11. unsure' \/ ToBeRead' \/ UpToDate' \/ \E e \in Counting(asked') : e.ph \in {"sent", "ok"}
  <2>1. CASE c \in Counting(asked)
    BY <1>1, <1>7, <2>1 DEF Counting
  <2>2. CASE c \notin Counting(asked)
    BY <1>5, <1>7, <1>8, <2>2 DEF GroupsInv, LoadsFit
  <2> QED
    BY <2>1, <2>2
<1>12. LoadsFit'
  BY <1>9, <1>10, <1>11 DEF LoadsFit, Counting
<1> QED
  BY <1>3, <1>4, <1>12 DEF GroupsInv

\* The types after an answer, when those of what the server keeps are what they were.
LEMMA AnsweredTypes ==
    ASSUME GroupsInv, NEW c \in asked, NEW ph \in {"ok", "error", "exists"}, NEW f \in Found,
           GA!Answered(c, ph, f), unsure' \in BOOLEAN,
           exists' \subseteq Groups, names' \in [Groups -> Groups], accounts' \subseteq Users,
           memberOf' \in [Groups -> SUBSET Users], adminOf' \in [Groups -> SUBSET Users],
           \A g \in Groups : memberOf'[g] \subseteq accounts' /\ adminOf'[g] \subseteq memberOf'[g]
    PROVE  GroupTypes'
<1>1. [c EXCEPT !.ph = ph, !.ans = f] \in Order
  BY DEF GroupsInv, GroupTypes, Order
<1>2. asked' \subseteq Order
  BY <1>1 DEF GroupsInv, GroupTypes, GA!Answered, GA!OtherCalls
<1> QED
  BY <1>2 DEF GroupsInv, GroupTypes, GA!TypeOK, GA!Answered, GA!shown, GA!locks, GA!Quiet

\* A change arrives or is lost, and then it is unsure whether it did.
LEMMA ArrivesOrLost ==
    ASSUME NEW c, NEW f, GA!Arrives(c, f), unsure \in BOOLEAN
    PROVE  /\ unsure => unsure'
           /\ unsure' \in BOOLEAN
           /\ \/ GA!Answered(c, "ok", f)
              \/ GA!Answered(c, "error", GA!Nothing) /\ unsure'
<1>1. \/ GA!Answered(c, "ok", f) /\ UNCHANGED <<unsure, s17>>
      \/ unsure' = TRUE /\ GA!Answered(c, "error", GA!Nothing)
  BY Zenon DEF GA!Arrives
<1>2. CASE GA!Answered(c, "ok", f) /\ UNCHANGED <<unsure, s17>>
  BY <1>2
<1>3. CASE unsure' = TRUE /\ GA!Answered(c, "error", GA!Nothing)
  BY <1>3, Zenon
<1> QED
  BY <1>1, <1>2, <1>3

\* A list that is served is of the group it was asked for.
LEMMA GroupsServeLoad ==
    ASSUME GroupsInv, NEW c \in asked, GA!ServeLoad(c) PROVE GroupsInv'
<1> DEFINE f == IF c.g \in exists THEN [members |-> memberOf[c.g], admins |-> adminOf[c.g], g |-> c.g] ELSE GA!Nothing
<1>1. /\ c.op = "load" /\ unsure \in BOOLEAN /\ GA!Arrives(c, f)
      /\ UNCHANGED <<exists, names, memberOf, adminOf, accounts>>
  BY DEF GA!ServeLoad, GA!server, GroupsInv, GroupTypes
<1>2. /\ exists \subseteq Groups /\ names \in [Groups -> Groups] /\ accounts \subseteq Users
      /\ memberOf \in [Groups -> SUBSET Users] /\ adminOf \in [Groups -> SUBSET Users]
      /\ \A g \in Groups : memberOf[g] \subseteq accounts /\ adminOf[g] \subseteq memberOf[g]
      /\ GA!GroupNamesAreOwn /\ GA!GroupNamesAreOwn'
  BY <1>1 DEF GroupsInv, GroupTypes, GA!TypeOK, GA!GroupNamesAreOwn
<1>3. f \in Found /\ GA!Nothing \in Found /\ f.g \in {c.g, None} /\ GA!Nothing.g = None
  BY <1>2 DEF Found, GA!Nothing
<1>4. c.latest => f.g = None \/ OfCurrent(f)
  BY <1>1, <1>2 DEF GroupsInv, LoadsFit, Counting, OfCurrent, GA!Nothing
<1> HIDE DEF f
<1>5. CASE GA!Answered(c, "ok", f)
  <2>1. GroupTypes'
    BY <1>1, <1>2, <1>3, <1>5, ArrivesOrLost, AnsweredTypes
  <2> QED
    BY <1>1, <1>2, <1>3, <1>4, <1>5, <2>1, ArrivesOrLost, OrderAnswered
<1>6. CASE GA!Answered(c, "error", GA!Nothing) /\ unsure'
  <2>1. GroupTypes'
    BY <1>1, <1>2, <1>3, <1>6, ArrivesOrLost, AnsweredTypes
  <2> QED
    BY <1>1, <1>2, <1>3, <1>6, <2>1, ArrivesOrLost, OrderAnswered
<1> QED
  BY <1>1, <1>5, <1>6, ArrivesOrLost

\* A change the server makes: a load that counts is of the group that is open, so it, or
\* one that follows this change, brings what the server has now.
LEMMA ChangeServed ==
    ASSUME GroupsInv, NEW c \in asked, NEW f \in Found, c.op # "load", GA!Arrives(c, f),
           exists' \subseteq Groups, names' \in [Groups -> Groups], accounts' \subseteq Users,
           memberOf' \in [Groups -> SUBSET Users], adminOf' \in [Groups -> SUBSET Users],
           \A g \in Groups : memberOf'[g] \subseteq accounts' /\ adminOf'[g] \subseteq memberOf'[g],
           GA!GroupNamesAreOwn',
           GA!Reloads(c) \/ (UNCHANGED <<memberOf, adminOf>> /\ exists \subseteq exists')
    PROVE  GroupsInv'
<1>1. unsure \in BOOLEAN /\ GA!Nothing \in Found
  BY DEF GroupsInv, GroupTypes, Found, GA!Nothing
<1>2. CASE GA!Answered(c, "ok", f)
  <2>1. GroupTypes'
    BY <1>1, <1>2, ArrivesOrLost, AnsweredTypes
  <2> QED
    BY <1>1, <1>2, <2>1, ArrivesOrLost, OrderAnswered
<1>3. CASE GA!Answered(c, "error", GA!Nothing) /\ unsure'
  <2>1. GroupTypes'
    BY <1>1, <1>3, ArrivesOrLost, AnsweredTypes
  <2> QED
    BY <1>1, <1>3, <2>1, ArrivesOrLost, OrderAnswered
<1> QED
  BY <1>1, <1>2, <1>3, ArrivesOrLost

\* A change that is served keeps the invariant, whatever is being loaded.
LEMMA GroupsServe ==
    ASSUME GroupsInv, ConstantsAssumption, NEW c \in asked,
           GA!ServeGroup(c) \/ GA!ServeOfGroup(c) \/ GA!ServeOfMember(c)
    PROVE  GroupsInv'
<1>1. /\ exists \subseteq Groups /\ names \in [Groups -> Groups] /\ accounts \subseteq Users
      /\ memberOf \in [Groups -> SUBSET Users] /\ adminOf \in [Groups -> SUBSET Users]
      /\ \A g \in Groups : memberOf[g] \subseteq accounts /\ adminOf[g] \subseteq memberOf[g]
      /\ \A g \in Groups : names[g] = g
      /\ c \in Order /\ (c.op = "create" => c.u \in Users) /\ (c.op = "rename" => c.name = c.g)
  BY DEF GroupsInv, GroupTypes, GA!TypeOK, GA!GroupNamesAreOwn, OrdersFit
<1>2. GA!Nothing \in Found /\ \A g \in Groups : [GA!Nothing EXCEPT !.g = g] \in Found
  BY DEF GA!Nothing, Found
<1>3. CASE GA!ServeGroup(c)
  <2>1. PICK g \in Groups \ exists : exists' = exists \cup {g} /\ GA!Arrives(c, [GA!Nothing EXCEPT !.g = g])
    BY <1>3 DEF GA!ServeGroup
  <2>2. UNCHANGED <<names, memberOf, adminOf, accounts>> /\ c.op = "group"
    BY <1>3 DEF GA!ServeGroup
  <2>3. GA!GroupNamesAreOwn'
    BY <1>1, <2>2 DEF GA!GroupNamesAreOwn
  <2>4. /\ exists' \subseteq Groups /\ exists \subseteq exists' /\ c.op # "load" /\ [GA!Nothing EXCEPT !.g = g] \in Found
        /\ names' \in [Groups -> Groups] /\ accounts' \subseteq Users
        /\ memberOf' \in [Groups -> SUBSET Users] /\ adminOf' \in [Groups -> SUBSET Users]
        /\ \A h \in Groups : memberOf'[h] \subseteq accounts' /\ adminOf'[h] \subseteq memberOf'[h]
    BY <1>1, <1>2, <2>1, <2>2
  <2> QED
    BY <2>1, <2>2, <2>3, <2>4, ChangeServed
<1>4. CASE GA!ServeOfGroup(c)
  <2>1. /\ c.op \in {"rename", "delete", "password"} /\ c.g \in exists /\ GA!Arrives(c, GA!Nothing)
        /\ names'    = IF c.op = "rename" THEN [names EXCEPT ![c.g] = c.name] ELSE names
        /\ exists'   = IF c.op = "delete" THEN exists \ {c.g} ELSE exists
        /\ memberOf' = IF c.op = "delete" THEN [memberOf EXCEPT ![c.g] = {}] ELSE memberOf
        /\ adminOf'  = IF c.op = "delete" THEN [adminOf EXCEPT ![c.g] = {}] ELSE adminOf
        /\ UNCHANGED accounts
    BY <1>4 DEF GA!ServeOfGroup
  <2>2. names' \in [Groups -> Groups] /\ GA!GroupNamesAreOwn'
    BY <1>1, <2>1 DEF GA!GroupNamesAreOwn
  <2>3. /\ memberOf' \in [Groups -> SUBSET Users] /\ adminOf' \in [Groups -> SUBSET Users]
        /\ \A g \in Groups : memberOf'[g] \subseteq accounts' /\ adminOf'[g] \subseteq memberOf'[g]
        /\ exists' \subseteq Groups /\ accounts' \subseteq Users
    BY <1>1, <2>1
  <2>4. GA!Reloads(c) \/ (UNCHANGED <<memberOf, adminOf>> /\ exists \subseteq exists')
    <3>1. CASE c.op = "password"
      BY <2>1, <3>1
    <3>2. CASE c.op # "password"
      <4>1. c.op \in {"rename", "delete"}
        BY <2>1, <3>2
      <4> QED
        BY <4>1 DEF GA!Reloads
    <3> QED
      BY <3>1, <3>2
  <2>5. c.op # "load"
    BY <2>1
  <2> QED
    BY <1>2, <2>1, <2>2, <2>3, <2>4, <2>5, ChangeServed
<1>5. CASE GA!ServeOfMember(c)
  <2>1. /\ c.op \in {"create", "add", "promote", "demote", "remove", "reset"} /\ c.g \in exists /\ GA!Possible(c)
        /\ memberOf' = [memberOf EXCEPT ![c.g] = CASE c.op \in {"create", "add"} -> @ \cup {c.u}
                                                   [] c.op = "remove" -> @ \ {c.u}
                                                   [] OTHER -> @]
        /\ adminOf'  = [adminOf EXCEPT ![c.g] = CASE c.op = "promote" -> @ \cup {c.u}
                                                  [] c.op \in {"demote", "remove"} -> @ \ {c.u}
                                                  [] OTHER -> @]
        /\ accounts' = IF c.op = "create" THEN accounts \cup {c.u} ELSE accounts
        /\ GA!Arrives(c, GA!Nothing) /\ UNCHANGED <<exists, names>>
    BY <1>5 DEF GA!ServeOfMember
  <2>2. CASE c.op \in {"create", "add"}
    <3>1. c.u \in Users /\ c.u \in accounts'
      BY <1>1, <2>1, <2>2 DEF GA!Possible
    <3>2. memberOf' = [memberOf EXCEPT ![c.g] = memberOf[c.g] \cup {c.u}] /\ adminOf' = [adminOf EXCEPT ![c.g] = adminOf[c.g]]
      BY <2>1, <2>2
    <3>3. accounts \subseteq accounts' /\ accounts' \subseteq Users
      BY <1>1, <2>1, <3>1
    <3>4. \A g \in Groups : memberOf'[g] \in SUBSET Users /\ memberOf'[g] \subseteq accounts' /\ adminOf'[g] \subseteq memberOf'[g]
      BY <1>1, <3>1, <3>2, <3>3
    <3>5. /\ memberOf' \in [Groups -> SUBSET Users] /\ adminOf' \in [Groups -> SUBSET Users]
          /\ exists' \subseteq Groups /\ names' \in [Groups -> Groups] /\ GA!GroupNamesAreOwn' /\ GA!Reloads(c) /\ c.op # "load"
      BY <1>1, <2>1, <2>2, <3>2, <3>4 DEF GA!GroupNamesAreOwn, GA!Reloads
    <3> QED
      BY <1>2, <2>1, <3>3, <3>4, <3>5, ChangeServed
  <2>3. CASE c.op \notin {"create", "add"}
    <3>1. c.u \in memberOf[c.g] /\ accounts' = accounts
      BY <2>1, <2>3 DEF GA!Possible
    <3> DEFINE m == IF c.op = "remove" THEN memberOf[c.g] \ {c.u} ELSE memberOf[c.g]
               a == IF c.op = "promote" THEN adminOf[c.g] \cup {c.u}
                    ELSE IF c.op \in {"demote", "remove"} THEN adminOf[c.g] \ {c.u} ELSE adminOf[c.g]
    <3>2. memberOf' = [memberOf EXCEPT ![c.g] = m] /\ adminOf' = [adminOf EXCEPT ![c.g] = a]
      BY <2>1, <2>3
    <3>3. m \subseteq memberOf[c.g] /\ a \subseteq m
      BY <1>1, <2>1, <3>1
    <3>4. c.op = "reset" => m = memberOf[c.g] /\ a = adminOf[c.g]
      OBVIOUS
    <3> HIDE DEF m, a
    <3>5. \A g \in Groups : memberOf'[g] \in SUBSET Users /\ memberOf'[g] \subseteq accounts' /\ adminOf'[g] \subseteq memberOf'[g]
      BY <1>1, <3>1, <3>2, <3>3
    <3>6. /\ memberOf' \in [Groups -> SUBSET Users] /\ adminOf' \in [Groups -> SUBSET Users]
          /\ exists' \subseteq Groups /\ names' \in [Groups -> Groups] /\ GA!GroupNamesAreOwn' /\ c.op # "load"
          /\ accounts' \subseteq Users
      BY <1>1, <2>1, <2>3, <3>1, <3>2, <3>5 DEF GA!GroupNamesAreOwn
    <3>7. GA!Reloads(c) \/ (UNCHANGED <<memberOf, adminOf>> /\ exists \subseteq exists')
      BY <1>1, <2>1, <2>3, <3>2, <3>4 DEF GA!Reloads
    <3> QED
      BY <1>2, <2>1, <3>5, <3>6, <3>7, ChangeServed
  <2> QED
    BY <2>2, <2>3
<1> QED
  BY <1>3, <1>4, <1>5

\* So does a refusal.
LEMMA GroupsRefuse ==
    ASSUME GroupsInv, NEW c \in asked, GA!Refuse(c) PROVE GroupsInv'
<1>1. c.op # "load" /\ UNCHANGED <<exists, names, memberOf, adminOf, accounts, unsure>>
  BY DEF GA!Refuse, GA!server, GroupsInv, OrdersFit
<1>2. PICK ph \in {"error", "exists"} : GA!Answered(c, ph, GA!Nothing)
  BY DEF GA!Refuse
<1>3. GA!Nothing \in Found
  BY DEF Found, GA!Nothing
<1>4. /\ exists' \subseteq Groups /\ names' \in [Groups -> Groups] /\ accounts' \subseteq Users /\ unsure' \in BOOLEAN
      /\ memberOf' \in [Groups -> SUBSET Users] /\ adminOf' \in [Groups -> SUBSET Users]
      /\ \A g \in Groups : memberOf'[g] \subseteq accounts' /\ adminOf'[g] \subseteq memberOf'[g]
      /\ GA!GroupNamesAreOwn'
  BY <1>1 DEF GroupsInv, GroupTypes, GA!TypeOK, GA!GroupNamesAreOwn
<1>5. GroupTypes'
  BY <1>2, <1>3, <1>4, AnsweredTypes
<1> QED
  BY <1>1, <1>2, <1>3, <1>4, <1>5, OrderAnswered

\* The answer of a load that counts is what is shown; the others change nothing.
LEMMA GroupsLoadDone ==
    ASSUME GroupsInv, ConstantsAssumption, NEW c \in asked, GA!LoadDone(c) PROVE GroupsInv'
<1>1. /\ c.op = "load" /\ c.ph \in {"ok", "error"} /\ asked' = asked \ {c}
      /\ UNCHANGED <<exists, names, memberOf, adminOf, accounts, memberConflict, memberSaving, resettingMemberID, dialog, unsure>>
  BY DEF GA!LoadDone, GA!server, GA!locks, GA!OtherCalls
<1>2. ToBeRead => ToBeRead'
  BY <1>1 DEF ToBeRead, GA!Reloads
<1>3. OrdersFit' /\ LocksHeld' /\ GA!GroupNamesAreOwn'
  BY <1>1 DEF GroupsInv, OrdersFit, LocksHeld, GA!GroupNamesAreOwn
<1>4. CASE c.ph = "ok" /\ c.latest
  <2>1. /\ current' = c.ans.g /\ groupEditName' = c.ans.g
        /\ members' = c.ans.members /\ admins' = c.ans.admins
    BY <1>4 DEF GA!LoadDone, GA!Counts, GA!Renamed
  <2>2. /\ Counting(asked) = {c} /\ Counting(asked') = {} /\ c.g = current /\ c.ans.g \in {c.g, None}
        /\ unsure \/ ToBeRead \/ c.ans.g = None \/ OfCurrent(c.ans)
    BY <1>1, <1>4 DEF GroupsInv, LoadsFit, Counting
  <2>3. unsure' \/ ToBeRead' \/ UpToDate'
    BY <1>1, <1>2, <2>1, <2>2 DEF UpToDate, OfCurrent
  <2>4. c.ans \in Found
    BY DEF GroupsInv, GroupTypes, Order
  <2>5. GroupTypes'
    BY <1>1, <2>1, <2>4 DEF GroupsInv, GroupTypes, GA!TypeOK, Found, GA!Quiet
  <2>6. GA!AskedOfOpenGroup'
    BY <1>1, <2>1, <2>2 DEF GroupsInv, GA!AskedOfOpenGroup
  <2>7. LoadsFit'
    BY <2>2, <2>3 DEF LoadsFit
  <2> QED
    BY <1>3, <2>1, <2>5, <2>6, <2>7 DEF GroupsInv
<1>5. CASE ~(c.ph = "ok" /\ c.latest)
  <2>1. UNCHANGED <<current, members, admins, groupEditName>>
    BY <1>5 DEF GA!LoadDone, GA!Counts, GA!shown
  <2>2. c \in Counting(asked) => unsure
    BY <1>1, <1>5 DEF GroupsInv, LoadsFit, Counting
  <2>3. Counting(asked') = Counting(asked) \ {c}
    BY <1>1 DEF Counting
  <2>4. (UpToDate => UpToDate') /\ \A h : OfCurrent(h) => OfCurrent(h)'
    BY <1>1, <2>1 DEF UpToDate, OfCurrent
  <2>5. LoadsFit'
    BY <1>1, <1>2, <2>1, <2>2, <2>3, <2>4 DEF GroupsInv, LoadsFit
  <2>6. GroupTypes' /\ GA!AskedOfOpenGroup' /\ groupEditName' = current'
    BY <1>1, <2>1 DEF GroupsInv, GroupTypes, GA!TypeOK, GA!AskedOfOpenGroup, GA!Quiet
  <2> QED
    BY <1>3, <2>5, <2>6 DEF GroupsInv
<1> QED
  BY <1>4, <1>5

\* A change that was answered is read again: the load of the open group takes the place of
\* those before it.
LEMMA GroupsChangeDone ==
    ASSUME GroupsInv, ConstantsAssumption, NEW c \in asked, GA!ChangeDone(c) PROVE GroupsInv'
<1> DEFINE d == GA!Call("load", current, None)
           Old(e) == [e EXCEPT !.latest = FALSE]
<1>1. /\ c.op # "load" /\ c.ph = "ok" /\ GA!reloadApp(c)
      /\ memberConflict' = IF c.op = "add" THEN None ELSE memberConflict
      /\ memberSaving' = (memberSaving /\ ~GA!Frees(c))
      /\ resettingMemberID' = IF c.op = "reset" THEN None ELSE resettingMemberID
      /\ dialog' = IF c.op = "group" THEN [op |-> "created", g |-> c.ans.g, u |-> None] ELSE dialog
      /\ UNCHANGED <<exists, names, memberOf, adminOf, accounts, current, members, admins, groupEditName, unsure>>
  BY DEF GA!ChangeDone, GA!server, GA!shown
<1>2. /\ current \in Groups \cup {None} /\ memberSaving \in BOOLEAN /\ c \in Order
      /\ GA!AskedOfOpenGroup /\ dialog \in Question \cup {GA!Quiet}
  BY DEF GroupsInv, GroupTypes, GA!TypeOK
<1>3. d \in Order /\ d.op = "load" /\ d.latest /\ d.ph = "sent" /\ d.g = current /\ d.u = None /\ d.ans = GA!Nothing
  BY <1>2 DEF GA!Call, Order, Found, GA!Nothing
<1>4a. \A e \in Order : /\ Old(e) \in Order /\ ~Old(e).latest /\ Old(e).op = e.op /\ Old(e).u = e.u
                        /\ Old(e).g = e.g /\ Old(e).name = e.name
  BY DEF Order
<1>4. \A e \in asked : /\ Old(e) \in Order /\ ~Old(e).latest /\ Old(e).op = e.op /\ Old(e).u = e.u
                       /\ Old(e).g = e.g /\ Old(e).name = e.name
  BY <1>4a DEF GroupsInv, GroupTypes
<1>5. /\ GA!Reloads(c) => asked' = {Old(e) : e \in asked \ {c}} \cup {d}
      /\ ~GA!Reloads(c) => asked' = asked \ {c}
  BY <1>1 DEF GA!reloadApp, GA!OtherCalls
<1> HIDE DEF d, Old
<1>6. /\ \A e \in asked' : e = d \/ \E h \in asked \ {c} : e.op = h.op /\ e.u = h.u /\ e.g = h.g /\ e.name = h.name
      /\ \A h \in asked \ {c} : \E e \in asked' : e.op = h.op
      /\ asked' \subseteq Order
  <2>1. asked \subseteq Order
    BY DEF GroupsInv, GroupTypes
  <2>2. CASE GA!Reloads(c)
    BY <1>3, <1>4, <1>5, <2>2
  <2>3. CASE ~GA!Reloads(c)
    BY <1>5, <2>1, <2>3
  <2> QED
    BY <2>2, <2>3
<1>7. dialog' \in Question \cup {GA!Quiet} /\ GA!AskedOfOpenGroup'
  BY <1>1, <1>2 DEF Question, GA!AskedOfOpenGroup, Order, Found
<1>8. GroupTypes' /\ GA!GroupNamesAreOwn' /\ groupEditName' = current'
  <2>1. memberConflict' \in Users \cup {None} /\ memberSaving' \in BOOLEAN /\ resettingMemberID' \in Users \cup {None}
    BY <1>1, <1>2 DEF GroupsInv, GroupTypes, GA!TypeOK
  <2> QED
    BY <1>1, <1>6, <1>7, <2>1 DEF GroupsInv, GroupTypes, GA!TypeOK, GA!GroupNamesAreOwn, GA!Quiet
<1>9. OrdersFit'
  <2>1. (d.op = "load" => d.u = None) /\ d.op # "create" /\ d.op # "rename"
    BY <1>3
  <2> QED
    BY <1>6, <2>1 DEF GroupsInv, OrdersFit
<1>10. LocksHeld'
  <2>1. ASSUME memberSaving' PROVE \E e \in asked' : e.op \in {"create", "add"}
    <3>1. memberSaving /\ c.op \notin {"create", "add"}
      BY <1>1, <1>2, <2>1 DEF GA!Frees
    <3>2. PICK h \in asked : h.op \in {"create", "add"}
      BY <3>1 DEF GroupsInv, LocksHeld
    <3> QED
      BY <1>6, <3>1, <3>2
  <2>2. ASSUME resettingMemberID' # None PROVE \E e \in asked' : e.op = "reset"
    <3>1. resettingMemberID # None /\ c.op # "reset"
      BY <1>1, <2>2
    <3>2. PICK h \in asked : h.op = "reset"
      BY <3>1 DEF GroupsInv, LocksHeld
    <3> QED
      BY <1>6, <3>1, <3>2
  <2> QED
    BY <2>1, <2>2 DEF LocksHeld
<1>11. LoadsFit'
  <2>1. CASE GA!Reloads(c)
    <3>1. Counting(asked') = {d}
      BY <1>3, <1>4, <1>5, <2>1 DEF Counting
    <3> QED
      BY <1>1, <1>3, <3>1 DEF LoadsFit, Counting, GA!Nothing
  <2>2. CASE ~GA!Reloads(c)
    <3>1. Counting(asked') = Counting(asked)
      BY <1>1, <1>5, <2>2 DEF Counting
    <3>2. ToBeRead => ToBeRead'
      BY <1>5, <2>2 DEF ToBeRead, GA!Reloads
    <3>3. (UpToDate => UpToDate') /\ \A h : OfCurrent(h) => OfCurrent(h)'
      BY <1>1 DEF UpToDate, OfCurrent
    <3> QED
      BY <1>1, <3>1, <3>2, <3>3 DEF GroupsInv, LoadsFit
  <2> QED
    BY <2>1, <2>2
<1> QED
  BY <1>7, <1>8, <1>9, <1>10, <1>11 DEF GroupsInv

\* And the answer that tells of it.
LEMMA GroupsChangeFails ==
    ASSUME GroupsInv, NEW c \in asked, GA!ChangeFails(c) PROVE GroupsInv'
<1>1. /\ c.op # "load" /\ c.ph \in {"error", "exists"} /\ asked' = asked \ {c}
      /\ memberConflict' = IF c.ph = "exists" THEN c.u ELSE memberConflict
      /\ memberSaving' = (memberSaving /\ ~GA!Frees(c))
      /\ resettingMemberID' = IF c.op = "reset" THEN None ELSE resettingMemberID
      /\ UNCHANGED <<exists, names, memberOf, adminOf, accounts, current, members, admins, groupEditName, dialog, unsure>>
  BY DEF GA!ChangeFails, GA!server, GA!shown, GA!OtherCalls
<1>2. c \in Order
  BY DEF GroupsInv, GroupTypes
<1>3. GroupTypes' /\ GA!GroupNamesAreOwn' /\ groupEditName' = current' /\ GA!AskedOfOpenGroup'
  <2>1. memberConflict' \in Users \cup {None} /\ memberSaving' \in BOOLEAN /\ resettingMemberID' \in Users \cup {None}
    BY <1>1, <1>2 DEF GroupsInv, GroupTypes, GA!TypeOK, Order
  <2> QED
    BY <1>1, <2>1 DEF GroupsInv, GroupTypes, GA!TypeOK, GA!GroupNamesAreOwn, GA!Quiet, GA!AskedOfOpenGroup
<1>4. OrdersFit' /\ LocksHeld'
  BY <1>1 DEF GroupsInv, OrdersFit, LocksHeld, GA!Frees, GroupTypes, GA!TypeOK
<1>5. LoadsFit'
  <2>1. Counting(asked') = Counting(asked)
    BY <1>1 DEF Counting
  <2>2. ToBeRead => ToBeRead'
    BY <1>1 DEF ToBeRead, GA!Reloads
  <2>3. (UpToDate => UpToDate') /\ \A h : OfCurrent(h) => OfCurrent(h)'
    BY <1>1 DEF UpToDate, OfCurrent
  <2> QED
    BY <1>1, <2>1, <2>2, <2>3 DEF GroupsInv, LoadsFit
<1> QED
  BY <1>3, <1>4, <1>5 DEF GroupsInv

\* Every step keeps the invariant.
LEMMA GroupsStep ==
    ASSUME GroupsInv, ConstantsAssumption, [GA!Next]_(GA!vars) PROVE GroupsInv'
<1>1. CASE UNCHANGED GA!vars
  <2>1. UNCHANGED <<exists, names, memberOf, adminOf, accounts, current, members, admins, groupEditName, unsure,
                    memberConflict, memberSaving, resettingMemberID, dialog, asked>>
    BY <1>1 DEF GA!vars, GA!server, GA!shown, GA!locks
  <2>2. GroupTypes' /\ GA!GroupNamesAreOwn' /\ GA!AskedOfOpenGroup' /\ groupEditName' = current'
    BY <2>1 DEF GroupsInv, GroupTypes, GA!TypeOK, GA!GroupNamesAreOwn, GA!AskedOfOpenGroup, GA!Quiet
  <2>3. OrdersFit' /\ LocksHeld'
    BY <2>1 DEF GroupsInv, OrdersFit, LocksHeld
  <2>4. LoadsFit'
    BY <2>1 DEF GroupsInv, LoadsFit, Counting, ToBeRead, UpToDate, OfCurrent, GA!Reloads
  <2> QED
    BY <2>2, <2>3, <2>4 DEF GroupsInv
<1> QED
  BY <1>1, GroupsOrders, GroupsQuestions, GroupsSwitch, GroupsConfirm, GroupsServeLoad, GroupsServe, GroupsRefuse,
     GroupsLoadDone, GroupsChangeDone, GroupsChangeFails DEF GA!Next

\* With nothing under way nothing is to be read, and no load counts.
LEMMA GroupsShown == ASSUME GroupsInv PROVE GA!MembersOfGroup /\ GA!MembersSettle
<1>1. ASSUME asked = {}, ~unsure PROVE UpToDate
  BY <1>1 DEF GroupsInv, LoadsFit, ToBeRead, Counting
<1>2. GA!MembersOfGroup
  <2>1. ASSUME asked = {}, ~unsure, current \in exists, current # None
        PROVE  members = memberOf[current] /\ admins = adminOf[current]
    BY <1>1, <2>1 DEF UpToDate, OfCurrent
  <2>2. exists \subseteq Groups
    BY DEF GroupsInv, GroupTypes, GA!TypeOK
  <2>3. None \notin exists
    BY <2>2, ConstantsAssumption DEF ConstantsAssumption
  <2> QED
    BY <2>1, <2>3 DEF GA!MembersOfGroup
<1>3. GA!MembersSettle
  BY DEF GroupsInv, LocksHeld, GA!MembersSettle
<1> QED
  BY <1>2, <1>3

-----------------------------------------------------------------------------
(* The composers, by the names of their module.  One upload and one save    *)
(* run at a time, and a post that names a file of another ministry is       *)
(* refused.  While a text is saved its form has it still, or one that was   *)
(* typed since or that the server has; and the server has what is shared,   *)
(* and what it acknowledged.  So an acknowledged save empties no other.     *)

ministry  == s1
shares    == s2
posts     == s3
uploaded  == s4
share     == s5
progress  == s6
picked    == s7
saving    == s8
uploading == s9
sent      == s10
typed     == s11
kept      == s12
during    == s13
gone      == s14
USE DEF ministry, shares, posts, uploaded, share, progress, picked, saving, uploading, sent, typed, kept, during,
        gone

ShareOf(s, n)    == s \in [id : {s.id}, m : Ministries \cup {None}, text : 0..n]
SentOf(c, n, F)  == c \in [op : {"share", "delete", "upload", "progress"}, m : Ministries, id : {c.id},
                           text : 0..n, files : SUBSET F, left : Nat, ph : {"sent", "ok", "error"}]

\* What a call says of the text in its form and of what the server has.
TextOf(c) ==
    /\ c.op # "upload" => saving
    /\ c.op = "share" => share.text \in {c.text} \cup kept \cup during
    /\ c.op = "progress" => progress.text \in {c.text} \cup kept \cup during
    /\ c.ph = "ok" /\ c.op \in {"share", "progress"} => c.text \in kept

TextsKept ==
    /\ 0 \in kept /\ \A s \in shares : s.text \in kept
    /\ \A c \in sent : TextOf(c)
    /\ \A c, d \in sent : c.op # "upload" /\ d.op # "upload" => c = d

DraftsInv ==
    /\ MD!TypeOK /\ MD!AttachmentsOfMinistry /\ MD!DraftsAreKept /\ MD!ComposersFree
    /\ typed \in Nat
    /\ share \in [id : {share.id}, text : 0..typed, open : BOOLEAN]
    /\ progress \in [text : 0..typed, files : SUBSET uploaded]
    /\ \A s \in shares : ShareOf(s, typed)
    /\ \A c \in sent : SentOf(c, typed, uploaded)
    /\ \A c, d \in sent : c.op = "upload" /\ d.op = "upload" => c = d
    /\ TextsKept

\* The invariant holds at the start.
LEMMA DraftsStart == ASSUME MD!Init PROVE DraftsInv
<1>1. \A s \in shares : ShareOf(s, typed)
  BY DEF MD!Init, ShareOf
<1>2. /\ share \in [id : {share.id}, text : 0..typed, open : BOOLEAN]
      /\ progress \in [text : 0..typed, files : SUBSET uploaded]
  BY DEF MD!Init, MD!NoShare, MD!NoProgress
<1>3. TextsKept
  BY DEF MD!Init, TextsKept
<1> QED
  BY <1>1, <1>2, <1>3 DEF MD!Init, DraftsInv, MD!TypeOK, MD!AttachmentsOfMinistry, MD!DraftsAreKept, MD!ComposersFree

\* The forms change while nothing is sent.
LEMMA DraftsForms ==
    ASSUME DraftsInv, UNCHANGED <<shares, posts, uploaded, saving, uploading, sent, gone>>,
           ministry' \in Ministries \cup {None}, picked' \subseteq uploaded,
           typed' \in Nat, typed <= typed',
           share' \in [id : {share'.id}, text : 0..typed', open : BOOLEAN],
           progress' \in [text : 0..typed', files : SUBSET uploaded],
           kept \subseteq kept', during \subseteq during',
           \/ share'.text \in {share.text} \cup kept' \cup during'
           \/ \A c \in sent : c.op # "share",
           \/ progress'.text \in {progress.text} \cup kept' \cup during'
           \/ \A c \in sent : c.op # "progress"
    PROVE  DraftsInv'
<1>1. \A x : x \in 0..typed => x \in 0..typed'
  BY DEF DraftsInv
<1>2. \A s \in shares : ShareOf(s, typed')
  BY <1>1 DEF DraftsInv, ShareOf
<1>3. \A c \in sent : SentOf(c, typed', uploaded)
  BY <1>1 DEF DraftsInv, SentOf
<1>4. share'.text \in 0..typed' /\ progress'.text \in 0..typed' /\ progress'.files \subseteq uploaded
  OBVIOUS
<1>5. TextsKept'
  BY DEF DraftsInv, TextsKept, TextOf
<1> QED
  BY <1>2, <1>3, <1>4, <1>5 DEF DraftsInv, MD!TypeOK, MD!AttachmentsOfMinistry, MD!DraftsAreKept, MD!ComposersFree

\* Typing, choosing and emptying drafts keeps the invariant.
LEMMA DraftsWritten ==
    ASSUME DraftsInv,
           \/ \E m \in Ministries \cup {None} : MD!Select(m)
           \/ \E s \in shares : MD!editShare(s)
           \/ MD!startShareDraft \/ MD!resetShareForm \/ MD!resetProgressForm \/ MD!TypeShare \/ MD!TypeProgress
           \/ MD!downloadSelectedAttachments
           \/ \E f \in uploaded : MD!removeProgressAsset(f) \/ MD!toggleAttachmentSelection(f)
    PROVE  DraftsInv'
<1>1. /\ typed \in Nat /\ ministry \in Ministries \cup {None} /\ picked \subseteq uploaded
      /\ share \in [id : {share.id}, text : 0..typed, open : BOOLEAN]
      /\ progress \in [text : 0..typed, files : SUBSET uploaded]
      /\ \A s \in shares : ShareOf(s, typed) /\ s.text \in kept
      /\ 0 \in kept
  BY DEF DraftsInv, TextsKept, MD!TypeOK
<1> USE DEF MD!Act, MD!server, MD!forms, MD!locks, MD!ghost, MD!Drop
<1>2. ASSUME NEW m \in Ministries \cup {None}, MD!Select(m) PROVE DraftsInv'
  BY <1>1, <1>2, DraftsForms DEF MD!Select
<1>3. ASSUME NEW s \in shares, MD!editShare(s) PROVE DraftsInv'
  BY <1>1, <1>3, DraftsForms DEF MD!editShare, ShareOf
<1>4. CASE MD!startShareDraft
  <2>1. share' = [id |-> 0, text |-> 0, open |-> TRUE]
    BY <1>4 DEF MD!startShareDraft, MD!NoShare
  <2>2. share' \in [id : {share'.id}, text : 0..typed, open : BOOLEAN] /\ share'.text \in kept
    BY <1>1, <2>1
  <2> QED
    BY <1>1, <1>4, <2>2, DraftsForms DEF MD!startShareDraft
<1>5. CASE MD!resetShareForm
  BY <1>1, <1>5, DraftsForms DEF MD!resetShareForm, MD!NoShare
<1>6. CASE MD!resetProgressForm
  BY <1>1, <1>6, DraftsForms DEF MD!resetProgressForm, MD!NoProgress
<1>7. CASE MD!TypeShare
  <2>1. typed' \in Nat /\ typed <= typed' /\ share' = [share EXCEPT !.text = typed']
    BY <1>1, <1>7 DEF MD!TypeShare, MD!Types
  <2>2. share' \in [id : {share'.id}, text : 0..typed', open : BOOLEAN]
    BY <1>1, <2>1
  <2>3. progress \in [text : 0..typed', files : SUBSET uploaded]
    BY <1>1, <2>1
  <2>4. /\ kept \subseteq kept' /\ during \subseteq during'
        /\ share'.text \in during' \/ \A c \in sent : c.op # "share"
        /\ UNCHANGED <<shares, posts, uploaded, saving, uploading, sent, gone, ministry, picked, progress>>
    BY <1>1, <1>7, <2>1 DEF MD!TypeShare, MD!Types
  <2> QED
    BY <1>1, <2>1, <2>2, <2>3, <2>4, DraftsForms
<1>8. CASE MD!TypeProgress
  <2>1. typed' \in Nat /\ typed <= typed' /\ progress' = [progress EXCEPT !.text = typed']
    BY <1>1, <1>8 DEF MD!TypeProgress, MD!Types
  <2>2. share \in [id : {share.id}, text : 0..typed', open : BOOLEAN]
    BY <1>1, <2>1
  <2>3. progress' \in [text : 0..typed', files : SUBSET uploaded]
    BY <1>1, <2>1
  <2>4. /\ kept \subseteq kept' /\ during \subseteq during'
        /\ progress'.text \in during' \/ \A c \in sent : c.op # "progress"
        /\ UNCHANGED <<shares, posts, uploaded, saving, uploading, sent, gone, ministry, picked, share>>
    BY <1>1, <1>8, <2>1 DEF MD!TypeProgress, MD!Types
  <2> QED
    BY <1>1, <2>1, <2>2, <2>3, <2>4, DraftsForms
<1>9. CASE MD!downloadSelectedAttachments
  BY <1>1, <1>9, DraftsForms DEF MD!downloadSelectedAttachments
<1>10. ASSUME NEW f \in uploaded, MD!removeProgressAsset(f) PROVE DraftsInv'
  <2>1. progress' \in [text : 0..typed, files : SUBSET uploaded]
    BY <1>1, <1>10 DEF MD!removeProgressAsset
  <2> QED
    BY <1>1, <1>10, <2>1, DraftsForms DEF MD!removeProgressAsset
<1>11. ASSUME NEW f \in uploaded, MD!toggleAttachmentSelection(f) PROVE DraftsInv'
  BY <1>1, <1>11, DraftsForms DEF MD!toggleAttachmentSelection
<1> QED
  BY <1>2, <1>3, <1>4, <1>5, <1>6, <1>7, <1>8, <1>9, <1>10, <1>11

\* What is sent takes the texts and files of its ministry.
LEMMA DraftsSent ==
    ASSUME DraftsInv,
           \/ MD!saveShare \/ MD!saveProgress \/ \E s \in shares : MD!deleteShare(s)
           \/ \E n \in 1..2 : MD!uploadAttachments(n)
    PROVE  DraftsInv'
<1> DEFINE Sent(c) ==
       /\ sent' = sent \cup {c} /\ SentOf(c, typed, uploaded)
       /\ UNCHANGED <<ministry, shares, posts, uploaded, share, progress, picked, typed, kept, during, gone>>
<1>1. ministry # None => ministry \in Ministries
  BY DEF DraftsInv, MD!TypeOK
<1>2. CASE \E c : /\ Sent(c) /\ c.op # "upload" /\ saving = FALSE /\ saving' = TRUE /\ uploading' = uploading
                  /\ c.op = "share" => c.text = share.text
                  /\ c.op = "progress" => c.text = progress.text
                  /\ c.ph = "sent"
  <2>1. PICK c : /\ Sent(c) /\ c.op # "upload" /\ saving = FALSE /\ saving' = TRUE /\ uploading' = uploading
                 /\ c.op = "share" => c.text = share.text
                 /\ c.op = "progress" => c.text = progress.text
                 /\ c.ph = "sent"
    BY <1>2
  <2>2. \A d \in sent : d.op = "upload"
    BY <2>1 DEF DraftsInv, TextsKept, TextOf
  <2>3. TextsKept'
    <3>1. \A d \in sent' : TextOf(d)'
      BY <2>1, <2>2 DEF TextOf
    <3> QED
      BY <2>1, <2>2, <3>1 DEF DraftsInv, TextsKept
  <2>4. MD!ComposersFree'
    BY <2>1 DEF DraftsInv, MD!ComposersFree
  <2>5. /\ \A d \in sent' : SentOf(d, typed, uploaded)
        /\ \A d, e \in sent' : d.op = "upload" /\ e.op = "upload" => d = e
    BY <2>1 DEF DraftsInv
  <2> HIDE DEF Sent
  <2> QED
    BY <2>1, <2>3, <2>4, <2>5 DEF Sent, DraftsInv, MD!TypeOK, MD!AttachmentsOfMinistry, MD!DraftsAreKept, MD!ComposersFree
<1>3. CASE \E c : Sent(c) /\ c.op = "upload" /\ uploading = FALSE /\ uploading' = TRUE /\ saving' = saving
  <2>1. TextsKept'
    BY <1>3 DEF DraftsInv, TextsKept, TextOf
  <2> QED
    BY <1>3, <2>1 DEF DraftsInv, MD!TypeOK, MD!AttachmentsOfMinistry, MD!DraftsAreKept, MD!ComposersFree
<1> USE DEF MD!Free, MD!Act, MD!server, MD!forms, MD!ghost
<1>4. CASE MD!saveShare
  <2> DEFINE c == [MD!Call("share") EXCEPT !.id = share.id, !.text = share.text]
  <2>1. SentOf(c, typed, uploaded) /\ c.op = "share" /\ c.text = share.text /\ c.ph = "sent"
    BY <1>1, <1>4 DEF MD!saveShare, DraftsInv, MD!Call, SentOf
  <2>2. saving = FALSE
    BY <1>4 DEF MD!saveShare, DraftsInv, MD!TypeOK
  <2> QED
    BY <1>2, <1>4, <2>1, <2>2 DEF MD!saveShare
<1>5. CASE MD!saveProgress
  <2> DEFINE c == [MD!Call("progress") EXCEPT !.text = progress.text, !.files = progress.files]
  <2>1. SentOf(c, typed, uploaded) /\ c.op = "progress" /\ c.text = progress.text /\ c.ph = "sent"
    BY <1>1, <1>5 DEF MD!saveProgress, DraftsInv, MD!Call, SentOf
  <2>2. saving = FALSE
    BY <1>5 DEF MD!saveProgress, DraftsInv, MD!TypeOK
  <2> QED
    BY <1>2, <1>5, <2>1, <2>2 DEF MD!saveProgress
<1>6. ASSUME NEW s \in shares, MD!deleteShare(s) PROVE DraftsInv'
  <2> DEFINE c == [MD!Call("delete") EXCEPT !.id = s.id]
  <2>1. SentOf(c, typed, uploaded) /\ c.op = "delete" /\ c.ph = "sent"
    BY <1>1, <1>6 DEF MD!deleteShare, DraftsInv, MD!Call, SentOf
  <2>2. saving = FALSE
    BY <1>6 DEF MD!deleteShare, DraftsInv, MD!TypeOK
  <2> QED
    BY <1>2, <1>6, <2>1, <2>2 DEF MD!deleteShare
<1>7. ASSUME NEW n \in 1..2, MD!uploadAttachments(n) PROVE DraftsInv'
  <2> DEFINE c == [MD!Call("upload") EXCEPT !.left = n]
  <2>1. SentOf(c, typed, uploaded) /\ c.op = "upload"
    BY <1>1, <1>7 DEF MD!uploadAttachments, DraftsInv, MD!Call, SentOf
  <2>2. uploading = FALSE
    BY <1>7 DEF MD!uploadAttachments, DraftsInv, MD!TypeOK
  <2> QED
    BY <1>3, <1>7, <2>1, <2>2 DEF MD!uploadAttachments
<1> QED
  BY <1>4, <1>5, <1>6, <1>7

\* The server does what c asks, and answers a or is not heard: what it keeps grows, and the
\* answer is of what was sent.
LEMMA DraftsAnswered ==
    ASSUME DraftsInv, NEW c \in sent, NEW a, MD!Answered(c, a),
           uploaded \subseteq uploaded', \A f \in uploaded' : f.m \in Ministries,
           a.op = c.op, a.text = c.text, SentOf(a, typed, uploaded'),
           kept \subseteq kept', a.ph = "ok" /\ a.op \in {"share", "progress"} => c.text \in kept',
           \A s \in shares' : ShareOf(s, typed) /\ s.text \in kept', MD!AttachmentsOfMinistry'
    PROVE  DraftsInv'
<1>1. UNCHANGED <<ministry, share, progress, picked, saving, uploading, typed, during, gone>>
  BY DEF MD!Answered, MD!Client, MD!forms, MD!locks
<1>2. \A d \in sent : SentOf(d, typed, uploaded')
  BY DEF DraftsInv, SentOf
<1>3. PICK b : /\ sent' = (sent \ {c}) \cup {b} /\ b.op = c.op /\ b.text = c.text /\ SentOf(b, typed, uploaded')
               /\ b.ph = "ok" /\ b.op \in {"share", "progress"} => c.text \in kept'
  <2>1. sent' = (sent \ {c}) \cup {a} \/ sent' = (sent \ {c}) \cup {MD!Refused(c)}
    BY DEF MD!Answered, MD!OtherCalls
  <2>2. /\ SentOf(MD!Refused(c), typed, uploaded') /\ MD!Refused(c).op = c.op /\ MD!Refused(c).text = c.text
        /\ MD!Refused(c).ph = "error"
    BY <1>2 DEF MD!Refused, SentOf
  <2> QED
    BY <2>1, <2>2
<1>4. /\ \A d \in sent' : SentOf(d, typed, uploaded')
      /\ \A d, e \in sent' : d.op = "upload" /\ e.op = "upload" => d = e
  BY <1>2, <1>3 DEF DraftsInv
<1>5. MD!ComposersFree'
  BY <1>1, <1>3 DEF DraftsInv, MD!ComposersFree
<1>6. progress \in [text : 0..typed, files : SUBSET uploaded']
  BY DEF DraftsInv
<1>7. TextsKept'
  BY <1>1, <1>3 DEF DraftsInv, TextsKept, TextOf
<1> QED
  BY <1>1, <1>4, <1>5, <1>6, <1>7 DEF DraftsInv, MD!TypeOK, MD!DraftsAreKept

\* Each service keeps the invariant.
LEMMA DraftsServed ==
    ASSUME DraftsInv, NEW c \in sent,
           MD!ServeShare(c) \/ MD!ServeDelete(c) \/ MD!ServeUpload(c) \/ MD!ServeProgress(c) \/ MD!Lost(c)
    PROVE  DraftsInv'
<1>1. /\ SentOf(c, typed, uploaded) /\ \A s \in shares : ShareOf(s, typed) /\ s.text \in kept
      /\ \A f \in uploaded : f.m \in Ministries
      /\ MD!AttachmentsOfMinistry
  BY DEF DraftsInv, TextsKept, MD!TypeOK
<1>2. \A ph \in {"ok", "error"} : /\ SentOf([c EXCEPT !.ph = ph], typed, uploaded)
                                  /\ [c EXCEPT !.ph = ph].op = c.op /\ [c EXCEPT !.ph = ph].text = c.text
                                  /\ [c EXCEPT !.ph = ph].ph = ph
  BY <1>1 DEF SentOf
<1>3. ASSUME posts' = posts, uploaded' = uploaded, kept \subseteq kept',
             \A s \in shares' : ShareOf(s, typed) /\ s.text \in kept',
             \/ MD!Answered(c, MD!Fine(c)) /\ (c.op \in {"share", "progress"} => c.text \in kept')
             \/ MD!Answered(c, MD!Refused(c))
      PROVE  DraftsInv'
  <2>1. PICK ph \in {"ok", "error"} :
           /\ MD!Answered(c, [c EXCEPT !.ph = ph])
           /\ ph = "ok" /\ c.op \in {"share", "progress"} => c.text \in kept'
    BY <1>3, Zenon DEF MD!Fine, MD!Refused
  <2>2. MD!AttachmentsOfMinistry'
    BY <1>1, <1>3 DEF MD!AttachmentsOfMinistry
  <2> DEFINE a == [c EXCEPT !.ph = ph]
  <2>3. a.op = c.op /\ a.text = c.text /\ a.ph = ph /\ SentOf(a, typed, uploaded)
    BY <1>2
  <2>4. MD!Answered(c, a) /\ (a.ph = "ok" /\ a.op \in {"share", "progress"} => c.text \in kept')
    BY <2>1, <2>3
  <2> HIDE DEF a
  <2> QED
    BY <1>1, <1>3, <2>2, <2>3, <2>4, DraftsAnswered
<1>4. CASE MD!ServeShare(c)
  <2> DEFINE old == {s \in shares : s.id = c.id /\ s.m = c.m}
  <2>1. \/ MD!Answered(c, MD!Fine(c)) /\ kept' = kept \cup {c.text}
        \/ MD!Answered(c, MD!Refused(c)) /\ kept' = kept /\ shares' = shares
    BY <1>4, Zenon DEF MD!ServeShare, MD!Stored
  <2>2. \/ \E n : shares' = shares \cup {[id |-> n, m |-> c.m, text |-> c.text]} /\ kept' = kept \cup {c.text}
        \/ shares' = (shares \ old) \cup {[s EXCEPT !.text = c.text] : s \in old} /\ kept' = kept \cup {c.text}
        \/ shares' = shares /\ kept' = kept
    BY <1>4, Zenon DEF MD!ServeShare, MD!Stored
  <2>3. \A s \in shares' : ShareOf(s, typed) /\ s.text \in kept'
    <3>1. \A n : /\ ShareOf([id |-> n, m |-> c.m, text |-> c.text], typed)
                 /\ [id |-> n, m |-> c.m, text |-> c.text].text = c.text
      BY <1>1 DEF SentOf, ShareOf
    <3>2. \A s \in old : ShareOf([s EXCEPT !.text = c.text], typed) /\ [s EXCEPT !.text = c.text].text = c.text
      BY <1>1 DEF SentOf, ShareOf
    <3>3. \A s \in shares : s.text \in kept
      BY <1>1
    <3> HIDE DEF old
    <3>4. CASE \E n : shares' = shares \cup {[id |-> n, m |-> c.m, text |-> c.text]} /\ kept' = kept \cup {c.text}
      BY <1>1, <3>1, <3>3, <3>4
    <3>5. CASE shares' = (shares \ old) \cup {[s EXCEPT !.text = c.text] : s \in old} /\ kept' = kept \cup {c.text}
      BY <1>1, <3>2, <3>3, <3>5
    <3>6. CASE shares' = shares /\ kept' = kept
      BY <1>1, <3>6
    <3> QED
      BY <2>2, <3>4, <3>5, <3>6 DEF old
  <2>4. posts' = posts /\ uploaded' = uploaded
    BY <1>4 DEF MD!ServeShare
  <2> QED
    BY <1>3, <2>1, <2>3, <2>4
<1>5. CASE MD!ServeDelete(c)
  <2>1. (MD!Answered(c, MD!Fine(c)) \/ MD!Answered(c, MD!Refused(c))) /\ c.op = "delete" /\ kept' = kept
    BY <1>5, Zenon DEF MD!ServeDelete
  <2>2. shares' = {IF s.id = c.id /\ s.m = c.m THEN [s EXCEPT !.m = None] ELSE s : s \in shares}
    BY <1>5 DEF MD!ServeDelete
  <2>3. \A s \in shares : ShareOf([s EXCEPT !.m = None], typed) /\ [s EXCEPT !.m = None].text = s.text
    BY <1>1 DEF ShareOf
  <2>4. \A s \in shares' : ShareOf(s, typed) /\ s.text \in kept'
    BY <1>1, <2>1, <2>2, <2>3
  <2>5. posts' = posts /\ uploaded' = uploaded
    BY <1>5 DEF MD!ServeDelete
  <2> QED
    BY <1>3, <2>1, <2>4, <2>5
<1>6. CASE MD!Lost(c)
  <2>1. MD!Answered(c, MD!Refused(c)) /\ UNCHANGED <<shares, posts, uploaded, kept>>
    BY <1>6, Zenon DEF MD!Lost, MD!Answered, MD!server
  <2> QED
    BY <1>1, <1>3, <2>1, Zenon
<1>7. CASE MD!ServeProgress(c)
  <2>1. shares' = shares /\ uploaded' = uploaded
    BY <1>7 DEF MD!ServeProgress
  <2>2. CASE \A f \in c.files : MD!Attachable(f, c.m)
    <3>1. /\ posts' = posts \cup {[m |-> c.m, text |-> c.text, files |-> c.files]} /\ MD!Answered(c, MD!Fine(c))
          /\ kept' = kept \cup {c.text}
      BY <1>7, <2>2 DEF MD!ServeProgress, MD!Stored
    <3>2. MD!AttachmentsOfMinistry'
      BY <1>1, <2>2, <3>1 DEF MD!AttachmentsOfMinistry, MD!Attachable
    <3> DEFINE a == MD!Fine(c)
    <3>3. a.op = c.op /\ a.text = c.text /\ SentOf(a, typed, uploaded) /\ MD!Answered(c, a)
      BY <1>2, <3>1 DEF MD!Fine
    <3> HIDE DEF a
    <3> QED
      BY <1>1, <2>1, <3>1, <3>2, <3>3, DraftsAnswered
  <2>3. CASE ~\A f \in c.files : MD!Attachable(f, c.m)
    <3>1. posts' = posts /\ kept' = kept /\ MD!Answered(c, MD!Refused(c))
      BY <1>7, <2>3 DEF MD!ServeProgress
    <3> QED
      BY <1>1, <1>3, <2>1, <3>1
  <2> QED
    BY <2>2, <2>3
<1>8. CASE MD!ServeUpload(c)
  <2>1. PICK n : /\ uploaded' = uploaded \cup {[id |-> n, m |-> c.m]}
                 /\ MD!Answered(c, [MD!Fine(c) EXCEPT !.files = {[id |-> n, m |-> c.m]}])
    BY <1>8 DEF MD!ServeUpload
  <2>2. shares' = shares /\ posts' = posts /\ kept' = kept /\ c.op = "upload"
    BY <1>8 DEF MD!ServeUpload
  <2> DEFINE f == [id |-> n, m |-> c.m]
             a == [MD!Fine(c) EXCEPT !.files = {f}]
  <2>3. f.m \in Ministries /\ uploaded' = uploaded \cup {f} /\ MD!Answered(c, a)
    BY <1>1, <2>1 DEF SentOf
  <2> HIDE DEF f
  <2>4. a.op = c.op /\ a.text = c.text /\ SentOf(a, typed, uploaded')
    BY <1>1, <2>3 DEF SentOf, MD!Fine
  <2> HIDE DEF a
  <2>5. MD!AttachmentsOfMinistry'
    BY <1>1, <2>2 DEF MD!AttachmentsOfMinistry
  <2> QED
    BY <1>1, <2>2, <2>3, <2>4, <2>5, DraftsAnswered
<1> QED
  BY <1>4, <1>5, <1>6, <1>7, <1>8

\* A form is emptied only by an answer that says its text was saved: what it has by then is
\* that text, one the server has, or one that was typed under way.
LEMMA DraftsSaved ==
    ASSUME DraftsInv, NEW c \in sent, MD!Saved(c) PROVE DraftsInv'
<1>1. /\ c.op # "upload" /\ sent' = sent \ {c} /\ saving' = FALSE
      /\ UNCHANGED <<ministry, shares, posts, uploaded, picked, uploading>>
  BY DEF MD!Saved, MD!OtherCalls, MD!Same, MD!server
<1>2. /\ share \in [id : {share.id}, text : 0..typed, open : BOOLEAN] /\ typed \in Nat /\ gone = {}
      /\ progress \in [text : 0..typed, files : SUBSET uploaded]
      /\ TextOf(c) /\ TextsKept
  BY DEF DraftsInv, TextsKept, MD!DraftsAreKept, MD!TypeOK
<1>3. /\ MD!NoShare \in [id : {MD!NoShare.id}, text : 0..typed, open : BOOLEAN]
      /\ MD!NoProgress \in [text : 0..typed, files : SUBSET uploaded]
  BY <1>2 DEF MD!NoShare, MD!NoProgress
<1>4. ASSUME NEW text \in kept \cup during, MD!Forget(text)
      PROVE  gone' = {} /\ typed' = typed /\ kept \subseteq kept'
  BY <1>2, <1>4 DEF MD!Forget
<1>5. /\ share' \in [id : {share'.id}, text : 0..typed, open : BOOLEAN] /\ typed' = typed /\ gone' = {}
      /\ progress' \in [text : 0..typed, files : SUBSET uploaded]
      /\ kept \subseteq kept'
  <2>1. CASE MD!Empties(c) /\ c.op = "share"
    <3>1. share' = MD!NoShare /\ MD!Forget(share.text) /\ progress' = progress
      BY <2>1 DEF MD!Saved
    <3>2. share.text \in kept \cup during
      BY <1>2, <2>1 DEF TextOf, MD!Empties
    <3> QED
      BY <1>2, <1>3, <1>4, <3>1, <3>2
  <2>2. CASE MD!Empties(c) /\ c.op # "share"
    <3>1. progress' = MD!NoProgress /\ MD!Forget(progress.text) /\ share' = share
      BY <2>2 DEF MD!Saved
    <3>2. progress.text \in kept \cup during
      BY <1>2, <2>2 DEF TextOf, MD!Empties
    <3> QED
      BY <1>2, <1>3, <1>4, <3>1, <3>2
  <2>3. CASE ~MD!Empties(c)
    <3>1. /\ share' = MD!NoShare \/ share' = share
          /\ progress' = progress /\ typed' = typed /\ gone' = gone /\ kept \subseteq kept'
      BY <2>3 DEF MD!Saved, MD!forms
    <3> QED
      BY <1>2, <1>3, <3>1
  <2> QED
    BY <2>1, <2>2, <2>3
<1>6. MD!ComposersFree'
  BY <1>1 DEF DraftsInv, MD!ComposersFree
<1>7. TextsKept'
  <2>1. \A d \in sent' : d \in sent /\ d.op = "upload"
    BY <1>1, <1>2 DEF TextsKept
  <2>2. \A d \in sent' : TextOf(d)'
    BY <2>1 DEF TextOf
  <2> QED
    BY <1>1, <1>2, <1>5, <2>1, <2>2 DEF TextsKept
<1> QED
  BY <1>1, <1>2, <1>5, <1>6, <1>7 DEF DraftsInv, MD!TypeOK, MD!AttachmentsOfMinistry, MD!DraftsAreKept

\* An uploaded file is ticked in the drafts of its ministry only.
LEMMA DraftsUploaded ==
    ASSUME DraftsInv, NEW c \in sent, MD!Uploaded(c) PROVE DraftsInv'
<1> DEFINE d == [c EXCEPT !.left = @ - 1, !.ph = "sent", !.files = {}]
<1>1. /\ c.op = "upload" /\ progress' = [progress EXCEPT !.files = @ \cup c.files]
      /\ sent' = (sent \ {c}) \cup IF MD!More(c) THEN {d} ELSE {}
      /\ uploading' = (uploading /\ MD!More(c))
      /\ UNCHANGED <<ministry, shares, posts, uploaded, picked, share, saving, typed, kept, during, gone>>
      /\ progress'.text = progress.text
  BY DEF DraftsInv, MD!Uploaded, MD!OtherCalls, MD!Same, MD!server, MD!ghost, MD!Unlocked
<1>2. SentOf(c, typed, uploaded) /\ uploading = TRUE
  BY <1>1 DEF DraftsInv, MD!ComposersFree, MD!TypeOK
<1>3. MD!More(c) => SentOf(d, typed, uploaded) /\ d.op = "upload"
  <2>1. MD!More(c) => c.left - 1 \in Nat
    BY <1>2 DEF SentOf, MD!More
  <2> QED
    BY <1>1, <1>2, <2>1 DEF SentOf
<1> HIDE DEF d
<1>4. progress' \in [text : 0..typed, files : SUBSET uploaded]
  BY <1>1, <1>2 DEF DraftsInv, SentOf
<1>5. \A e \in sent \ {c} : e.op # "upload"
  BY <1>1 DEF DraftsInv
<1>8. TextsKept'
  BY <1>1, <1>3 DEF DraftsInv, TextsKept, TextOf
<1>6. CASE MD!More(c)
  <2>1. sent' = (sent \ {c}) \cup {d} /\ uploading' = TRUE
    BY <1>1, <1>2, <1>6
  <2>2. \A e, h \in sent' : e.op = "upload" /\ h.op = "upload" => e = h
    BY <1>5, <2>1
  <2>3. \A e \in sent' : SentOf(e, typed, uploaded)
    BY <1>3, <1>6, <2>1 DEF DraftsInv
  <2>4. MD!ComposersFree'
    BY <1>1, <1>3, <1>6, <2>1 DEF DraftsInv, MD!ComposersFree
  <2> QED
    BY <1>1, <1>4, <1>8, <2>1, <2>2, <2>3, <2>4 DEF DraftsInv, MD!TypeOK, MD!AttachmentsOfMinistry, MD!DraftsAreKept
<1>7. CASE ~MD!More(c)
  <2>1. sent' = sent \ {c} /\ uploading' = FALSE
    BY <1>1, <1>7
  <2>2. MD!ComposersFree'
    BY <1>1, <1>5, <2>1 DEF DraftsInv, MD!ComposersFree
  <2> QED
    BY <1>1, <1>4, <1>8, <2>1, <2>2 DEF DraftsInv, MD!TypeOK, MD!AttachmentsOfMinistry, MD!DraftsAreKept
<1> QED
  BY <1>6, <1>7

\* Every step keeps the invariant.
LEMMA DraftsStep ==
    ASSUME DraftsInv, [MD!Next]_(MD!vars) PROVE DraftsInv'
<1>1. CASE UNCHANGED MD!vars
  BY <1>1 DEF MD!vars, MD!server, MD!forms, MD!locks, MD!ghost, DraftsInv, MD!TypeOK, MD!AttachmentsOfMinistry,
              MD!DraftsAreKept, MD!ComposersFree, ShareOf, SentOf, TextsKept, TextOf
<1> QED
  BY <1>1, DraftsWritten, DraftsSent, DraftsServed, DraftsSaved, DraftsUploaded DEF MD!Next

-----------------------------------------------------------------------------
(* The feedback.  A chain of requests whose list, item or question is still *)
(* the last one says so; the item of such a chain is the open one, what it  *)
(* is about to mark as read was on the screen, and what it brings as unread *)
(* is not yet acknowledged.                                                 *)

entries       == s2
news          == s3
cursor        == s4
mounted       == s5
source        == s6
listed        == s7
opening       == s8
opened        == s9
urls          == s10
listLoading   == s11
detailLoading == s12
sending       == s13
unread        == s14
chains        == s15
seen          == s16
acked         == s17
behind        == s18
failed        == s19
mishaps       == s21
USE DEF entries, news, cursor, mounted, source, listed, opening, opened, urls, listLoading, detailLoading,
        sending, unread, chains, seen, acked, behind, failed, mishaps

Entries == {1, 2}
Chain   == [op : {"list", "open", "poll"} \cup FE!Locks, id : Entries \cup {0},
            stage : {"list", "detail", "image", "read", "unread", "api"}, ph : {"sent", "ok", "error"},
            new : Nat, ids : SUBSET Entries, source : {"all", "manual"},
            lnow : BOOLEAN, dnow : BOOLEAN, unow : BOOLEAN]

FeedbackTypes ==
    /\ FE!TypeOK /\ chains \subseteq Chain /\ mishaps \in Nat
    /\ opened \in [id : Entries \cup {0}, new : Nat]
    /\ seen \in [Entries -> Nat] /\ acked \in [Entries -> Nat] /\ behind \in BOOLEAN /\ failed \in BOOLEAN

\* A chain that goes on: what it says is so of what is shown and of what the server has.
Follows(c) ==
    /\ c.dnow => c.id = opening
    /\ c.ids \subseteq entries
    /\ c.stage \in {"detail", "image", "read"} => c.id \in Entries
    /\ c.lnow => c.source = source
    /\ c.stage = "api" => (c.op \in FE!Locks /\ ~c.dnow)
    /\ c.stage = "read" => behind \/ c.new <= seen[c.id]
    /\ c.stage = "read" /\ c.ph = "ok" => c.new <= cursor[c.id]
    /\ c.stage = "unread" /\ c.ph = "ok" /\ c.unow => \A id \in c.ids : news[id] > acked[id]

Submitted   == \E c \in chains : c.stage = "api" /\ c.op = "submit" /\ c.ph = "ok"
\* With no failure the list that is shown, or on its way, has every entry.
Listed ==
    mishaps = 0 /\ ~failed /\ ~Submitted =>
        /\ \A c \in chains : c.stage = "list" /\ c.ph = "ok" /\ c.lnow /\ c.source = "all" => c.ids = entries
        /\ source = "all" => listed = entries \/ \E c \in chains : c.stage = "list" /\ c.lnow

Busy ==
    /\ listLoading => \E c \in chains : c.lnow
    /\ detailLoading => \E c \in chains : c.dnow
    /\ \A op \in sending : \E c \in chains : c.op = op

Acknowledged == \A id \in Entries : acked[id] <= cursor[id]

FeedbackInv ==
    /\ FeedbackTypes /\ FE!ShowsWhatIsOpen /\ FE!UnseenStaysUnread /\ FE!DotStaysAway
    /\ Acknowledged /\ Listed /\ Busy /\ \A c \in chains : Follows(c)

\* The later of two replies is one of them, and none is later.
LEMMA LargerOfTwo ==
    ASSUME NEW a \in Nat, NEW b \in Nat
    PROVE  FE!Later(a, b) \in Nat /\ FE!Later(a, b) >= a /\ FE!Later(a, b) >= b /\ FE!Later(a, b) \in {a, b}
BY DEF FE!Later

\* d is e, or e with fewer of the three marks.
Less(d, e) ==
    /\ d \in Chain /\ d.op = e.op /\ d.id = e.id /\ d.stage = e.stage /\ d.ph = e.ph /\ d.new = e.new
    /\ d.ids = e.ids /\ d.source = e.source
    /\ (d.lnow => e.lnow) /\ (d.dnow => e.dnow) /\ (d.unow => e.unow)

\* The chains T are those of S, with fewer marks.
Fewer(T, S) ==
    /\ \A d \in T : \E e \in S : Less(d, e)
    /\ \A e \in S : \E d \in T : Less(d, e)

\* Closing takes the mark of the detail only.
LEMMA ClosedFewer ==
    ASSUME NEW S, S \subseteq Chain
    PROVE  /\ Fewer(FE!Closed(S), S)
           /\ \A d \in FE!Closed(S) : ~d.dnow
           /\ \A e \in S : \E d \in FE!Closed(S) : Less(d, e) /\ d.lnow = e.lnow
           /\ \A d \in FE!Closed(S) : \E e \in S : Less(d, e) /\ d.lnow = e.lnow
<1> DEFINE L(e) == [e EXCEPT !.dnow = FALSE]
<1>1. \A e \in S : Less(L(e), e) /\ ~L(e).dnow /\ L(e).lnow = e.lnow
  BY DEF Less, Chain
<1>2. FE!Closed(S) = {L(e) : e \in S}
  BY DEF FE!Closed
<1> HIDE DEF L
<1> QED
  BY <1>1, <1>2 DEF Fewer

\* A new list takes the mark of the list only.
LEMMA UnlistedFewer ==
    ASSUME NEW S, S \subseteq Chain
    PROVE  /\ Fewer(FE!Unlisted(S), S)
           /\ \A d \in FE!Unlisted(S) : ~d.lnow
           /\ \A e \in S : \E d \in FE!Unlisted(S) : Less(d, e) /\ d.dnow = e.dnow
<1> DEFINE L(e) == [e EXCEPT !.lnow = FALSE]
<1>1. \A e \in S : Less(L(e), e) /\ ~L(e).lnow /\ L(e).dnow = e.dnow
  BY DEF Less, Chain
<1>2. FE!Unlisted(S) = {L(e) : e \in S}
  BY DEF FE!Unlisted
<1> HIDE DEF L
<1> QED
  BY <1>1, <1>2 DEF Fewer

\* A new request for the unread items takes their mark only.
LEMMA NewRequestFewer ==
    ASSUME NEW S, S \subseteq Chain
    PROVE  /\ Fewer(FE!NewRequest(S), S)
           /\ \A d \in FE!NewRequest(S) : ~d.unow
           /\ \A e \in S : \E d \in FE!NewRequest(S) : Less(d, e) /\ d.dnow = e.dnow /\ d.lnow = e.lnow
           /\ \A d \in FE!NewRequest(S) : \E e \in S : Less(d, e) /\ d.dnow = e.dnow /\ d.lnow = e.lnow
<1> DEFINE L(e) == [e EXCEPT !.unow = FALSE]
<1>1. \A e \in S : Less(L(e), e) /\ ~L(e).unow /\ L(e).dnow = e.dnow /\ L(e).lnow = e.lnow
  BY DEF Less, Chain
<1>2. FE!NewRequest(S) = {L(e) : e \in S}
  BY DEF FE!NewRequest
<1> HIDE DEF L
<1> QED
  BY <1>1, <1>2 DEF Fewer

\* What a chain says stays so while what is shown and known only grows, or its marks go.
LEMMA FollowsStill ==
    ASSUME FeedbackInv, NEW e \in chains, NEW d, Less(d, e),
           entries \subseteq entries', d.dnow => opening' = opening, d.lnow => source' = source,
           behind => behind',
           \A id \in Entries : seen'[id] >= seen[id] /\ cursor'[id] >= cursor[id] /\ seen'[id] \in Nat /\ cursor'[id] \in Nat,
           d.unow => \A id \in d.ids : news[id] > acked[id] => news'[id] > acked'[id]
    PROVE  Follows(d)'
<1>1. Follows(e) /\ e \in Chain /\ seen \in [Entries -> Nat] /\ cursor \in [Entries -> Nat]
  BY DEF FeedbackInv, FeedbackTypes, FE!TypeOK, Entries
<1>2. e.stage = "read" => e.id \in Entries /\ e.new \in Nat
  BY <1>1 DEF Follows, Chain
<1>3. d.stage = "read" => behind' \/ d.new <= seen'[d.id]
  BY <1>1, <1>2 DEF Follows, Less
<1>4. d.stage = "read" /\ d.ph = "ok" => d.new <= cursor'[d.id]
  BY <1>1, <1>2 DEF Follows, Less
<1> QED
  BY <1>1, <1>3, <1>4 DEF Follows, Less

\* The invariant holds at the start.
LEMMA FeedbackStart == ASSUME FE!Init PROVE FeedbackInv
<1> DEFINE d == FE!Call("list", "list")
           c == [d EXCEPT !.lnow = TRUE]
<1>1. source = "all"
  BY DEF FE!Init, FE!All
<1>2. d \in Chain /\ d.stage = "list" /\ ~d.dnow /\ ~d.unow /\ d.ids = {} /\ d.source = "all" /\ d.ph = "sent"
  BY <1>1 DEF FE!Call, Chain
<1>3. chains = {c}
  BY DEF FE!Init
<1> HIDE DEF d
<1>4. c \in Chain /\ c.stage = "list" /\ c.lnow /\ ~c.dnow /\ ~c.unow /\ c.ids = {} /\ c.source = "all" /\ c.ph = "sent"
  BY <1>2 DEF Chain
<1> HIDE DEF c
<1>5. FeedbackTypes
  BY <1>3, <1>4 DEF FE!Init, FeedbackTypes, FE!TypeOK, FE!NoDetail, FE!All, Entries
<1>6. \A e \in chains : Follows(e)
  BY <1>1, <1>3, <1>4 DEF Follows
<1>7. Busy /\ Acknowledged
  BY <1>3, <1>4 DEF FE!Init, Busy, Acknowledged, Entries
<1>8. Listed
  BY <1>3, <1>4 DEF Listed
<1> QED
  BY <1>5, <1>6, <1>7, <1>8 DEF FE!Init, FeedbackInv, FE!ShowsWhatIsOpen, FE!UnseenStaysUnread, FE!DotStaysAway, FE!NoDetail

\* The next stage of a chain.
LEMMA NextStage ==
    ASSUME NEW c \in Chain, NEW s \in {"list", "detail", "image", "read", "unread", "api"}
    PROVE  LET d == FE!Stage(c, s) IN
           /\ d \in Chain /\ d.stage = s /\ d.ph = "sent" /\ d.ids = {} /\ d.id = c.id /\ d.op = c.op /\ d.new = c.new
           /\ d.source = c.source /\ d.lnow = c.lnow /\ d.dnow = c.dnow /\ d.unow = c.unow
BY DEF FE!Stage, Chain

\* A chain that begins has no marks and nothing to say.
LEMMA NewChain ==
    ASSUME source \in {"all", "manual"}, NEW op \in {"list", "open", "poll"} \cup FE!Locks,
           NEW s \in {"list", "detail", "image", "read", "unread", "api"}
    PROVE  LET d == FE!Call(op, s) IN
           /\ d \in Chain /\ d.op = op /\ d.id = 0 /\ d.stage = s /\ d.ph = "sent" /\ d.new = 0 /\ d.ids = {}
           /\ d.source = source /\ ~d.lnow /\ ~d.dnow /\ ~d.unow
BY DEF FE!Call, Chain

\* d goes on from before the step: its marks are of what is still shown.
Remains(d) == \E e \in chains : Less(d, e) /\ (d.dnow => opening' = opening) /\ (d.lnow => source' = source)

\* Something is done on the page: some chains lose marks and new ones begin, while the
\* server and what is known of it stay as they are.
LEMMA PageChanged ==
    ASSUME FeedbackInv, UNCHANGED <<entries, news, cursor, listed, unread, seen, acked, behind, failed, mishaps>>,
           \A d \in chains' : Remains(d) \/ (d \in Chain /\ Follows(d)' /\ d.ph = "sent"),
           \A e \in chains : \E d \in chains' : Less(d, e),
           source' \in {"all", "manual"}, mounted' \in BOOLEAN, listLoading' \in BOOLEAN, detailLoading' \in BOOLEAN,
           opening' \in Entries \cup {0}, opened' \in [id : Entries \cup {0}, new : Nat], urls' \subseteq Entries,
           sending' \subseteq FE!Locks, FE!ShowsWhatIsOpen', Busy',
           \/ \E d \in chains' : d.stage = "list" /\ d.lnow
           \/ source' = source /\ \A e \in chains : e.lnow => \E d \in chains' : Less(d, e) /\ d.lnow
    PROVE  FeedbackInv'
<1>1. /\ seen \in [Entries -> Nat] /\ cursor \in [Entries -> Nat] /\ chains \subseteq Chain
      /\ \A e \in chains : Follows(e)
  BY DEF FeedbackInv, FeedbackTypes, FE!TypeOK, Entries
<1>2. \A d \in chains' : Follows(d)'
  <2> SUFFICES ASSUME NEW d \in chains', Remains(d) PROVE Follows(d)'
    OBVIOUS
  <2>1. PICK e \in chains : Less(d, e) /\ (d.dnow => opening' = opening) /\ (d.lnow => source' = source)
    BY DEF Remains
  <2> QED
    BY <1>1, <2>1, FollowsStill
<1>3. chains' \subseteq Chain
  BY DEF Remains, Less
<1>4. FeedbackTypes'
  BY <1>3 DEF FeedbackInv, FeedbackTypes, FE!TypeOK, Entries
<1>5. FE!UnseenStaysUnread' /\ FE!DotStaysAway' /\ Acknowledged'
  BY DEF FeedbackInv, FE!UnseenStaysUnread, FE!DotStaysAway, Acknowledged
<1>6. Submitted => Submitted'
  BY DEF Submitted, Less
<1>7. Listed'
  <2> SUFFICES ASSUME mishaps = 0, ~failed, ~Submitted'
               PROVE  /\ \A c \in chains' : c.stage = "list" /\ c.ph = "ok" /\ c.lnow /\ c.source = "all" => c.ids = entries
                      /\ source' = "all" => listed = entries \/ \E c \in chains' : c.stage = "list" /\ c.lnow
    BY DEF Listed
  <2>1. /\ \A c \in chains : c.stage = "list" /\ c.ph = "ok" /\ c.lnow /\ c.source = "all" => c.ids = entries
        /\ source = "all" => listed = entries \/ \E c \in chains : c.stage = "list" /\ c.lnow
    BY <1>6 DEF FeedbackInv, Listed
  <2>2. ASSUME NEW c \in chains', c.stage = "list", c.ph = "ok", c.lnow, c.source = "all" PROVE c.ids = entries
    <3>1. PICK e \in chains : Less(c, e)
      BY <2>2 DEF Remains
    <3> QED
      BY <2>1, <2>2, <3>1 DEF Less
  <2>3. ASSUME source' = source, \A e \in chains : e.lnow => \E d \in chains' : Less(d, e) /\ d.lnow, source = "all"
        PROVE  listed = entries \/ \E c \in chains' : c.stage = "list" /\ c.lnow
    BY <2>1, <2>3 DEF Less
  <2> QED
    BY <2>2, <2>3
<1> QED
  BY <1>2, <1>4, <1>5, <1>7 DEF FeedbackInv

\* Fewer and Less are reflexive, and Fewer is transitive.
LEMMA OneMore == ASSUME NEW S, S \subseteq Chain PROVE Fewer(S, S) /\ \A e \in S : Less(e, e)
BY DEF Fewer, Less

\* The last list takes the place of those before it, the open item that of the one before.
LEMMA FeedbackOpens ==
    ASSUME FeedbackInv, \/ \E id \in Entries : FE!ToggleItem(id)
                        \/ FE!Leave
    PROVE  FeedbackInv'
<1>1. /\ chains \subseteq Chain /\ source \in {"all", "manual"} /\ mounted \in BOOLEAN /\ listLoading \in BOOLEAN
      /\ detailLoading \in BOOLEAN /\ opening \in Entries \cup {0} /\ urls \subseteq Entries /\ sending \subseteq FE!Locks
      /\ opened \in [id : Entries \cup {0}, new : Nat]
  BY DEF FeedbackInv, FeedbackTypes, FE!TypeOK, Entries
<1>2. FE!NoDetail \in [id : Entries \cup {0}, new : Nat]
  BY DEF FE!NoDetail
<1>3. PICK T :
      /\ T = FE!Closed(chains) /\ Fewer(T, chains) /\ \A d \in T : ~d.dnow
      /\ \A e \in chains : \E d \in T : Less(d, e) /\ d.lnow = e.lnow
  BY <1>1, ClosedFewer
<1>4. UNCHANGED <<entries, news, cursor, listed, unread, seen, acked, behind, failed, mishaps, source, listLoading, sending>>
  BY DEF FE!ToggleItem, FE!Leave, FE!Act, FE!server, FE!page, FE!ghost
<1>5. ASSUME FE!Close(chains), mounted' \in BOOLEAN PROVE FeedbackInv'
  <2>1. /\ opening' = 0 /\ opened' = FE!NoDetail /\ detailLoading' = FALSE /\ urls' = {}
        /\ chains' = T \cup {}
    BY <1>3, <1>5 DEF FE!Close, FE!Revoked
  <2>2. FE!ShowsWhatIsOpen'
    BY <2>1 DEF FE!ShowsWhatIsOpen
  <2>3. Busy'
    BY <1>3, <1>4, <2>1 DEF FeedbackInv, Busy, Less
  <2>4. /\ \A d \in chains' : Remains(d)
        /\ \A e \in chains : \E d \in chains' : Less(d, e)
        /\ \A e \in chains : e.lnow => \E d \in chains' : Less(d, e) /\ d.lnow
    BY <1>3, <1>4, <2>1 DEF Remains, Fewer
  <2>5. opened' \in [id : Entries \cup {0}, new : Nat] /\ opening' \in Entries \cup {0}
    BY <1>2, <2>1
  <2> QED
    BY <1>1, <1>4, <1>5, <2>1, <2>2, <2>3, <2>4, <2>5, PageChanged
<1>6. ASSUME NEW id \in Entries, id \in listed, FE!Open(chains, FE!Call("open", "detail"), id), mounted' = mounted, mounted = TRUE
      PROVE  FeedbackInv'
  <2> DEFINE b == FE!Call("open", "detail")
             c == FE!Stage(b, "detail")
  <2>1. b \in Chain /\ b.ids = {} /\ b.source = source /\ ~b.lnow /\ ~b.unow
    BY <1>1, NewChain
  <2>2. chains' = T \cup {[c EXCEPT !.id = id, !.dnow = TRUE]} /\ opening' = id /\ opened' = FE!NoDetail /\ detailLoading' = TRUE /\ urls' = {}
    BY <1>3, <1>6 DEF FE!Open, FE!Revoked
  <2> HIDE DEF b
  <2>3. c \in Chain /\ c.ids = {} /\ c.source = source /\ ~c.lnow /\ ~c.unow /\ c.stage = "detail" /\ c.ph = "sent"
    BY <2>1, NextStage
  <2> HIDE DEF c
  <2>3a. PICK d : d = [c EXCEPT !.id = id, !.dnow = TRUE]
    OBVIOUS
  <2>4. /\ d \in Chain /\ d.ids = {} /\ ~d.lnow /\ ~d.unow /\ d.stage = "detail" /\ d.ph = "sent" /\ d.id = id /\ d.dnow
        /\ chains' = T \cup {d}
    BY <1>6, <2>2, <2>3, <2>3a DEF Chain
  <2>5. Follows(d)'
    BY <1>6, <2>2, <2>4 DEF Follows
  <2>6. FE!ShowsWhatIsOpen'
    BY <1>4, <1>6, <2>2 DEF FE!ShowsWhatIsOpen
  <2>7. Busy'
    BY <1>3, <1>4, <2>2, <2>4 DEF FeedbackInv, Busy, Less
  <2>8. /\ \A x \in chains' : Remains(x) \/ (x \in Chain /\ Follows(x)' /\ x.ph = "sent")
        /\ \A e \in chains : \E x \in chains' : Less(x, e)
        /\ \A e \in chains : e.lnow => \E x \in chains' : Less(x, e) /\ x.lnow
    <3>1. \A x \in T : Remains(x)
      BY <1>3, <1>4 DEF Remains, Fewer
    <3> QED
      BY <1>3, <2>4, <2>5, <3>1 DEF Fewer
  <2>9. opened' \in [id : Entries \cup {0}, new : Nat] /\ opening' \in Entries \cup {0}
    BY <1>2, <1>6, <2>2
  <2> QED
    BY <1>1, <1>4, <1>6, <2>2, <2>6, <2>7, <2>8, <2>9, PageChanged
<1>7. CASE FE!Leave
  BY <1>5, <1>7 DEF FE!Leave
<1>8. ASSUME NEW id \in Entries, FE!ToggleItem(id) PROVE FeedbackInv'
  <2>1. id \in listed /\ mounted' = mounted /\ mounted = TRUE
    BY <1>1, <1>8 DEF FE!ToggleItem, FE!page
  <2>2. CASE FE!Close(chains)
    BY <1>1, <1>5, <2>1, <2>2
  <2>3. CASE FE!Open(chains, FE!Call("open", "detail"), id)
    BY <1>6, <2>1, <2>3
  <2> QED
    BY <1>8, <2>2, <2>3, Zenon DEF FE!ToggleItem
<1> QED
  BY <1>7, <1>8

\* The list is asked for again: of the source that is chosen then, and no earlier one counts.
LEMMA LoadsList ==
    ASSUME NEW S, S \subseteq Chain, NEW c \in Chain, source' \in {"all", "manual"}, chains' = FE!Loads(S, c)
    PROVE  \E d \in Chain :
              /\ d.op = c.op /\ d.id = c.id /\ d.stage = "list" /\ d.ph = "sent" /\ d.new = c.new /\ d.ids = {}
              /\ d.source = source' /\ d.lnow /\ d.dnow = c.dnow /\ d.unow = c.unow
              /\ chains' = FE!Unlisted(S) \cup {d}
<1>1. PICK b : b = FE!Stage(c, "list")
  OBVIOUS
<1>2. /\ b \in Chain /\ b.stage = "list" /\ b.ph = "sent" /\ b.ids = {} /\ b.id = c.id /\ b.op = c.op /\ b.new = c.new
      /\ b.dnow = c.dnow /\ b.unow = c.unow
  BY <1>1, NextStage
<1>3. PICK d : d = [b EXCEPT !.lnow = TRUE, !.source = source']
  OBVIOUS
<1>4. chains' = FE!Unlisted(S) \cup {d}
  BY <1>1, <1>3 DEF FE!Loads
<1>5. /\ d \in Chain /\ d.op = c.op /\ d.id = c.id /\ d.stage = "list" /\ d.ph = "sent" /\ d.new = c.new /\ d.ids = {}
      /\ d.source = source' /\ d.lnow /\ d.dnow = c.dnow /\ d.unow = c.unow
  BY <1>2, <1>3 DEF Chain
<1> QED
  BY <1>4, <1>5

LEMMA FewerOfFewer ==
    ASSUME NEW S, NEW T, NEW U, Fewer(T, S), Fewer(U, T) PROVE Fewer(U, S)
BY DEF Fewer, Less

\* Loading the list, or another source, keeps the invariant.
LEMMA FeedbackLoads ==
    ASSUME FeedbackInv, FE!loadList \/ \E s \in {"all", "manual"} : FE!SelectSource(s)
    PROVE  FeedbackInv'
<1>1. /\ chains \subseteq Chain /\ source \in {"all", "manual"} /\ mounted \in BOOLEAN /\ listLoading \in BOOLEAN
      /\ detailLoading \in BOOLEAN /\ opening \in Entries \cup {0} /\ urls \subseteq Entries /\ sending \subseteq FE!Locks
      /\ opened \in [id : Entries \cup {0}, new : Nat]
  BY DEF FeedbackInv, FeedbackTypes, FE!TypeOK, Entries
<1>2. FE!NoDetail \in [id : Entries \cup {0}, new : Nat]
  BY DEF FE!NoDetail
<1>3. PICK b : b = FE!Call("list", "list")
  OBVIOUS
<1>4. b \in Chain /\ b.op = "list" /\ b.ids = {} /\ b.id = 0 /\ ~b.dnow /\ ~b.unow
  BY <1>1, <1>3, NewChain
<1>5. UNCHANGED <<entries, news, cursor, listed, unread, seen, acked, behind, failed, mishaps, mounted, sending>> /\ listLoading' = TRUE
  BY DEF FE!loadList, FE!SelectSource, FE!Act, FE!server, FE!ghost
<1>6. CASE FE!loadList
  <2>1. chains' = FE!Loads(chains, b) /\ UNCHANGED <<source, opening, opened, urls, detailLoading>>
    BY <1>3, <1>6 DEF FE!loadList, FE!detail
  <2>2. PICK d \in Chain :
              /\ d.stage = "list" /\ d.ph = "sent" /\ d.ids = {} /\ d.id = 0
              /\ d.source = source' /\ d.lnow /\ ~d.dnow /\ ~d.unow /\ chains' = FE!Unlisted(chains) \cup {d}
    BY <1>1, <1>4, <2>1, LoadsList
  <2>3. /\ Fewer(FE!Unlisted(chains), chains)
        /\ \A e \in FE!Unlisted(chains) : ~e.lnow
        /\ \A e \in chains : \E h \in FE!Unlisted(chains) : Less(h, e) /\ h.dnow = e.dnow
    BY <1>1, UnlistedFewer
  <2>4. /\ \A x \in chains' : Remains(x) \/ (x \in Chain /\ Follows(x)' /\ x.ph = "sent")
        /\ \A e \in chains : \E x \in chains' : Less(x, e)
        /\ \E x \in chains' : x.stage = "list" /\ x.lnow
    <3>1. Follows(d)'
      BY <2>2 DEF Follows
    <3>2. \A x \in FE!Unlisted(chains) : Remains(x)
      BY <2>1, <2>3 DEF Remains, Fewer
    <3> QED
      BY <2>2, <2>3, <3>1, <3>2 DEF Fewer
  <2>5. FE!ShowsWhatIsOpen'
    BY <1>5, <2>1 DEF FeedbackInv, FE!ShowsWhatIsOpen
  <2>6. Busy'
    BY <1>5, <2>1, <2>2, <2>3 DEF FeedbackInv, Busy, Less
  <2> QED
    BY <1>1, <1>5, <2>1, <2>4, <2>5, <2>6, PageChanged
<1>7. ASSUME NEW s \in {"all", "manual"}, FE!SelectSource(s) PROVE FeedbackInv'
  <2>1. PICK S : S = FE!Closed(chains)
    OBVIOUS
  <2>2. /\ chains' = FE!Loads(S, b) /\ source' = s /\ opening' = 0 /\ opened' = FE!NoDetail /\ detailLoading' = FALSE
        /\ urls' = {}
    BY <1>3, <1>7, <2>1 DEF FE!SelectSource, FE!Revoked
  <2>3. S \subseteq Chain /\ Fewer(S, chains) /\ \A e \in S : ~e.dnow
    BY <1>1, <2>1, ClosedFewer DEF Fewer, Less
  <2>4. PICK d \in Chain :
              /\ d.stage = "list" /\ d.ph = "sent" /\ d.ids = {} /\ d.id = 0
              /\ d.source = source' /\ d.lnow /\ ~d.dnow /\ ~d.unow /\ chains' = FE!Unlisted(S) \cup {d}
    BY <1>4, <1>7, <2>2, <2>3, LoadsList
  <2>5. PICK U : U = FE!Unlisted(S)
    OBVIOUS
  <2>6. Fewer(U, S) /\ (\A e \in U : ~e.lnow) /\ \A e \in S : \E h \in U : Less(h, e)
    BY <2>3, <2>5, UnlistedFewer DEF Fewer
  <2>6a. Fewer(U, chains)
    BY <2>3, <2>6, FewerOfFewer
  <2>6b. \A e \in U : ~e.dnow
    BY <2>3, <2>6 DEF Fewer, Less
  <2>7. Fewer(U, chains) /\ \A e \in U : ~e.dnow /\ ~e.lnow
    BY <2>6, <2>6a, <2>6b
  <2>8. /\ \A x \in chains' : Remains(x) \/ (x \in Chain /\ Follows(x)' /\ x.ph = "sent")
        /\ \A e \in chains : \E x \in chains' : Less(x, e)
        /\ \E x \in chains' : x.stage = "list" /\ x.lnow
    <3>1. Follows(d)'
      BY <2>4 DEF Follows
    <3>2. \A x \in U : Remains(x)
      BY <2>7 DEF Remains, Fewer
    <3> QED
      BY <2>4, <2>5, <2>7, <3>1, <3>2 DEF Fewer
  <2>9. FE!ShowsWhatIsOpen'
    BY <2>2 DEF FE!ShowsWhatIsOpen
  <2>10. Busy'
    <3>1. \A e \in chains : \E x \in chains' : x.op = e.op
      BY <2>8 DEF Less
    <3> QED
      BY <1>5, <2>2, <2>8, <3>1 DEF FeedbackInv, Busy
  <2>11. opened' \in [id : Entries \cup {0}, new : Nat] /\ source' \in {"all", "manual"}
    BY <1>2, <1>7, <2>2
  <2> QED
    BY <1>1, <1>5, <2>2, <2>8, <2>9, <2>10, <2>11, PageChanged
<1> QED
  BY <1>6, <1>7

\* So does whatever is sent.
LEMMA FeedbackSends ==
    ASSUME FeedbackInv, FE!updateStatus \/ FE!reply \/ FE!submit \/ FE!Poll PROVE FeedbackInv'
<1>1. /\ chains \subseteq Chain /\ source \in {"all", "manual"} /\ mounted \in BOOLEAN /\ listLoading \in BOOLEAN
      /\ detailLoading \in BOOLEAN /\ opening \in Entries \cup {0} /\ urls \subseteq Entries /\ sending \subseteq FE!Locks
      /\ opened \in [id : Entries \cup {0}, new : Nat] /\ FE!ShowsWhatIsOpen /\ Busy
  BY DEF FeedbackInv, FeedbackTypes, FE!TypeOK, Entries
<1>2. ASSUME NEW d \in Chain, chains' = chains \cup {d}, d.ph = "sent", ~d.lnow, ~d.dnow, d.ids = {},
             d.stage = "unread" \/ (d.stage = "api" /\ d.op \in FE!Locks),
             UNCHANGED <<entries, news, cursor, listed, unread, seen, acked, behind, failed, mishaps, mounted, source, opening,
                         opened, urls, listLoading, detailLoading>>,
             sending' \subseteq sending \cup {d.op}, sending' \subseteq FE!Locks
      PROVE  FeedbackInv'
  <2>1. Fewer(chains, chains) /\ \A e \in chains : Less(e, e)
    BY <1>1, OneMore
  <2>2. Follows(d)'
    BY <1>2 DEF Follows
  <2>3. /\ \A x \in chains' : Remains(x) \/ (x \in Chain /\ Follows(x)' /\ x.ph = "sent")
        /\ \A e \in chains : \E x \in chains' : Less(x, e)
        /\ \A e \in chains : e.lnow => \E x \in chains' : Less(x, e) /\ x.lnow
    BY <1>2, <2>1, <2>2 DEF Remains
  <2>4. FE!ShowsWhatIsOpen'
    BY <1>1, <1>2 DEF FE!ShowsWhatIsOpen
  <2>5. Busy'
    BY <1>1, <1>2 DEF Busy
  <2> QED
    BY <1>1, <1>2, <2>3, <2>4, <2>5, PageChanged
<1>3. ASSUME NEW op \in FE!Locks, NEW id \in Entries \cup {0}, FE!Sends(op, id) PROVE FeedbackInv'
  <2>1. PICK b : b = FE!Call(op, "api")
    OBVIOUS
  <2>2. b \in Chain /\ b.op = op /\ b.stage = "api" /\ b.ph = "sent" /\ b.ids = {} /\ ~b.lnow /\ ~b.dnow
    BY <1>1, <1>3, <2>1, NewChain
  <2>3. PICK d : d = [b EXCEPT !.id = id]
    OBVIOUS
  <2>4. d \in Chain /\ d.op = op /\ d.stage = "api" /\ d.ph = "sent" /\ d.ids = {} /\ ~d.lnow /\ ~d.dnow
    BY <1>3, <2>2, <2>3 DEF Chain
  <2>5. /\ chains' = chains \cup {d} /\ sending' = sending \cup {op}
        /\ UNCHANGED <<entries, news, cursor, listed, unread, seen, acked, behind, failed, mishaps, mounted, source, opening,
                       opened, urls, listLoading, detailLoading>>
    BY <1>3, <2>1, <2>3 DEF FE!Sends, FE!Act, FE!server, FE!detail, FE!ghost
  <2> QED
    BY <1>1, <1>2, <1>3, <2>4, <2>5
<1>4. CASE FE!Poll
  <2>1. PICK b : b = FE!Call("poll", "unread")
    OBVIOUS
  <2>2. b \in Chain /\ b.op = "poll" /\ b.stage = "unread" /\ b.ph = "sent" /\ b.ids = {} /\ ~b.lnow /\ ~b.dnow
    BY <1>1, <2>1, NewChain
  <2>3. PICK d : d = [b EXCEPT !.unow = TRUE]
    OBVIOUS
  <2>4. d \in Chain /\ d.stage = "unread" /\ d.ph = "sent" /\ d.ids = {} /\ ~d.lnow /\ ~d.dnow
    BY <2>2, <2>3 DEF Chain
  <2>5. /\ chains' = chains \cup {d} /\ sending' = sending
        /\ UNCHANGED <<entries, news, cursor, listed, unread, seen, acked, behind, failed, mishaps, mounted, source, opening,
                       opened, urls, listLoading, detailLoading>>
    BY <1>4, <2>1, <2>3 DEF FE!Poll, FE!Act, FE!server, FE!page, FE!detail, FE!ghost
  <2> QED
    BY <1>1, <1>2, <2>4, <2>5
<1>5. opened.id \in Entries \cup {0}
  BY <1>1
<1> QED
  BY <1>3, <1>4, <1>5 DEF FE!updateStatus, FE!reply, FE!submit, FE!Locks

\* The server answers one chain, or a request is lost: nothing on the page changes.
LEMMA ServerAnswers ==
    ASSUME FeedbackInv, NEW c \in chains, NEW a \in Chain, chains' = (chains \ {c}) \cup {a}, c.ph = "sent",
           a.op = c.op, a.stage = c.stage, a.source = c.source, a.lnow = c.lnow, a.dnow = c.dnow,
           UNCHANGED <<news, mounted, source, listed, opening, opened, urls, listLoading, detailLoading, sending, unread,
                       seen, acked, behind, failed>>,
           entries \subseteq entries', entries' \subseteq Entries, mishaps' \in Nat,
           cursor' \in [Entries -> Nat], \A id \in Entries : cursor'[id] >= cursor[id],
           Follows(a)', FE!UnseenStaysUnread',
           \/ mishaps' # 0 \/ Submitted'
           \/ /\ entries' = entries /\ mishaps' = mishaps
              /\ a.stage = "list" /\ a.ph = "ok" /\ a.source = "all" => a.ids = entries
    PROVE  FeedbackInv'
<1>1. /\ chains \subseteq Chain /\ seen \in [Entries -> Nat] /\ cursor \in [Entries -> Nat] /\ acked \in [Entries -> Nat]
      /\ \A e \in chains : Follows(e)
  BY DEF FeedbackInv, FeedbackTypes, FE!TypeOK, Entries
<1>2. \A d \in chains' : Follows(d)'
  <2> SUFFICES ASSUME NEW d \in chains \ {c} PROVE Follows(d)'
    OBVIOUS
  <2>1. Less(d, d)
    BY <1>1 DEF Less
  <2> QED
    BY <1>1, <2>1, FollowsStill
<1>3. FeedbackTypes'
  BY <1>1 DEF FeedbackInv, FeedbackTypes, FE!TypeOK, Entries
<1>4. FE!ShowsWhatIsOpen' /\ FE!DotStaysAway' /\ Busy'
  BY DEF FeedbackInv, FE!ShowsWhatIsOpen, FE!DotStaysAway, Busy
<1>5. Acknowledged'
  <2> SUFFICES ASSUME NEW id \in Entries PROVE acked[id] <= cursor'[id]
    BY DEF Acknowledged
  <2>1. acked[id] <= cursor[id] /\ acked[id] \in Nat /\ cursor[id] \in Nat /\ cursor'[id] \in Nat
    BY <1>1 DEF FeedbackInv, Acknowledged
  <2> QED
    BY <2>1
<1>6. Submitted => Submitted'
  BY DEF Submitted
<1>7. Listed'
  BY <1>6 DEF FeedbackInv, Listed
<1> QED
  BY <1>2, <1>3, <1>4, <1>5, <1>7 DEF FeedbackInv

\* The server keeps the invariant.
LEMMA FeedbackServed ==
    ASSUME FeedbackInv, NEW c \in chains, FE!Serves(c) PROVE FeedbackInv'
<1>1. /\ c \in Chain /\ Follows(c) /\ entries \subseteq Entries /\ mishaps \in Nat /\ FE!UnseenStaysUnread
      /\ cursor \in [Entries -> Nat] /\ news \in [Entries -> Nat] /\ seen \in [Entries -> Nat] /\ acked \in [Entries -> Nat]
  BY DEF FeedbackInv, FeedbackTypes, FE!TypeOK, Entries
<1>2. ASSUME NEW a, FE!Answered(c, a)
      PROVE  /\ chains' = (chains \ {c}) \cup {a} /\ c.ph = "sent"
             /\ UNCHANGED <<mounted, source, listed, opening, opened, urls, listLoading, detailLoading, sending, unread,
                            seen, acked, behind, failed>>
  BY <1>2 DEF FE!Answered, FE!OtherCalls, FE!page, FE!detail, FE!ghost
<1>3. \A id \in Entries : cursor[id] >= cursor[id]
  BY <1>1
<1>4. UNCHANGED <<cursor, seen, behind>> => FE!UnseenStaysUnread'
  BY <1>1 DEF FE!UnseenStaysUnread
<1>5. CASE FE!ServeList(c)
  <2>1. PICK S \in SUBSET entries : c.stage = "list" /\ (c.source = "all" => S = entries)
                                    /\ FE!Answered(c, [FE!Fine(c) EXCEPT !.ids = S]) /\ UNCHANGED <<entries, news, cursor, mishaps>>
    BY <1>5 DEF FE!ServeList, FE!server, FE!All
  <2>2. PICK a : a = [FE!Fine(c) EXCEPT !.ids = S]
    OBVIOUS
  <2>3. /\ a \in Chain /\ a.op = c.op /\ a.stage = c.stage /\ a.source = c.source /\ a.lnow = c.lnow /\ a.dnow = c.dnow
        /\ a.id = c.id /\ a.ids = S /\ a.unow = c.unow
    BY <1>1, <2>1, <2>2 DEF FE!Fine, Chain
  <2>4. Follows(a)'
    BY <1>1, <1>2, <2>1, <2>2, <2>3 DEF Follows
  <2> QED
    BY <1>1, <1>2, <1>3, <1>4, <2>1, <2>2, <2>3, <2>4, ServerAnswers
<1>6. CASE FE!ServeDetail(c)
  <2>1. PICK k : k = IF c.stage = "detail" THEN news[c.id] ELSE c.new
    OBVIOUS
  <2>2. PICK a : a = [FE!Fine(c) EXCEPT !.new = k]
    OBVIOUS
  <2>3. FE!Answered(c, a) /\ c.stage \in {"detail", "image"} /\ UNCHANGED <<entries, news, cursor, mishaps>>
    <3>1. FE!Fine(c).new = c.new
      BY <1>1 DEF FE!Fine, Chain
    <3> QED
      BY <1>6, <2>1, <2>2, <3>1 DEF FE!ServeDetail, FE!server
  <2>4. k \in Nat
    BY <1>1, <2>1, <2>3 DEF Follows, Chain
  <2>5. /\ a \in Chain /\ a.op = c.op /\ a.stage = c.stage /\ a.source = c.source /\ a.lnow = c.lnow /\ a.dnow = c.dnow
        /\ a.id = c.id /\ a.ids = c.ids
    BY <1>1, <2>2, <2>4 DEF FE!Fine, Chain
  <2>6. Follows(a)'
    BY <1>1, <1>2, <2>3, <2>5 DEF Follows
  <2> QED
    BY <1>1, <1>2, <1>3, <1>4, <2>3, <2>5, <2>6, ServerAnswers
<1>7. CASE FE!ServeRead(c)
  <2>1. PICK a : a = FE!Fine(c)
    OBVIOUS
  <2>2. PICK k : k = FE!Later(cursor[c.id], c.new)
    OBVIOUS
  <2>3. /\ FE!Answered(c, a) /\ c.stage = "read" /\ UNCHANGED <<entries, news, mishaps>>
        /\ cursor' = [cursor EXCEPT ![c.id] = k]
    BY <1>7, <2>1, <2>2 DEF FE!ServeRead, FE!Receipt
  <2>4. c.id \in Entries /\ c.new \in Nat /\ (behind \/ c.new <= seen[c.id])
    BY <1>1, <2>3 DEF Follows, Chain
  <2>5. k \in Nat /\ k >= cursor[c.id] /\ k >= c.new /\ k \in {cursor[c.id], c.new}
    BY <1>1, <2>2, <2>4, LargerOfTwo
  <2>6. /\ a \in Chain /\ a.op = c.op /\ a.stage = c.stage /\ a.source = c.source /\ a.lnow = c.lnow /\ a.dnow = c.dnow
        /\ a.id = c.id /\ a.ids = c.ids /\ a.new = c.new
    BY <1>1, <2>1 DEF FE!Fine, Chain
  <2>7. cursor' \in [Entries -> Nat] /\ cursor'[c.id] = k /\ \A id \in Entries : cursor'[id] >= cursor[id]
    BY <1>1, <2>3, <2>4, <2>5
  <2>8. Follows(a)'
    BY <1>1, <1>2, <2>3, <2>4, <2>5, <2>6, <2>7 DEF Follows
  <2>9. FE!UnseenStaysUnread'
    <3> SUFFICES ASSUME ~behind, NEW id \in Entries PROVE cursor'[id] <= seen[id]
      BY <1>2, <2>3 DEF FE!UnseenStaysUnread, Entries
    <3>1. cursor[id] <= seen[id]
      BY <1>1 DEF FE!UnseenStaysUnread, Entries
    <3>2. CASE id = c.id
      BY <2>4, <2>5, <2>7, <3>1, <3>2
    <3>3. CASE id # c.id
      BY <1>1, <2>3, <3>1, <3>3
    <3> QED
      BY <3>2, <3>3
  <2> QED
    BY <1>1, <1>2, <2>3, <2>6, <2>7, <2>8, <2>9, ServerAnswers
<1>8. CASE FE!ServeUnread(c)
  <2>1. PICK a : a = [FE!Fine(c) EXCEPT !.ids = FE!Unread]
    OBVIOUS
  <2>2. FE!Answered(c, a) /\ c.stage = "unread" /\ UNCHANGED <<entries, news, cursor, mishaps>>
    BY <1>8, <2>1 DEF FE!ServeUnread, FE!server
  <2>3. FE!Unread \subseteq entries /\ \A id \in FE!Unread : news[id] > cursor[id]
    BY DEF FE!Unread
  <2>4. \A id \in FE!Unread : news[id] > acked[id]
    <3> SUFFICES ASSUME NEW id \in FE!Unread PROVE news[id] > acked[id]
      OBVIOUS
    <3>1. acked[id] <= cursor[id] /\ acked[id] \in Nat /\ cursor[id] \in Nat /\ news[id] \in Nat /\ news[id] > cursor[id]
      BY <1>1, <2>3 DEF FeedbackInv, Acknowledged
    <3> QED
      BY <3>1
  <2>5. /\ a \in Chain /\ a.op = c.op /\ a.stage = c.stage /\ a.source = c.source /\ a.lnow = c.lnow /\ a.dnow = c.dnow
        /\ a.id = c.id /\ a.ids = FE!Unread
    BY <1>1, <2>1, <2>3 DEF FE!Fine, Chain
  <2>6. Follows(a)'
    BY <1>1, <1>2, <2>2, <2>3, <2>4, <2>5 DEF Follows
  <2> QED
    BY <1>1, <1>2, <1>3, <1>4, <2>2, <2>5, <2>6, ServerAnswers
<1>9. CASE FE!ServeChange(c)
  <2>1. ASSUME NEW i \in Entries \cup {0}, FE!Answered(c, [FE!Fine(c) EXCEPT !.id = i]), c.stage = "api",
               entries' \subseteq Entries, entries \subseteq entries', c.op = "submit" \/ entries' = entries,
               UNCHANGED <<news, cursor, mishaps>>
        PROVE  FeedbackInv'
    <3>1. PICK a : a = [FE!Fine(c) EXCEPT !.id = i]
      OBVIOUS
    <3>2. /\ a \in Chain /\ a.op = c.op /\ a.stage = c.stage /\ a.source = c.source /\ a.lnow = c.lnow /\ a.dnow = c.dnow
          /\ a.ids = c.ids /\ a.ph = "ok" /\ a.id = i
      BY <1>1, <2>1, <3>1 DEF FE!Fine, Chain
    <3>3. Follows(a)'
      BY <1>1, <1>2, <2>1, <3>1, <3>2 DEF Follows
    <3>4. Submitted' \/ entries' = entries
      BY <1>2, <2>1, <3>1, <3>2 DEF Submitted
    <3> QED
      BY <1>1, <1>2, <1>3, <1>4, <2>1, <3>1, <3>2, <3>3, <3>4, ServerAnswers
  <2>2. CASE c.op = "submit"
    <3>1. PICK i : i = CHOOSE e \in Entries \ entries : TRUE
      OBVIOUS
    <3>2. /\ entries # Entries /\ entries' = entries \cup {i} /\ FE!Answered(c, [FE!Fine(c) EXCEPT !.id = i])
          /\ c.stage = "api" /\ UNCHANGED <<news, cursor, mishaps>>
      BY <1>9, <2>2, <3>1 DEF FE!ServeChange, Entries
    <3>3. i \in Entries
      BY <1>1, <3>1, <3>2
    <3> QED
      BY <1>1, <2>1, <2>2, <3>2, <3>3
  <2>3. CASE c.op # "submit"
    <3>1. FE!Answered(c, FE!Fine(c)) /\ c.stage = "api" /\ UNCHANGED <<entries, news, cursor, mishaps>>
      BY <1>9, <2>3 DEF FE!ServeChange
    <3>2. FE!Fine(c) = [FE!Fine(c) EXCEPT !.id = c.id] /\ c.id \in Entries \cup {0}
      BY <1>1 DEF FE!Fine, Chain
    <3> QED
      BY <1>1, <2>1, <3>1, <3>2 DEF Follows
  <2> QED
    BY <2>2, <2>3
<1>10. CASE FE!Lost(c)
  <2>1. PICK a : a = [c EXCEPT !.ph = "error"]
    OBVIOUS
  <2>2. FE!Answered(c, a) /\ UNCHANGED <<entries, news, cursor>> /\ mishaps' = mishaps + 1
    BY <1>10, <2>1 DEF FE!Lost, FE!Mishap, FE!server
  <2>3. /\ a \in Chain /\ a.op = c.op /\ a.stage = c.stage /\ a.source = c.source /\ a.lnow = c.lnow /\ a.dnow = c.dnow
        /\ a.id = c.id /\ a.ids = c.ids /\ a.new = c.new /\ a.ph = "error"
    BY <1>1, <2>1 DEF Chain
  <2>4. Follows(a)'
    BY <1>1, <1>2, <2>2, <2>3 DEF Follows
  <2>5. mishaps' \in Nat /\ mishaps' # 0
    BY <1>1, <2>2
  <2> QED
    BY <1>1, <1>2, <1>3, <1>4, <2>2, <2>3, <2>4, <2>5, ServerAnswers
<1> QED
  BY <1>5, <1>6, <1>7, <1>8, <1>9, <1>10 DEF FE!Serves

\* Somebody else writes: the server has more, and it is new.
LEMMA OthersReply ==
    ASSUME FeedbackInv, NEW i \in Entries, FE!OtherReplies(i) PROVE FeedbackInv'
<1>1. /\ chains \subseteq Chain /\ entries \subseteq Entries /\ mishaps \in Nat /\ news \in [Entries -> Nat]
      /\ acked \in [Entries -> Nat] /\ seen \in [Entries -> Nat] /\ cursor \in [Entries -> Nat]
  BY DEF FeedbackInv, FeedbackTypes, FE!TypeOK, Entries
<1>2. /\ UNCHANGED <<cursor, mounted, source, listed, opening, opened, urls, listLoading, detailLoading, sending, unread,
                     seen, acked, behind, failed, chains>>
      /\ mishaps' = mishaps + 1
  BY DEF FE!OtherReplies, FE!Mishap, FE!page, FE!detail, FE!ghost
<1>3. entries \subseteq entries' /\ entries' \subseteq Entries
  BY <1>1 DEF FE!OtherReplies
<1>4. news' \in [Entries -> Nat] /\ \A id \in Entries : news'[id] >= news[id]
  BY <1>1 DEF FE!OtherReplies
<1>5. \A id \in Entries : news[id] > acked[id] => news'[id] > acked'[id]
  <2> SUFFICES ASSUME NEW id \in Entries, news[id] > acked[id] PROVE news'[id] > acked[id]
    BY <1>2
  <2>1. news[id] \in Nat /\ news'[id] \in Nat /\ acked[id] \in Nat /\ news'[id] >= news[id]
    BY <1>1, <1>4
  <2> QED
    BY <2>1
<1>6. \A d \in chains' : Follows(d)'
  <2> SUFFICES ASSUME NEW d \in chains PROVE Follows(d)'
    BY <1>2
  <2>1. Less(d, d) /\ d.ids \subseteq Entries
    BY <1>1 DEF Less, Chain
  <2>2. \A id \in Entries : seen'[id] >= seen[id] /\ cursor'[id] >= cursor[id] /\ seen'[id] \in Nat /\ cursor'[id] \in Nat
    BY <1>1, <1>2
  <2> QED
    BY <1>2, <1>3, <1>5, <2>1, <2>2, FollowsStill
<1>7. FeedbackTypes'
  BY <1>1, <1>2, <1>3, <1>4 DEF FeedbackInv, FeedbackTypes, FE!TypeOK, Entries
<1>8. FE!ShowsWhatIsOpen' /\ Busy' /\ FE!UnseenStaysUnread' /\ Acknowledged'
  BY <1>2 DEF FeedbackInv, FE!ShowsWhatIsOpen, Busy, FE!UnseenStaysUnread, Acknowledged
<1>9. FE!DotStaysAway'
  BY <1>1, <1>2, <1>5 DEF FeedbackInv, FeedbackTypes, FE!TypeOK, FE!DotStaysAway
<1>10. Listed'
  BY <1>1, <1>2 DEF Listed
<1> QED
  BY <1>6, <1>7, <1>8, <1>9, <1>10 DEF FeedbackInv

\* An answer changes what is shown: the chains go on, end or lose marks.
Onward(d) ==
    \E e \in chains : /\ Less(d, e) /\ (d.dnow => opening' = opening) /\ (d.lnow => source' = source)
                      /\ (d.unow => acked' = acked)

\* An answer keeps the invariant when every chain goes on or follows from what is shown.
LEMMA ChainsAnswered ==
    ASSUME FeedbackInv, UNCHANGED <<entries, news, cursor, mishaps>>,
           \A d \in chains' : Onward(d) \/ (d \in Chain /\ Follows(d)'),
           behind => behind', \A id \in Entries : seen'[id] >= seen[id],
           seen' \in [Entries -> Nat], acked' \in [Entries -> Nat], opened' \in [id : Entries \cup {0}, new : Nat],
           behind' \in BOOLEAN, failed' \in BOOLEAN, FE!TypeOK', FE!ShowsWhatIsOpen', FE!UnseenStaysUnread',
           FE!DotStaysAway', Acknowledged', Listed', Busy'
    PROVE  FeedbackInv'
<1>1. /\ chains \subseteq Chain /\ cursor \in [Entries -> Nat] /\ mishaps \in Nat
  BY DEF FeedbackInv, FeedbackTypes, FE!TypeOK, Entries
<1>2. \A d \in chains' : Follows(d)'
  <2> SUFFICES ASSUME NEW d \in chains', Onward(d) PROVE Follows(d)'
    OBVIOUS
  <2>1. PICK e \in chains : /\ Less(d, e) /\ (d.dnow => opening' = opening) /\ (d.lnow => source' = source)
                            /\ (d.unow => acked' = acked)
    BY DEF Onward
  <2>2. \A id \in Entries : seen'[id] >= seen[id] /\ cursor'[id] >= cursor[id] /\ seen'[id] \in Nat /\ cursor'[id] \in Nat
    BY <1>1
  <2>3. d.unow => \A id \in d.ids : news[id] > acked[id] => news'[id] > acked'[id]
    BY <2>1
  <2> QED
    BY <2>1, <2>2, <2>3, FollowsStill
<1>3. chains' \subseteq Chain
  BY DEF Onward, Less
<1>4. FeedbackTypes'
  BY <1>1, <1>3 DEF FeedbackTypes
<1> QED
  BY <1>2, <1>4 DEF FeedbackInv

\* A chain of awaits ends: its spinner and its lock go with it.
LEMMA ChainEnds ==
    ASSUME FeedbackInv, NEW c \in chains, FE!Ends(c), UNCHANGED <<entries, news, cursor, mounted, source, mishaps, listed, seen, acked, behind>>,
           unread' \subseteq entries, \A id \in unread' : news[id] > acked[id],
           failed' \in BOOLEAN, failed => failed', c.stage = "list" /\ c.lnow => failed', c.stage = "api" => c.ph # "ok"
    PROVE  FeedbackInv'
<1>1. /\ chains' = chains \ {c} /\ UNCHANGED <<opening, opened, urls>>
      /\ listLoading' = (listLoading /\ ~c.lnow) /\ detailLoading' = (detailLoading /\ ~c.dnow) /\ sending' = sending \ {c.op}
  BY DEF FE!Ends, FE!Released, FE!OtherCalls
<1>2. /\ chains \subseteq Chain /\ seen \in [Entries -> Nat] /\ listLoading \in BOOLEAN /\ detailLoading \in BOOLEAN
      /\ sending \subseteq FE!Locks /\ entries \subseteq Entries /\ Busy
  BY DEF FeedbackInv, FeedbackTypes, FE!TypeOK, Entries
<1>3. \A d \in chains' : Onward(d)
  BY <1>1, <1>2 DEF Onward, Less
<1>4. FE!TypeOK'
  BY <1>1, <1>2 DEF FeedbackInv, FeedbackTypes, FE!TypeOK, Entries
<1>5. FE!ShowsWhatIsOpen' /\ FE!UnseenStaysUnread' /\ FE!DotStaysAway' /\ Acknowledged'
  BY <1>1 DEF FeedbackInv, FE!ShowsWhatIsOpen, FE!UnseenStaysUnread, FE!DotStaysAway, Acknowledged
<1>6. Submitted => Submitted'
  BY <1>1 DEF Submitted
<1>7. Listed'
  BY <1>1, <1>6 DEF FeedbackInv, Listed
<1>8. Busy'
  BY <1>1, <1>2 DEF Busy
<1>9. \A id \in Entries : seen'[id] >= seen[id]
  BY <1>2
<1> QED
  BY <1>1, <1>3, <1>4, <1>5, <1>7, <1>8, <1>9, <1>2, ChainsAnswered DEF FeedbackInv, FeedbackTypes

\* Answers that end a chain keep the invariant.
LEMMA FeedbackEnds ==
    ASSUME FeedbackInv, NEW c \in chains,
           FE!ListFails(c) \/ FE!UnreadDone(c) \/ FE!ReadFails(c) \/ FE!Refused(c)
    PROVE  FeedbackInv'
<1>1. /\ c \in Chain /\ failed \in BOOLEAN /\ unread \subseteq entries /\ Follows(c)
      /\ \A id \in unread : news[id] > acked[id]
  BY DEF FeedbackInv, FeedbackTypes, FE!TypeOK, FE!DotStaysAway
<1>2. CASE FE!ListFails(c)
  <2>1. failed' \in BOOLEAN /\ (failed => failed') /\ (c.lnow => failed')
    BY <1>1, <1>2 DEF FE!ListFails, Chain
  <2> QED
    BY <1>1, <1>2, <2>1, ChainEnds DEF FE!ListFails, FE!Same, FE!server, FE!bounds
<1>3. CASE FE!UnreadDone(c)
  <2>1. unread' \subseteq entries /\ \A id \in unread' : news[id] > acked[id]
    BY <1>1, <1>3 DEF FE!UnreadDone, Follows
  <2> QED
    BY <1>1, <1>3, <2>1, ChainEnds DEF FE!UnreadDone, FE!Same, FE!server, FE!bounds, FE!ghost
<1>4. CASE FE!ReadFails(c)
  BY <1>1, <1>4, ChainEnds DEF FE!ReadFails, FE!Same, FE!server, FE!bounds, FE!ghost
<1>5. CASE FE!Refused(c)
  BY <1>1, <1>5, ChainEnds DEF FE!Refused, FE!Same, FE!server, FE!bounds, FE!ghost
<1> QED
  BY <1>2, <1>3, <1>4, <1>5

\* The chain ends with the item closed: no question of an item counts any more.
LEMMA ChainCloses ==
    ASSUME FeedbackInv, NEW c \in chains, c.stage # "api", FE!Close(chains \ {c}), FE!Released(c),
           UNCHANGED <<entries, news, cursor, mounted, source, mishaps, unread, seen, acked, behind>>,
           listed' \subseteq entries, failed' \in BOOLEAN, failed => failed',
           \/ listed' = listed /\ ~(c.stage = "list" /\ c.lnow)
           \/ source = "all" /\ mishaps = 0 /\ ~failed /\ ~Submitted => listed' = entries
    PROVE  FeedbackInv'
<1>1. /\ chains \subseteq Chain /\ seen \in [Entries -> Nat] /\ listLoading \in BOOLEAN /\ unread \subseteq entries
      /\ sending \subseteq FE!Locks /\ entries \subseteq Entries /\ Busy /\ c \in Chain
      /\ acked \in [Entries -> Nat] /\ behind \in BOOLEAN
  BY DEF FeedbackInv, FeedbackTypes, FE!TypeOK, Entries
<1>2. PICK T :
      /\ T = FE!Closed(chains \ {c}) /\ Fewer(T, chains \ {c}) /\ \A d \in T : ~d.dnow
      /\ \A e \in chains \ {c} : \E d \in T : Less(d, e) /\ d.lnow = e.lnow
      /\ \A d \in T : \E e \in chains \ {c} : Less(d, e) /\ d.lnow = e.lnow
  <2>1. chains \ {c} \subseteq Chain
    BY <1>1
  <2> QED
    BY <2>1, ClosedFewer
<1>3. /\ chains' = T /\ opening' = 0 /\ opened' = FE!NoDetail /\ urls' = {} /\ detailLoading' = FALSE
      /\ listLoading' = (listLoading /\ ~c.lnow) /\ sending' = sending \ {c.op}
  BY <1>2 DEF FE!Close, FE!Revoked, FE!Released
<1>4. \A d \in chains' : Onward(d)
  BY <1>2, <1>3 DEF Onward
<1>5. opened' \in [id : Entries \cup {0}, new : Nat] /\ \A id \in Entries : seen'[id] >= seen[id]
  BY <1>1, <1>3 DEF FE!NoDetail
<1>6. FE!TypeOK'
  BY <1>1, <1>3 DEF FeedbackInv, FeedbackTypes, FE!TypeOK, Entries
<1>7. FE!ShowsWhatIsOpen' /\ FE!UnseenStaysUnread' /\ FE!DotStaysAway' /\ Acknowledged'
  BY <1>3 DEF FeedbackInv, FE!ShowsWhatIsOpen, FE!UnseenStaysUnread, FE!DotStaysAway, Acknowledged
<1>2a. /\ \A e \in chains \ {c} : \E d \in chains' : /\ d.op = e.op /\ d.stage = e.stage /\ d.ph = e.ph /\ d.lnow = e.lnow
       /\ \A d \in chains' : \E e \in chains \ {c} : /\ d.stage = e.stage /\ d.ph = e.ph /\ d.lnow = e.lnow
                                                    /\ d.ids = e.ids /\ d.source = e.source
  <2>1. \A e \in chains \ {c} : \E d \in T : d.op = e.op /\ d.stage = e.stage /\ d.ph = e.ph /\ d.lnow = e.lnow
    <3> SUFFICES ASSUME NEW e \in chains \ {c}
                 PROVE  \E d \in T : d.op = e.op /\ d.stage = e.stage /\ d.ph = e.ph /\ d.lnow = e.lnow
      OBVIOUS
    <3>1. PICK d \in T : Less(d, e) /\ d.lnow = e.lnow
      BY <1>2
    <3> QED
      BY <3>1 DEF Less
  <2>2. \A d \in T : \E e \in chains \ {c} : /\ d.stage = e.stage /\ d.ph = e.ph /\ d.lnow = e.lnow
                                            /\ d.ids = e.ids /\ d.source = e.source
    <3> SUFFICES ASSUME NEW d \in T
                 PROVE  \E e \in chains \ {c} : /\ d.stage = e.stage /\ d.ph = e.ph /\ d.lnow = e.lnow
                                                 /\ d.ids = e.ids /\ d.source = e.source
      OBVIOUS
    <3>1. PICK e \in chains \ {c} : Less(d, e) /\ d.lnow = e.lnow
      BY <1>2
    <3> QED
      BY <3>1 DEF Less
  <2> QED
    BY <1>3, <2>1, <2>2
<1>8. Submitted => Submitted'
  BY <1>2a DEF Submitted
<1>9. Listed'
  <2> SUFFICES ASSUME mishaps = 0, ~failed', ~Submitted'
               PROVE  /\ \A d \in chains' : d.stage = "list" /\ d.ph = "ok" /\ d.lnow /\ d.source = "all" => d.ids = entries
                      /\ source = "all" => listed' = entries \/ \E d \in chains' : d.stage = "list" /\ d.lnow
    BY DEF Listed
  <2>1. /\ \A e \in chains : e.stage = "list" /\ e.ph = "ok" /\ e.lnow /\ e.source = "all" => e.ids = entries
        /\ source = "all" => listed = entries \/ \E e \in chains : e.stage = "list" /\ e.lnow
    BY <1>8 DEF FeedbackInv, Listed
  <2>2. \A d \in chains' : d.stage = "list" /\ d.ph = "ok" /\ d.lnow /\ d.source = "all" => d.ids = entries
    BY <1>2a, <2>1
  <2>3. ASSUME listed' = listed, ~(c.stage = "list" /\ c.lnow), source = "all"
        PROVE  listed' = entries \/ \E d \in chains' : d.stage = "list" /\ d.lnow
    BY <1>2a, <2>1, <2>3
  <2> QED
    BY <1>8, <2>2, <2>3
<1>10. Busy'
  <2>1. listLoading' => \E d \in chains' : d.lnow
    <3>1. ASSUME listLoading, ~c.lnow PROVE \E e \in chains \ {c} : e.lnow
      BY <1>1, <3>1 DEF Busy
    <3> QED
      BY <1>2a, <1>3, <3>1
  <2>2. \A op \in sending' : \E d \in chains' : d.op = op
    <3>1. \A op \in sending \ {c.op} : \E e \in chains \ {c} : e.op = op
      BY <1>1 DEF Busy
    <3> QED
      BY <1>2a, <1>3, <3>1
  <2> QED
    BY <1>3, <2>1, <2>2 DEF Busy
<1> QED
  BY <1>1, <1>4, <1>5, <1>6, <1>7, <1>9, <1>10, ChainsAnswered

\* The chain goes on with its next stage.
LEMMA ChainGoesOn ==
    ASSUME FeedbackInv, NEW c \in chains, NEW d \in Chain, chains' = (chains \ {c}) \cup {d},
           d.op = c.op, d.lnow = c.lnow, d.dnow = c.dnow, d.stage \notin {"list", "api"}, c.stage \notin {"list", "api"},
           UNCHANGED <<entries, news, cursor, mounted, source, mishaps, unread, acked, failed, listed, opening, listLoading,
                       detailLoading, sending>>,
           Follows(d)', opened' \in [id : Entries \cup {0}, new : Nat], urls' \subseteq Entries, behind' \in BOOLEAN,
           behind => behind', seen' \in [Entries -> Nat], \A id \in Entries : seen'[id] >= seen[id],
           FE!ShowsWhatIsOpen'
    PROVE  FeedbackInv'
<1>1. /\ chains \subseteq Chain /\ failed \in BOOLEAN /\ acked \in [Entries -> Nat] /\ Busy /\ cursor \in [Entries -> Nat]
      /\ seen \in [Entries -> Nat]
  BY DEF FeedbackInv, FeedbackTypes, FE!TypeOK, Entries
<1>2. \A e \in chains' : Onward(e) \/ (e \in Chain /\ Follows(e)')
  BY <1>1 DEF Onward, Less
<1>3. FE!TypeOK'
  BY DEF FeedbackInv, FeedbackTypes, FE!TypeOK, Entries
<1>4. FE!DotStaysAway' /\ Acknowledged'
  BY DEF FeedbackInv, FE!DotStaysAway, Acknowledged
<1>5. FE!UnseenStaysUnread'
  <2> SUFFICES ASSUME ~behind', NEW id \in Entries PROVE cursor[id] <= seen'[id]
    BY DEF FE!UnseenStaysUnread, Entries
  <2>1. cursor[id] <= seen[id]
    BY DEF FeedbackInv, FE!UnseenStaysUnread, Entries
  <2>2. cursor[id] \in Nat /\ seen[id] \in Nat /\ seen'[id] \in Nat /\ seen'[id] >= seen[id]
    BY <1>1
  <2> QED
    BY <2>1, <2>2
<1>6. Submitted => Submitted'
  BY DEF Submitted
<1>7. Listed'
  BY <1>6 DEF FeedbackInv, Listed
<1>8. Busy'
  BY <1>1 DEF Busy
<1> QED
  BY <1>1, <1>2, <1>3, <1>4, <1>5, <1>7, <1>8, ChainsAnswered

\* Details that come, are shown or fail keep the invariant.
LEMMA FeedbackDetails ==
    ASSUME FeedbackInv, NEW c \in chains, FE!DetailDone(c) \/ FE!Shows(c) \/ FE!DetailFails(c)
    PROVE  FeedbackInv'
<1>1. /\ c \in Chain /\ Follows(c) /\ FE!ShowsWhatIsOpen /\ failed \in BOOLEAN /\ behind \in BOOLEAN /\ mounted \in BOOLEAN
      /\ opened \in [id : Entries \cup {0}, new : Nat] /\ urls \subseteq Entries /\ seen \in [Entries -> Nat]
      /\ listed \subseteq entries /\ unread \subseteq entries /\ FE!DotStaysAway
  BY DEF FeedbackInv, FeedbackTypes, FE!TypeOK, Entries
<1>2. CASE FE!DetailDone(c)
  <2>1. PICK d : d = FE!Stage(c, "image")
    OBVIOUS
  <2>2. /\ d \in Chain /\ d.stage = "image" /\ d.ph = "sent" /\ d.ids = {} /\ d.id = c.id /\ d.op = c.op
        /\ d.source = c.source /\ d.lnow = c.lnow /\ d.dnow = c.dnow
    BY <1>1, <2>1, NextStage
  <2>3. /\ chains' = (chains \ {c}) \cup {d} /\ c.stage = "detail"
        /\ UNCHANGED <<entries, news, cursor, mounted, source, mishaps, unread, acked, failed, listed, opening, listLoading,
                       detailLoading, sending, opened, urls, behind, seen>>
    BY <1>2, <2>1 DEF FE!DetailDone, FE!OtherCalls, FE!Same, FE!server, FE!bounds, FE!detail, FE!ghost
  <2>4. Follows(d)'
    BY <1>1, <2>2, <2>3 DEF Follows
  <2>5. FE!ShowsWhatIsOpen' /\ \A id \in Entries : seen'[id] >= seen[id]
    BY <1>1, <2>3 DEF FE!ShowsWhatIsOpen
  <2> QED
    BY <1>1, <2>2, <2>3, <2>4, <2>5, ChainGoesOn
<1>3. CASE FE!Shows(c)
  <2>1. PICK d : d = FE!Stage(c, "read")
    OBVIOUS
  <2>2. /\ d \in Chain /\ d.stage = "read" /\ d.ph = "sent" /\ d.ids = {} /\ d.id = c.id /\ d.op = c.op /\ d.new = c.new
        /\ d.source = c.source /\ d.lnow = c.lnow /\ d.dnow = c.dnow
    BY <1>1, <2>1, NextStage
  <2>3. /\ chains' = (chains \ {c}) \cup {d} /\ c.stage = "image" /\ c.dnow
        /\ UNCHANGED <<entries, news, cursor, mounted, source, mishaps, unread, acked, failed, listed, opening, listLoading,
                       detailLoading, sending>>
        /\ opened' = [id |-> c.id, new |-> c.new] /\ (urls' = urls \cup {c.id} \/ urls' = urls)
    BY <1>3, <2>1 DEF FE!Shows, FE!StillOpen, FE!OtherCalls, FE!Same, FE!server, FE!bounds
  <2>4. c.id \in Entries /\ c.id = opening /\ c.new \in Nat
    BY <1>1, <2>3 DEF Follows, Chain
  <2>5. /\ behind' \in BOOLEAN /\ (behind => behind') /\ (~mounted => behind')
        /\ seen' \in [Entries -> Nat] /\ (\A id \in Entries : seen'[id] >= seen[id])
        /\ (behind' \/ c.new <= seen'[c.id])
    <3>1. CASE mounted
      <4>1. PICK k : k = FE!Later(seen[c.id], c.new)
        OBVIOUS
      <4>2. k \in Nat /\ k >= seen[c.id] /\ k >= c.new
        BY <1>1, <2>4, <4>1, LargerOfTwo
      <4>3. seen' = [seen EXCEPT ![c.id] = k] /\ behind' = behind
        BY <1>3, <3>1, <4>1 DEF FE!Shows
      <4> QED
        BY <1>1, <2>4, <3>1, <4>2, <4>3
    <3>2. CASE ~mounted
      BY <1>1, <1>3, <3>2 DEF FE!Shows
    <3> QED
      BY <3>1, <3>2
  <2>6. Follows(d)'
    BY <1>1, <2>2, <2>3, <2>4, <2>5 DEF Follows
  <2>7. FE!ShowsWhatIsOpen'
    BY <1>1, <2>3, <2>4, <2>5 DEF FE!ShowsWhatIsOpen
  <2>8. opened' \in [id : Entries \cup {0}, new : Nat] /\ urls' \subseteq Entries
    BY <1>1, <2>3, <2>4
  <2> QED
    BY <2>2, <2>3, <2>5, <2>6, <2>7, <2>8, ChainGoesOn
<1>4. CASE FE!DetailFails(c)
  <2>1. /\ UNCHANGED <<entries, news, cursor, mounted, source, mishaps, listed, unread, seen, acked, behind>>
        /\ failed' = (failed \/ c.dnow) /\ c.stage \in {"detail", "image"}
    BY <1>4 DEF FE!DetailFails, FE!Same, FE!server, FE!bounds
  <2>2. failed' \in BOOLEAN /\ (failed => failed')
    BY <1>1, <2>1 DEF Chain
  <2>3. CASE c.dnow
    BY <1>1, <1>4, <2>1, <2>2, <2>3, ChainCloses DEF FE!DetailFails, FE!OtherCalls
  <2>4. CASE ~c.dnow
    <3>1. FE!Ends(c)
      BY <1>4, <2>4 DEF FE!DetailFails
    <3> QED
      BY <1>1, <2>1, <2>2, <3>1, ChainEnds DEF FE!DotStaysAway
  <2> QED
    BY <2>3, <2>4
<1> QED
  BY <1>2, <1>3, <1>4

\* The list that counts opens what was asked for, or closes what is not in it.
LEMMA FeedbackListed ==
    ASSUME FeedbackInv, NEW c \in chains, FE!ListDone(c) PROVE FeedbackInv'
<1>1. /\ chains \subseteq Chain /\ c \in Chain /\ Follows(c) /\ seen \in [Entries -> Nat] /\ acked \in [Entries -> Nat]
      /\ listLoading \in BOOLEAN /\ unread \subseteq entries /\ sending \subseteq FE!Locks /\ entries \subseteq Entries /\ Busy
      /\ mounted \in BOOLEAN /\ behind \in BOOLEAN /\ failed \in BOOLEAN
  BY DEF FeedbackInv, FeedbackTypes, FE!TypeOK, Entries
<1>2. /\ c.stage = "list" /\ c.ph = "ok" /\ c.lnow /\ listed' = c.ids
      /\ UNCHANGED <<entries, news, cursor, mounted, source, mishaps, unread, seen, acked, behind, failed>>
  BY DEF FE!ListDone, FE!Newest, FE!Same, FE!server, FE!bounds, FE!ghost
<1>3. c.ids \subseteq entries /\ c.source = source
  BY <1>1, <1>2 DEF Follows
<1>4. source = "all" /\ mishaps = 0 /\ ~failed /\ ~Submitted => listed' = entries
  BY <1>2, <1>3 DEF FeedbackInv, Listed
<1>5. CASE FE!Close(chains \ {c}) /\ FE!Released(c)
  BY <1>1, <1>2, <1>3, <1>4, <1>5, ChainCloses
<1>6. ASSUME NEW id \in c.ids, FE!Open(chains \ {c}, c, id), UNCHANGED <<listLoading, sending>> PROVE FeedbackInv'
  <2>1. PICK b : b = FE!Stage(c, "detail")
    OBVIOUS
  <2>2. /\ b \in Chain /\ b.stage = "detail" /\ b.ph = "sent" /\ b.ids = {} /\ b.op = c.op /\ b.source = c.source /\ b.lnow = c.lnow
    BY <1>1, <2>1, NextStage
  <2>3. PICK d : d = [b EXCEPT !.id = id, !.dnow = TRUE]
    OBVIOUS
  <2>4. id \in Entries
    BY <1>1, <1>3, <1>6
  <2>5. /\ d \in Chain /\ d.stage = "detail" /\ d.ph = "sent" /\ d.ids = {} /\ d.op = c.op /\ d.source = source /\ d.lnow
        /\ d.id = id /\ d.dnow
    BY <1>2, <1>3, <2>2, <2>3, <2>4 DEF Chain
  <2>6. PICK T :
        /\ T = FE!Closed(chains \ {c}) /\ Fewer(T, chains \ {c}) /\ \A h \in T : ~h.dnow
    <3>1. chains \ {c} \subseteq Chain
      BY <1>1
    <3> QED
      BY <3>1, ClosedFewer
  <2>7. /\ chains' = T \cup {d} /\ opening' = id /\ opened' = FE!NoDetail /\ urls' = {} /\ detailLoading' = TRUE
    BY <1>6, <2>1, <2>3, <2>6 DEF FE!Open, FE!Revoked
  <2>8. Follows(d)'
    BY <1>2, <1>3, <2>4, <2>5, <2>7 DEF Follows
  <2>9. /\ \A h \in T : \E e \in chains \ {c} : Less(h, e) /\ ~h.dnow
        /\ \A e \in chains \ {c} : \E h \in T : h.stage = e.stage /\ h.op = e.op /\ h.ph = e.ph
        /\ \A h \in T : \E e \in chains : /\ h.stage = e.stage /\ h.ph = e.ph /\ (h.lnow => e.lnow)
                                          /\ h.ids = e.ids /\ h.source = e.source
    <3>1. \A h \in T : \E e \in chains \ {c} : Less(h, e) /\ ~h.dnow
      BY <2>6 DEF Fewer
    <3>2. ASSUME NEW e \in chains \ {c} PROVE \E h \in T : h.stage = e.stage /\ h.op = e.op /\ h.ph = e.ph
      <4>1. PICK h \in T : Less(h, e)
        BY <2>6 DEF Fewer
      <4> QED
        BY <4>1 DEF Less
    <3>3. ASSUME NEW h \in T
          PROVE  \E e \in chains : /\ h.stage = e.stage /\ h.ph = e.ph /\ (h.lnow => e.lnow)
                                   /\ h.ids = e.ids /\ h.source = e.source
      <4>1. PICK e \in chains \ {c} : Less(h, e)
        BY <3>1
      <4> QED
        BY <4>1 DEF Less
    <3> QED
      BY <3>1, <3>2, <3>3
  <2>10. \A h \in chains' : Onward(h) \/ (h \in Chain /\ Follows(h)')
    <3>1. \A h \in T : Onward(h)
      BY <1>2, <2>9 DEF Onward
    <3> QED
      BY <2>5, <2>7, <2>8, <3>1
  <2>11. FE!TypeOK'
    BY <1>1, <1>2, <1>3, <1>6, <2>4, <2>7 DEF FeedbackInv, FeedbackTypes, FE!TypeOK, Entries
  <2>12. FE!ShowsWhatIsOpen' /\ FE!UnseenStaysUnread' /\ FE!DotStaysAway' /\ Acknowledged'
    BY <1>2, <1>6, <2>7 DEF FeedbackInv, FE!ShowsWhatIsOpen, FE!UnseenStaysUnread, FE!DotStaysAway, Acknowledged
  <2>13. Submitted => Submitted'
    BY <1>2, <2>7, <2>9 DEF Submitted
  <2>14. Listed'
    <3> SUFFICES ASSUME mishaps = 0, ~failed, ~Submitted'
                 PROVE  /\ \A h \in chains' : h.stage = "list" /\ h.ph = "ok" /\ h.lnow /\ h.source = "all" => h.ids = entries
                        /\ source = "all" => listed' = entries
      BY <1>2 DEF Listed
    <3>1. \A e \in chains : e.stage = "list" /\ e.ph = "ok" /\ e.lnow /\ e.source = "all" => e.ids = entries
      BY <2>13 DEF FeedbackInv, Listed
    <3>2. \A h \in T : h.stage = "list" /\ h.ph = "ok" /\ h.lnow /\ h.source = "all" => h.ids = entries
      BY <2>9, <3>1
    <3> QED
      BY <1>4, <2>5, <2>7, <2>13, <3>2
  <2>15. Busy'
    BY <1>1, <1>6, <2>5, <2>7, <2>9 DEF Busy
  <2>16. opened' \in [id : Entries \cup {0}, new : Nat] /\ \A i \in Entries : seen'[i] >= seen[i]
    BY <1>1, <1>2, <2>7 DEF FE!NoDetail
  <2> QED
    BY <1>1, <1>2, <2>10, <2>11, <2>12, <2>14, <2>15, <2>16, ChainsAnswered
<1> QED
  <2>1. PICK id : id = IF c.id # 0 THEN c.id ELSE opened.id
    OBVIOUS
  <2>2. CASE id \in c.ids
    <3>1. FE!Open(chains \ {c}, c, id) /\ UNCHANGED <<listLoading, sending>>
      BY <2>1, <2>2 DEF FE!ListDone, FE!OtherCalls
    <3> QED
      BY <1>6, <2>2, <3>1
  <2>3. CASE id \notin c.ids
    <3>1. FE!Close(chains \ {c}) /\ FE!Released(c)
      BY <2>1, <2>3 DEF FE!ListDone, FE!OtherCalls
    <3> QED
      BY <1>5, <3>1
  <2> QED
    BY <2>2, <2>3

\* What was read is known to be read, and what is unread is asked again.
LEMMA FeedbackRead ==
    ASSUME FeedbackInv, NEW c \in chains, FE!ReadDone(c) PROVE FeedbackInv'
<1>1. /\ chains \subseteq Chain /\ c \in Chain /\ Follows(c) /\ seen \in [Entries -> Nat] /\ acked \in [Entries -> Nat]
      /\ cursor \in [Entries -> Nat] /\ unread \subseteq entries /\ Busy /\ behind \in BOOLEAN /\ failed \in BOOLEAN
      /\ opened \in [id : Entries \cup {0}, new : Nat]
  BY DEF FeedbackInv, FeedbackTypes, FE!TypeOK, Entries
<1>2. PICK k : k = FE!Later(acked[c.id], c.new)
  OBVIOUS
<1>3. PICK b : b = FE!Stage(c, "unread")
  OBVIOUS
<1>4. PICK d : d = [b EXCEPT !.unow = TRUE]
  OBVIOUS
<1>5. PICK T : T = FE!NewRequest(chains \ {c})
  OBVIOUS
<1>6. /\ c.stage = "read" /\ c.ph = "ok" /\ unread' = unread \ {c.id} /\ acked' = [acked EXCEPT ![c.id] = k]
      /\ chains' = T \cup {d}
      /\ UNCHANGED <<entries, news, cursor, mounted, source, mishaps, listed, listLoading, sending, opening, opened, urls,
                     detailLoading, seen, behind, failed>>
  BY <1>2, <1>3, <1>4, <1>5 DEF FE!ReadDone, FE!OtherCalls, FE!Same, FE!server, FE!bounds, FE!detail
<1>7. c.id \in Entries /\ c.new \in Nat /\ c.new <= cursor[c.id]
  BY <1>1, <1>6 DEF Follows, Chain
<1>8. k \in Nat /\ k \in {acked[c.id], c.new}
  BY <1>1, <1>2, <1>7, LargerOfTwo
<1>9. /\ d \in Chain /\ d.stage = "unread" /\ d.ph = "sent" /\ d.ids = {} /\ d.op = c.op /\ d.id = c.id
      /\ d.source = c.source /\ d.lnow = c.lnow /\ d.dnow = c.dnow
  <2>1. /\ b \in Chain /\ b.stage = "unread" /\ b.ph = "sent" /\ b.ids = {} /\ b.op = c.op /\ b.id = c.id
        /\ b.source = c.source /\ b.lnow = c.lnow /\ b.dnow = c.dnow
    BY <1>1, <1>3, NextStage
  <2> QED
    BY <1>4, <2>1 DEF Chain
<1>10. Follows(d)'
  BY <1>1, <1>6, <1>9 DEF Follows
<1>11. /\ \A e \in T : ~e.unow
       /\ \A e \in chains \ {c} : \E h \in T : Less(h, e) /\ h.dnow = e.dnow /\ h.lnow = e.lnow
       /\ \A h \in T : \E e \in chains \ {c} : Less(h, e) /\ h.dnow = e.dnow /\ h.lnow = e.lnow
  <2>1. chains \ {c} \subseteq Chain
    BY <1>1
  <2> QED
    BY <1>5, <2>1, NewRequestFewer
<1>12. \A h \in chains' : Onward(h) \/ (h \in Chain /\ Follows(h)')
  <2>1. \A h \in T : Onward(h)
    BY <1>6, <1>11 DEF Onward
  <2> QED
    BY <1>6, <1>9, <1>10, <2>1
<1>13. /\ \A e \in chains \ {c} : \E h \in T : /\ h.op = e.op /\ h.stage = e.stage /\ h.ph = e.ph /\ h.lnow = e.lnow /\ h.dnow = e.dnow
       /\ \A h \in T : \E e \in chains \ {c} : /\ h.stage = e.stage /\ h.ph = e.ph /\ h.lnow = e.lnow
                                               /\ h.ids = e.ids /\ h.source = e.source
  <2>1. ASSUME NEW e \in chains \ {c}
        PROVE  \E h \in T : /\ h.op = e.op /\ h.stage = e.stage /\ h.ph = e.ph /\ h.lnow = e.lnow /\ h.dnow = e.dnow
    <3>1. PICK h \in T : Less(h, e) /\ h.dnow = e.dnow /\ h.lnow = e.lnow
      BY <1>11
    <3> QED
      BY <3>1 DEF Less
  <2>2. ASSUME NEW h \in T
        PROVE  \E e \in chains \ {c} : /\ h.stage = e.stage /\ h.ph = e.ph /\ h.lnow = e.lnow
                                       /\ h.ids = e.ids /\ h.source = e.source
    <3>1. PICK e \in chains \ {c} : Less(h, e) /\ h.lnow = e.lnow
      BY <1>11
    <3> QED
      BY <3>1 DEF Less
  <2> QED
    BY <2>1, <2>2
<1>14. acked' \in [Entries -> Nat] /\ \A i \in Entries : seen'[i] >= seen[i]
  BY <1>1, <1>6, <1>7, <1>8
<1>15. FE!TypeOK'
  BY <1>1, <1>6 DEF FeedbackInv, FeedbackTypes, FE!TypeOK, Entries
<1>16. FE!ShowsWhatIsOpen' /\ FE!UnseenStaysUnread'
  BY <1>6 DEF FeedbackInv, FE!ShowsWhatIsOpen, FE!UnseenStaysUnread
<1>17. FE!DotStaysAway'
  BY <1>1, <1>6 DEF FeedbackInv, FeedbackTypes, FE!TypeOK, FE!DotStaysAway, Entries
<1>18. Acknowledged'
  BY <1>1, <1>6, <1>7, <1>8 DEF FeedbackInv, Acknowledged
<1>19. Submitted => Submitted'
  BY <1>6, <1>13 DEF Submitted
<1>20. Listed'
  <2> SUFFICES ASSUME mishaps = 0, ~failed, ~Submitted'
               PROVE  /\ \A h \in chains' : h.stage = "list" /\ h.ph = "ok" /\ h.lnow /\ h.source = "all" => h.ids = entries
                      /\ source = "all" => listed = entries \/ \E h \in chains' : h.stage = "list" /\ h.lnow
    BY <1>6 DEF Listed
  <2>1. /\ \A e \in chains : e.stage = "list" /\ e.ph = "ok" /\ e.lnow /\ e.source = "all" => e.ids = entries
        /\ source = "all" => listed = entries \/ \E e \in chains \ {c} : e.stage = "list" /\ e.lnow
    BY <1>6, <1>19 DEF FeedbackInv, Listed
  <2>2. \A h \in T : h.stage = "list" /\ h.ph = "ok" /\ h.lnow /\ h.source = "all" => h.ids = entries
    BY <1>13, <2>1
  <2>3. source = "all" => listed = entries \/ \E h \in T : h.stage = "list" /\ h.lnow
    BY <1>13, <2>1
  <2> QED
    BY <1>6, <1>9, <2>2, <2>3
<1>21. Busy'
  <2>1. listLoading => \E h \in chains' : h.lnow
    BY <1>1, <1>6, <1>9, <1>13 DEF Busy
  <2>2. detailLoading => \E h \in chains' : h.dnow
    BY <1>1, <1>6, <1>9, <1>13 DEF Busy
  <2>3. \A op \in sending : \E h \in chains' : h.op = op
    BY <1>1, <1>6, <1>9, <1>13 DEF Busy
  <2> QED
    BY <1>6, <2>1, <2>2, <2>3 DEF Busy
<1> QED
  BY <1>1, <1>6, <1>12, <1>14, <1>15, <1>16, <1>17, <1>18, <1>20, <1>21, ChainsAnswered

\* What was sent is read again with a list of its own.
LEMMA FeedbackSent ==
    ASSUME FeedbackInv, NEW c \in chains, FE!Sent(c) PROVE FeedbackInv'
<1>1. /\ chains \subseteq Chain /\ c \in Chain /\ Follows(c) /\ seen \in [Entries -> Nat] /\ acked \in [Entries -> Nat]
      /\ Busy /\ behind \in BOOLEAN /\ failed \in BOOLEAN /\ source \in {"all", "manual"}
      /\ opened \in [id : Entries \cup {0}, new : Nat]
  BY DEF FeedbackInv, FeedbackTypes, FE!TypeOK, Entries
<1>2. PICK S : S = chains \ {c}
  OBVIOUS
<1>3. /\ c.stage = "api" /\ c.ph = "ok" /\ listLoading' = TRUE /\ source' \in {"all", "manual"} /\ chains' = FE!Loads(S, c)
      /\ UNCHANGED <<entries, news, cursor, mounted, mishaps, listed, sending, opening, opened, urls, detailLoading, unread,
                     seen, acked, behind, failed>>
  BY <1>1, <1>2 DEF FE!Sent, FE!OtherCalls, FE!server, FE!bounds, FE!detail, FE!ghost
<1>4. PICK T : T = FE!Unlisted(S)
  OBVIOUS
<1>5. S \subseteq Chain
  BY <1>1, <1>2
<1>6. PICK d \in Chain :
              /\ d.op = c.op /\ d.id = c.id /\ d.stage = "list" /\ d.ph = "sent" /\ d.ids = {}
              /\ d.source = source' /\ d.lnow /\ d.dnow = c.dnow /\ chains' = T \cup {d}
  BY <1>1, <1>3, <1>4, <1>5, LoadsList
<1>7. Fewer(T, S) /\ (\A e \in T : ~e.lnow) /\ \A e \in S : \E h \in T : Less(h, e) /\ h.dnow = e.dnow
  BY <1>4, <1>5, UnlistedFewer
<1>8. Follows(d)'
  BY <1>1, <1>3, <1>6 DEF Follows
<1>9. \A h \in chains' : Onward(h) \/ (h \in Chain /\ Follows(h)')
  <2>1. \A h \in T : Onward(h)
    BY <1>2, <1>3, <1>7 DEF Onward, Fewer
  <2> QED
    BY <1>6, <1>8, <2>1
<1>10. FE!TypeOK'
  BY <1>1, <1>3 DEF FeedbackInv, FeedbackTypes, FE!TypeOK, Entries
<1>11. FE!ShowsWhatIsOpen' /\ FE!UnseenStaysUnread' /\ FE!DotStaysAway' /\ Acknowledged'
  BY <1>3 DEF FeedbackInv, FE!ShowsWhatIsOpen, FE!UnseenStaysUnread, FE!DotStaysAway, Acknowledged
<1>12. Listed'
  BY <1>6, <1>7 DEF Listed
<1>13. Busy'
  <2>1. ASSUME NEW e \in S PROVE \E h \in T : h.op = e.op /\ h.dnow = e.dnow
    <3>1. PICK h \in T : Less(h, e) /\ h.dnow = e.dnow
      BY <1>7
    <3> QED
      BY <3>1 DEF Less
  <2>2. detailLoading => \E h \in chains' : h.dnow
    BY <1>1, <1>2, <1>6, <2>1 DEF Busy
  <2>3. \A op \in sending : \E h \in chains' : h.op = op
    BY <1>1, <1>2, <1>6, <2>1 DEF Busy
  <2> QED
    BY <1>3, <1>6, <2>2, <2>3 DEF Busy
<1>14. \A i \in Entries : seen'[i] >= seen[i]
  BY <1>1, <1>3
<1> QED
  BY <1>1, <1>3, <1>9, <1>10, <1>11, <1>12, <1>13, <1>14, ChainsAnswered

\* Every step keeps the invariant.
LEMMA FeedbackStep ==
    ASSUME FeedbackInv, [FE!Next]_(FE!vars) PROVE FeedbackInv'
<1>1. CASE UNCHANGED FE!vars
  <2>1. UNCHANGED <<entries, news, cursor, mounted, source, mishaps, listed, listLoading, sending, opening, opened, urls,
                    detailLoading, unread, chains, seen, acked, behind, failed>>
    BY <1>1 DEF FE!vars, FE!server, FE!page, FE!detail, FE!ghost, FE!bounds
  <2>2. \A d \in chains : Follows(d)'
    BY <2>1 DEF FeedbackInv, Follows
  <2> QED
    BY <2>1, <2>2 DEF FeedbackInv, FeedbackTypes, FE!TypeOK, FE!ShowsWhatIsOpen, FE!UnseenStaysUnread, FE!DotStaysAway,
                      Acknowledged, Listed, Submitted, Busy
<1>2. ASSUME NEW id \in Entries, FE!ToggleItem(id) \/ FE!OtherReplies(id) PROVE FeedbackInv'
  BY <1>2, FeedbackOpens, OthersReply
<1>3. ASSUME NEW s \in {"all", "manual"}, FE!SelectSource(s) PROVE FeedbackInv'
  BY <1>3, FeedbackLoads
<1>4. ASSUME NEW c \in chains, FE!Answers(c) PROVE FeedbackInv'
  BY <1>4, FeedbackEnds, FeedbackDetails, FeedbackListed, FeedbackRead, FeedbackSent, Zenon DEF FE!Answers
<1>5. ASSUME NEW c \in chains, FE!Serves(c) PROVE FeedbackInv'
  BY <1>5, FeedbackServed
<1>6. CASE FE!loadList \/ FE!updateStatus \/ FE!reply \/ FE!submit \/ FE!Leave \/ FE!Poll
  BY <1>6, FeedbackLoads, FeedbackSends, FeedbackOpens
<1> QED
  BY <1>1, <1>2, <1>3, <1>4, <1>5, <1>6, Zenon DEF FE!Next, Entries

\* With nothing under way no spinner or lock is left, and the whole list is there.
LEMMA FeedbackShown == ASSUME FeedbackInv PROVE FE!FeedbackSettles
<1> SUFFICES ASSUME chains = {}
             PROVE  /\ ~listLoading /\ ~detailLoading /\ sending = {}
                    /\ source = "all" /\ ~failed /\ mishaps = 0 => listed = entries
  BY DEF FE!FeedbackSettles, FE!All
<1> QED
  BY DEF FeedbackInv, Busy, Listed, Submitted

-----------------------------------------------------------------------------
(* What is opened to be studied.  An answer that is still awaited is of the *)
(* target that was opened last; nothing else changes the viewer.            *)

viewer   == s2
awaiting == s5
target   == s6
opens    == s8
USE DEF viewer, awaiting, target, opens

Reading == [id : 1..opens, kind : CR!Kinds \cup {"window"}, step : {1, 2}, ph : {"sent", "ok", "error"},
            now : BOOLEAN, context : Nat]

ReaderInv ==
    /\ s1 \in Nat /\ opens \in Nat /\ target \in 0..opens
    /\ viewer \in [id : 0..opens, ready : BOOLEAN, object : BOOLEAN]
    /\ awaiting \subseteq Reading
    /\ CR!ViewerIsLastOpened
    /\ \A c \in awaiting : c.now /\ c.kind # "window" => c.id = target

\* The invariant holds at the start.
LEMMA ReaderStart == ASSUME CR!Init PROVE ReaderInv
BY DEF CR!Init, ReaderInv, CR!NoViewer, CR!ViewerIsLastOpened

\* After a new opening none of the former ones is awaited.
LEMMA NoneAwaited ==
    ASSUME awaiting \subseteq Reading
    PROVE  CR!Outdated \subseteq Reading /\ \A d \in CR!Outdated : ~d.now
<1> DEFINE L(e) == [e EXCEPT !.now = FALSE]
<1>1. \A e \in Reading : L(e) \in Reading /\ ~L(e).now
  BY DEF Reading
<1>2. CR!Outdated = {L(e) : e \in awaiting}
  BY DEF CR!Outdated
<1> HIDE DEF L
<1> QED
  BY <1>1, <1>2

\* Every step keeps the invariant.
LEMMA ReaderStep ==
    ASSUME ReaderInv, [CR!Next]_(CR!vars) PROVE ReaderInv'
<1>1. /\ s1 \in Nat /\ opens \in Nat /\ target \in 0..opens /\ viewer \in [id : 0..opens, ready : BOOLEAN, object : BOOLEAN]
      /\ awaiting \subseteq Reading /\ CR!ViewerIsLastOpened
      /\ \A c \in awaiting : c.now /\ c.kind # "window" => c.id = target
  BY DEF ReaderInv
<1>2. CR!NoViewer \in [id : 0..opens, ready : BOOLEAN, object : BOOLEAN] /\ CR!NoViewer.id = 0
  BY <1>1 DEF CR!NoViewer
<1>3. CR!Outdated \subseteq Reading /\ \A d \in CR!Outdated : ~d.now
  BY <1>1, NoneAwaited
\* The viewer is left as it is or closed, with fewer answers awaited.
<1>4. ASSUME UNCHANGED <<opens>>, s1' \in Nat, target' \in {0, target}, awaiting' \subseteq Reading,
             \/ viewer' = viewer /\ target' = target
             \/ viewer' = CR!NoViewer,
             \A c \in awaiting' : c.now /\ c.kind # "window" => c.id = target'
      PROVE  ReaderInv'
  BY <1>1, <1>2, <1>4 DEF ReaderInv, Reading, CR!ViewerIsLastOpened, CR!NoViewer
\* Another target is opened.
<1>5. ASSUME opens' = opens + 1, s1' = s1, target' = opens', awaiting' \subseteq CR!Outdated \cup {c \in Reading' : c.id = opens'},
             viewer' \in [id : 0..opens', ready : BOOLEAN, object : BOOLEAN], viewer' = CR!NoViewer \/ viewer'.id = opens'
      PROVE  ReaderInv'
  <2>1. Reading \subseteq Reading'
    BY <1>1, <1>5 DEF Reading
  <2>2. awaiting' \subseteq Reading'
    BY <1>3, <1>5, <2>1
  <2>3. CR!ViewerIsLastOpened'
    BY <1>5 DEF CR!ViewerIsLastOpened, CR!NoViewer
  <2> QED
    BY <1>1, <1>3, <1>5, <2>2, <2>3 DEF ReaderInv
<1>6. ASSUME NEW k, k \in CR!Kinds \cup {"window"}, opens' = opens + 1, s1' = s1
      PROVE  [id |-> opens', kind |-> k, step |-> 1, ph |-> "sent", now |-> TRUE, context |-> s1] \in Reading'
  BY <1>1, <1>6 DEF Reading
<1>7. CASE UNCHANGED CR!vars
  BY <1>1, <1>4, <1>7 DEF CR!vars
<1>8. CASE CR!Close \/ CR!Switch
  <2>1. /\ UNCHANGED <<opens>> /\ s1' \in Nat /\ target' = 0 /\ awaiting' = CR!Outdated /\ viewer' = CR!NoViewer
    BY <1>1, <1>8 DEF CR!Close, CR!Switch
  <2> QED
    BY <1>3, <1>4, <2>1
<1>9. CASE CR!OpenAtHand
  <2>1. /\ opens' = opens + 1 /\ s1' = s1 /\ target' = opens' /\ awaiting' = CR!Outdated
        /\ viewer' = [id |-> opens', ready |-> TRUE, object |-> FALSE]
    BY <1>9 DEF CR!OpenAtHand, CR!Opens, CR!Shown
  <2>2. viewer' \in [id : 0..opens', ready : BOOLEAN, object : BOOLEAN] /\ viewer'.id = opens'
    BY <1>1, <2>1
  <2> QED
    BY <1>5, <2>1, <2>2
<1>10. ASSUME NEW k \in CR!Kinds, CR!OpenTarget(k) PROVE ReaderInv'
  <2>1. PICK c : c = [id |-> opens', kind |-> k, step |-> 1, ph |-> "sent", now |-> TRUE, context |-> s1]
    OBVIOUS
  <2>2. /\ opens' = opens + 1 /\ s1' = s1 /\ target' = opens' /\ awaiting' = CR!Outdated \cup {c}
        /\ viewer' \in {CR!NoViewer, [CR!NoViewer EXCEPT !.id = opens']}
    BY <1>10, <2>1 DEF CR!OpenTarget, CR!Opens
  <2>3. c \in Reading' /\ c.id = opens'
    BY <1>6, <2>1, <2>2
  <2>4. /\ viewer' \in [id : 0..opens', ready : BOOLEAN, object : BOOLEAN]
        /\ viewer' = CR!NoViewer \/ viewer'.id = opens'
    <3>1. PICK w : w = CR!NoViewer
      OBVIOUS
    <3>2. w \in [id : 0..opens, ready : BOOLEAN, object : BOOLEAN] /\ (viewer' = w \/ viewer' = [w EXCEPT !.id = opens'])
      BY <1>2, <2>2, <3>1
    <3>3. CASE viewer' = w
      BY <1>1, <2>2, <3>1, <3>2, <3>3
    <3>4. CASE viewer' = [w EXCEPT !.id = opens']
      BY <1>1, <2>2, <3>2, <3>4
    <3> QED
      BY <3>2, <3>3, <3>4
  <2> QED
    BY <1>5, <2>2, <2>3, <2>4
<1>11. ASSUME NEW b \in BOOLEAN, CR!OpenWindow(b) PROVE ReaderInv'
  <2>1. PICK c : c = [id |-> opens', kind |-> "window", step |-> 1, ph |-> "sent", now |-> TRUE, context |-> s1]
    OBVIOUS
  <2>2. opens' = opens + 1 /\ UNCHANGED <<s1, viewer, target>> /\ awaiting' = awaiting \cup {c}
    BY <1>11, <2>1 DEF CR!OpenWindow
  <2>3. c \in Reading' /\ c.kind = "window" /\ Reading \subseteq Reading'
    BY <1>1, <1>6, <2>1, <2>2 DEF Reading
  <2>4. viewer' \in [id : 0..opens', ready : BOOLEAN, object : BOOLEAN] /\ target' \in 0..opens'
    BY <1>1, <2>2
  <2> QED
    BY <1>1, <2>2, <2>3, <2>4 DEF ReaderInv, CR!ViewerIsLastOpened
<1>12. ASSUME NEW w, CR!CloseWindow(w) PROVE ReaderInv'
  BY <1>1, <1>4, <1>12 DEF CR!CloseWindow
<1>13. ASSUME NEW c \in awaiting, NEW p \in {"ok", "error"}, CR!Serve(c, p) PROVE ReaderInv'
  <2>1. PICK d : d = [c EXCEPT !.ph = p]
    OBVIOUS
  <2>2. UNCHANGED <<s1, viewer, target, opens>> /\ awaiting' = (awaiting \ {c}) \cup {d}
    BY <1>13, <2>1 DEF CR!Serve, CR!OtherCalls
  <2>3. d \in Reading /\ d.now = c.now /\ d.kind = c.kind /\ d.id = c.id
    BY <1>1, <2>1 DEF Reading
  <2> QED
    BY <1>1, <1>4, <2>2, <2>3
<1>14. ASSUME NEW c \in awaiting, CR!Arrives(c) PROVE ReaderInv'
  <2>1. PICK d : d = [c EXCEPT !.step = 2, !.ph = "sent"]
    OBVIOUS
  <2>2. UNCHANGED <<s1, viewer, target, opens>> /\ awaiting' \subseteq awaiting \cup {d}
    BY <1>14, <2>1 DEF CR!Arrives, CR!OtherCalls
  <2>3. d \in Reading /\ d.now = c.now /\ d.kind = c.kind /\ d.id = c.id
    BY <1>1, <2>1 DEF Reading
  <2> QED
    BY <1>1, <1>4, <2>2, <2>3
<1>15. ASSUME NEW c \in awaiting, CR!Show(c) PROVE ReaderInv'
  <2>1. UNCHANGED <<s1, target, opens>> /\ awaiting' = awaiting \ {c} /\ c \in Reading
    BY <1>1, <1>15 DEF CR!Show, CR!OtherCalls
  <2>2. CASE ~CR!Awaited(c)
    BY <1>1, <1>4, <1>15, <2>1, <2>2 DEF CR!Show
  <2>3. CASE CR!Awaited(c)
    <3>1. PICK o \in BOOLEAN : viewer' = [id |-> c.id, ready |-> TRUE, object |-> o]
      BY <1>15, <2>3 DEF CR!Show, CR!Shown
    <3>2. c.id = target
      BY <1>1, <1>15, <2>3 DEF CR!Show, CR!Awaited, CR!Contextual, CR!TwoSteps
    <3> QED
      BY <1>1, <2>1, <3>1, <3>2 DEF ReaderInv, Reading, CR!ViewerIsLastOpened
  <2> QED
    BY <2>2, <2>3
<1>16. ASSUME NEW c \in awaiting, CR!Play(c) PROVE ReaderInv'
  <2>1. /\ UNCHANGED <<s1, target, opens>> /\ awaiting' = awaiting \ {c} /\ c \in Reading
        /\ viewer' = IF viewer.id = c.id THEN [id |-> c.id, ready |-> TRUE, object |-> FALSE] ELSE viewer
    BY <1>1, <1>16 DEF CR!Play, CR!OtherCalls, CR!Shown
  <2>2. CASE viewer.id = c.id
    <3>1. c.id \in 1..opens /\ c.id # 0
      BY <1>1, <2>1 DEF Reading
    <3>2. c.id = target
      BY <1>2, <1>1, <2>2, <3>1 DEF CR!ViewerIsLastOpened
    <3> QED
      BY <1>1, <2>1, <2>2, <3>1, <3>2 DEF ReaderInv, CR!ViewerIsLastOpened, Reading
  <2>3. CASE viewer.id # c.id
    BY <1>1, <1>4, <2>1, <2>3
  <2> QED
    BY <2>2, <2>3
<1>17. ASSUME NEW c \in awaiting, CR!Fail(c) PROVE ReaderInv'
  <2>1. UNCHANGED <<s1, target, opens>>
    BY <1>17 DEF CR!Fail
  <2>2. CASE CR!Closes(c)
    <3>1. PICK S : S = awaiting \ {c}
      OBVIOUS
    <3>2. /\ viewer' = CR!NoViewer /\ awaiting' = {[d EXCEPT !.now = FALSE] : d \in S}
      BY <1>17, <2>2, <3>1 DEF CR!Fail, CR!OtherCalls
    <3> DEFINE L(e) == [e EXCEPT !.now = FALSE]
    <3>3. \A e \in Reading : L(e) \in Reading /\ ~L(e).now
      BY DEF Reading
    <3>4. awaiting' = {L(e) : e \in S}
      BY <3>2
    <3> HIDE DEF L
    <3>5. awaiting' \subseteq Reading /\ \A d \in awaiting' : ~d.now
      BY <1>1, <3>1, <3>3, <3>4
    <3> QED
      BY <1>1, <1>4, <2>1, <3>2, <3>5
  <2>3. CASE ~CR!Closes(c)
    BY <1>1, <1>4, <1>17, <2>1, <2>3 DEF CR!Fail, CR!OtherCalls
  <2> QED
    BY <2>2, <2>3
<1>18. ASSUME NEW c \in awaiting, CR!WindowDone(c) PROVE ReaderInv'
  BY <1>1, <1>4, <1>18 DEF CR!WindowDone, CR!OtherCalls
<1> QED
  BY <1>7, <1>8, <1>9, <1>10, <1>11, <1>12, <1>13, <1>14, <1>15, <1>16, <1>17, <1>18 DEF CR!Next

-----------------------------------------------------------------------------
(* The attendance sheet.  While nothing has overlapped there is one call at *)
(* a time: a load is of what is chosen, and a mark is made on the sheet of  *)
(* what is chosen, which is as the server has it but for that mark, or for  *)
(* one whose answer was lost.                                               *)

marks      == s1
fixedDays  == s2
extraDays  == s3
chosenMinistry == s4
onTab      == s5
month      == s6
sheet      == s7
sheetLoading == s8
markSaving == s9
weekdays   == s10
extraDates == s11
attending  == s12
mixed      == s13
unheard    == s15
USE DEF marks, fixedDays, extraDays, chosenMinistry, onTab, month, sheet, sheetLoading, markSaving, weekdays,
        extraDates, attending, mixed, unheard

Sheet  == [group : Groups, month : Months, present : BOOLEAN, days : BOOLEAN, extra : BOOLEAN]
Values == [days : BOOLEAN, extra : BOOLEAN]
Keeps  == {<<>>, <<TRUE>>, <<FALSE>>}
Saving == {c \in [op : {"load", "weekday", "settings", "mark"}, group : Groups, month : Months, value : Values,
                   keeps : Keeps, previous : BOOLEAN, now : BOOLEAN, ph : {"sent", "ok", "error"},
                   ans : Sheet \cup {None}] :
              c.op = "load" /\ c.ph = "ok" => c.ans \in Sheet}

OfChoice(s) == s.group = chosenMinistry /\ s.month = month
AsStored(s) == "mark" \in unheard \/ s.present = marks[chosenMinistry][month]
SheetFits   == sheet # None => OfChoice(sheet) /\ AsStored(sheet)

SavingFits(c) ==
    /\ c.op = "load" => (/\ OfChoice(c)
                         /\ c.ph = "ok" => (OfChoice(c.ans) /\ AsStored(c.ans))
                         /\ c.ph = "error" => c.ans = None)
    /\ c.op \in {"weekday", "settings"} => SheetFits
    /\ c.op = "mark" => (/\ OfChoice(c) /\ c.now /\ (sheet # None => OfChoice(sheet))
                         /\ IF c.ph = "ok" THEN marks[chosenMinistry][month] = c.value.days ELSE SheetFits)

AttendanceTypes ==
    /\ AT!TypeOK /\ onTab \in BOOLEAN /\ mixed \in BOOLEAN /\ sheet \in Sheet \cup {None} /\ attending \subseteq Saving

AttendanceInv ==
    /\ AttendanceTypes
    /\ ~mixed => \A c, d \in attending : c = d
    /\ ~mixed /\ onTab => (attending = {} => SheetFits) /\ \A c \in attending : SavingFits(c)

\* The invariant holds at the start and says what is shown.
LEMMA AttendanceStart == ASSUME AT!Init PROVE AttendanceInv
BY DEF AT!Init, AttendanceInv, AttendanceTypes, AT!TypeOK

LEMMA AttendanceShown == ASSUME AttendanceInv PROVE AT!SheetOfChoice
BY DEF AttendanceInv, SheetFits, OfChoice, AsStored, AT!SheetOfChoice

\* A call that begins is of the ministry and month that are chosen.
LEMMA NewSaving ==
    ASSUME weekdays \in BOOLEAN, NEW op \in {"load", "weekday", "settings", "mark"}, NEW g \in Groups, NEW m \in Months,
           NEW v \in Values, NEW k \in Keeps
    PROVE  LET c == AT!Call(op, g, m, v, k) IN
           c \in Saving /\ c.op = op /\ c.group = g /\ c.month = m /\ c.value = v /\ c.now /\ c.ph = "sent"
BY DEF AT!Call, Saving

\* A load of what is chosen begins: alone, or mixed with others.
LEMMA AttendanceLoads ==
    ASSUME AttendanceInv, NEW S, S \subseteq Saving, NEW v \in Values, NEW k \in Keeps,
           attending' = S \cup {AT!Call("load", chosenMinistry', month', v, k)},
           ~mixed' => S = {}, mixed' \in BOOLEAN, chosenMinistry' \in Groups, month' \in Months, onTab' \in BOOLEAN,
           sheetLoading' \in BOOLEAN, unheard' \subseteq unheard,
           UNCHANGED <<marks, fixedDays, extraDays, sheet, markSaving, weekdays, extraDates>>
    PROVE  AttendanceInv'
<1>1. PICK c : c = AT!Call("load", chosenMinistry', month', v, k)
  OBVIOUS
<1>2. c \in Saving /\ c.op = "load" /\ c.group = chosenMinistry' /\ c.month = month' /\ c.ph = "sent"
  <2>1. weekdays \in BOOLEAN
    BY DEF AttendanceInv, AttendanceTypes, AT!TypeOK
  <2> QED
    BY <1>1, <2>1, NewSaving
<1>3. attending' = S \cup {c}
  BY <1>1
<1>4. AttendanceTypes'
  BY <1>2, <1>3 DEF AttendanceInv, AttendanceTypes, AT!TypeOK, Saving
<1>5. SavingFits(c)'
  BY <1>2 DEF SavingFits, OfChoice
<1> QED
  BY <1>3, <1>4, <1>5 DEF AttendanceInv

\* Marks and settings are saved from the sheet that is shown.
LEMMA AttendanceSaves ==
    ASSUME AttendanceInv, NEW op \in {"weekday", "settings", "mark"}, NEW v \in Values, NEW k \in Keeps,
           AT!Saves(op, v, k), AT!Shown, weekdays' \in BOOLEAN,
           UNCHANGED <<marks, fixedDays, extraDays, chosenMinistry, onTab, month, sheet, sheetLoading, extraDates>>
    PROVE  AttendanceInv'
<1>1. /\ sheet \in Sheet /\ sheet # None /\ chosenMinistry \in Groups /\ attending \subseteq Saving /\ weekdays \in BOOLEAN
      /\ mixed \in BOOLEAN
  BY DEF AttendanceInv, AttendanceTypes, AT!TypeOK, AT!Shown
<1>2. PICK c : c = AT!Call(op, chosenMinistry, sheet.month, v, k)
  OBVIOUS
<1>3. c \in Saving /\ c.op = op /\ c.group = chosenMinistry /\ c.month = sheet.month /\ c.ph = "sent" /\ c.now
  <2>1. sheet.month \in Months
    BY <1>1 DEF Sheet
  <2> QED
    BY <1>1, <1>2, <2>1, NewSaving
<1>4. /\ attending' = attending \cup {c} /\ mixed' = (mixed \/ attending # {}) /\ markSaving' = TRUE
      /\ unheard' = unheard
  BY <1>2 DEF AT!Saves
<1>5. AttendanceTypes'
  BY <1>1, <1>3, <1>4 DEF AttendanceInv, AttendanceTypes, AT!TypeOK
<1>6. ASSUME ~mixed', onTab PROVE SavingFits(c)' /\ attending' = {c}
  <2>1. attending = {} /\ SheetFits
    BY <1>1, <1>4, <1>6 DEF AttendanceInv
  <2> QED
    BY <1>1, <1>3, <1>4, <2>1 DEF SavingFits, SheetFits, OfChoice, AsStored
<1>7. ~mixed' => attending' = {c}
  BY <1>1, <1>4
<1> QED
  BY <1>5, <1>6, <1>7 DEF AttendanceInv

\* The server keeps the invariant.
LEMMA AttendanceServed ==
    ASSUME AttendanceInv, NEW c \in attending, AT!ServeLoad(c) \/ AT!ServeSave(c) \/ AT!Lose(c) \/ AT!Refuse(c)
    PROVE  AttendanceInv'
<1>1. /\ AT!TypeOK /\ c \in Saving /\ attending \subseteq Saving /\ onTab \in BOOLEAN /\ mixed \in BOOLEAN
      /\ sheet \in Sheet \cup {None}
      /\ ~mixed => attending = {c}
      /\ ~mixed /\ onTab => SavingFits(c)
  BY DEF AttendanceInv, AttendanceTypes
<1>2. ASSUME NEW p \in {"ok", "error"}, NEW s \in Sheet \cup {None}, AT!Answered(c, p, s), AT!TypeOK',
             c.op = "load" /\ p = "ok" => s \in Sheet, NEW a, a = [c EXCEPT !.ph = p, !.ans = s], ~mixed /\ onTab => SavingFits(a)'
      PROVE  AttendanceInv'
  <2>1. /\ attending' = (attending \ {c}) \cup {a} /\ UNCHANGED <<chosenMinistry, onTab, month, sheet, mixed>>
    BY <1>2 DEF AT!Answered, AT!OtherCalls, AT!chosen
  <2>2. a \in Saving
    BY <1>1, <1>2 DEF Saving
  <2> QED
    BY <1>1, <1>2, <2>1, <2>2 DEF AttendanceInv, AttendanceTypes
<1>3. ASSUME NEW p \in {"ok", "error"}, NEW s, AT!Answered(c, p, s)
      PROVE  UNCHANGED <<chosenMinistry, onTab, month, sheet, mixed, sheetLoading, markSaving, weekdays, extraDates>> /\ c.ph = "sent"
  BY <1>3 DEF AT!Answered, AT!chosen, AT!drafts
<1>4. CASE AT!ServeLoad(c)
  <2>1. PICK s : s = [group |-> c.group, month |-> c.month, present |-> marks[c.group][c.month],
                      days |-> fixedDays[c.group], extra |-> extraDays[c.group]]
    OBVIOUS
  <2>2. AT!Answered(c, "ok", s) /\ UNCHANGED <<marks, fixedDays, extraDays, unheard>> /\ c.op = "load"
    BY <1>4, <2>1, Zenon DEF AT!ServeLoad, AT!server
  <2>3. s \in Sheet /\ s.group = c.group /\ s.month = c.month /\ s.present = marks[c.group][c.month]
    <3>1. c.group \in Groups /\ c.month \in Months
      BY <1>1 DEF Saving
    <3> QED
      BY <1>1, <2>1, <3>1 DEF Sheet, AT!TypeOK
  <2>4. PICK a : a = [c EXCEPT !.ph = "ok", !.ans = s]
    OBVIOUS
  <2>5. a.op = "load" /\ a.group = c.group /\ a.month = c.month /\ a.ph = "ok" /\ a.ans = s
    BY <1>1, <2>2, <2>4 DEF Saving
  <2>6. AT!TypeOK'
    BY <1>1, <1>3, <2>2 DEF AT!TypeOK
  <2>7. ~mixed /\ onTab => SavingFits(a)'
    BY <1>1, <1>3, <2>2, <2>3, <2>5 DEF SavingFits, OfChoice, AsStored
  <2> QED
    BY <1>2, <2>2, <2>3, <2>4, <2>6, <2>7
<1>5. CASE AT!ServeSave(c)
  <2>1. PICK a : a = [c EXCEPT !.ph = "ok", !.ans = None]
    OBVIOUS
  <2>2. /\ a.op = c.op /\ a.group = c.group /\ a.month = c.month /\ a.ph = "ok" /\ a.value = c.value /\ a.now = c.now
    BY <1>1, <2>1 DEF Saving
  <2>3. AT!Answered(c, "ok", None) /\ c.op \in {"weekday", "settings", "mark"} /\ unheard' = unheard
    BY <1>5, Zenon DEF AT!ServeSave, AT!Stores
  <2>4. c.group \in Groups /\ c.month \in Months /\ c.value.days \in BOOLEAN /\ c.value.extra \in BOOLEAN
    BY <1>1 DEF Saving, Values
  <2>5. CASE c.op = "mark"
    <3>1. marks' = [marks EXCEPT ![c.group][c.month] = c.value.days] /\ UNCHANGED <<fixedDays, extraDays>>
      BY <1>5, <2>5 DEF AT!ServeSave, AT!Stores
    <3>2. marks' \in [Groups -> [Months -> BOOLEAN]] /\ marks'[c.group][c.month] = c.value.days
      BY <1>1, <2>4, <3>1 DEF AT!TypeOK
    <3>3. AT!TypeOK'
      BY <1>1, <1>3, <2>3, <3>1, <3>2 DEF AT!TypeOK
    <3>4. ~mixed /\ onTab => SavingFits(a)'
      BY <1>1, <1>3, <2>2, <2>3, <2>5, <3>2 DEF SavingFits, OfChoice
    <3> QED
      BY <1>2, <2>1, <2>3, <2>5, <3>3, <3>4
  <2>6. CASE c.op \in {"weekday", "settings"}
    <3>1. /\ marks' = marks /\ fixedDays' = [fixedDays EXCEPT ![c.group] = c.value.days]
          /\ extraDays' = [extraDays EXCEPT ![c.group] = c.value.extra]
      BY <1>5, <2>6 DEF AT!ServeSave, AT!Stores
    <3>2. AT!TypeOK'
      BY <1>1, <1>3, <2>3, <2>4, <3>1 DEF AT!TypeOK
    <3>3. ~mixed /\ onTab => SavingFits(a)'
      BY <1>1, <1>3, <2>2, <2>3, <2>6, <3>1 DEF SavingFits, SheetFits, OfChoice, AsStored
    <3> QED
      BY <1>2, <2>1, <2>3, <2>6, <3>2, <3>3
  <2> QED
    BY <2>3, <2>5, <2>6
<1>6. CASE AT!Refuse(c)
  <2>1. PICK a : a = [c EXCEPT !.ph = "error", !.ans = None]
    OBVIOUS
  <2>2. /\ a.op = c.op /\ a.group = c.group /\ a.month = c.month /\ a.ph = "error" /\ a.now = c.now /\ a.ans = None
    BY <1>1, <2>1 DEF Saving
  <2>3. AT!Answered(c, "error", None) /\ UNCHANGED <<marks, fixedDays, extraDays, unheard>>
    BY <1>6, Zenon DEF AT!Refuse, AT!server
  <2>4. AT!TypeOK'
    BY <1>1, <1>3, <2>3 DEF AT!TypeOK
  <2>5. ~mixed /\ onTab => SavingFits(a)'
    BY <1>1, <1>3, <2>2, <2>3 DEF SavingFits, SheetFits, OfChoice, AsStored
  <2> QED
    BY <1>2, <2>1, <2>3, <2>4, <2>5
\* What is stored though its answer is lost: the sheet is not asked to show it.
<1>7. CASE AT!Lose(c)
  <2>1. PICK a : a = [c EXCEPT !.ph = "error", !.ans = None]
    OBVIOUS
  <2>2. /\ a.op = c.op /\ a.group = c.group /\ a.month = c.month /\ a.ph = "error" /\ a.now = c.now /\ a.ans = None
    BY <1>1, <2>1 DEF Saving
  <2>3. /\ AT!Answered(c, "error", None) /\ c.op \in {"weekday", "settings", "mark"}
        /\ unheard' = unheard \cup {c.op}
    BY <1>7, Zenon DEF AT!Lose, AT!Stores
  <2>4. c.group \in Groups /\ c.month \in Months /\ c.value.days \in BOOLEAN /\ c.value.extra \in BOOLEAN
    BY <1>1 DEF Saving, Values
  <2>5. CASE c.op = "mark"
    <3>1. marks' = [marks EXCEPT ![c.group][c.month] = c.value.days] /\ UNCHANGED <<fixedDays, extraDays>>
      BY <1>7, <2>5 DEF AT!Lose, AT!Stores
    <3>2. marks' \in [Groups -> [Months -> BOOLEAN]]
      BY <1>1, <2>4, <3>1 DEF AT!TypeOK
    <3>3. AT!TypeOK'
      BY <1>1, <1>3, <2>3, <3>1, <3>2 DEF AT!TypeOK
    <3>4. ~mixed /\ onTab => SavingFits(a)'
      BY <1>1, <1>3, <2>2, <2>3, <2>5 DEF SavingFits, SheetFits, OfChoice, AsStored
    <3> QED
      BY <1>2, <2>1, <2>3, <2>5, <3>3, <3>4
  <2>6. CASE c.op \in {"weekday", "settings"}
    <3>1. /\ marks' = marks /\ fixedDays' = [fixedDays EXCEPT ![c.group] = c.value.days]
          /\ extraDays' = [extraDays EXCEPT ![c.group] = c.value.extra]
      BY <1>7, <2>6 DEF AT!Lose, AT!Stores
    <3>2. AT!TypeOK'
      BY <1>1, <1>3, <2>3, <2>4, <3>1 DEF AT!TypeOK
    <3>3. ~mixed /\ onTab => SavingFits(a)'
      BY <1>1, <1>3, <2>2, <2>3, <2>6, <3>1 DEF SavingFits, SheetFits, OfChoice, AsStored
    <3> QED
      BY <1>2, <2>1, <2>3, <2>6, <3>2, <3>3
  <2> QED
    BY <2>3, <2>5, <2>6
<1> QED
  BY <1>4, <1>5, <1>6, <1>7

\* Answers keep the invariant.
LEMMA AttendanceAnswered ==
    ASSUME AttendanceInv, NEW c \in attending,
           AT!LoadDone(c) \/ AT!SettingsSaved(c) \/ AT!SettingsFail(c) \/ AT!MarkDone(c)
    PROVE  AttendanceInv'
<1>1. /\ AT!TypeOK /\ c \in Saving /\ attending \subseteq Saving /\ onTab \in BOOLEAN /\ mixed \in BOOLEAN
      /\ sheet \in Sheet \cup {None}
      /\ ~mixed => attending = {c}
      /\ ~mixed /\ onTab => SavingFits(c)
  BY DEF AttendanceInv, AttendanceTypes
\* The call ends, and what is shown is as the server has it.
<1>2. ASSUME attending' \subseteq Saving, ~mixed => attending' = {}, ~mixed /\ onTab => SheetFits',
             UNCHANGED <<marks, fixedDays, extraDays, chosenMinistry, onTab, month, mixed, unheard>>,
             sheet' \in Sheet \cup {None}, sheetLoading' \in BOOLEAN, markSaving' \in BOOLEAN, weekdays' \in BOOLEAN,
             extraDates' \in BOOLEAN
      PROVE  AttendanceInv'
  BY <1>1, <1>2 DEF AttendanceInv, AttendanceTypes, AT!TypeOK
<1>3. CASE AT!LoadDone(c)
  <2>1. PICK S : S = attending \ {c}
    OBVIOUS
  <2> DEFINE L(e) == [e EXCEPT !.now = FALSE]
  <2>2. \A e \in Saving : L(e) \in Saving
    BY DEF Saving
  <2>3. /\ c.op = "load" /\ c.ph \in {"ok", "error"} /\ attending' = {L(e) : e \in S} /\ sheetLoading' = FALSE
        /\ sheet' = c.ans /\ weekdays' = (IF c.ph = "ok" THEN c.ans.days ELSE weekdays) /\ extraDates' = AT!PutBack(c)
        /\ markSaving' = (markSaving /\ c.value.days = FALSE)
        /\ UNCHANGED <<marks, fixedDays, extraDays, chosenMinistry, onTab, month, mixed, unheard>>
    BY <1>3, <2>1 DEF AT!LoadDone, AT!OtherCalls, AT!server, AT!chosen
  <2> HIDE DEF L
  <2>4. attending' \subseteq Saving /\ (~mixed => attending' = {})
    BY <1>1, <2>1, <2>2, <2>3
  <2>5. c.ans \in Sheet \cup {None} /\ c.keeps \in Keeps
    BY <1>1 DEF Saving
  <2>6. c.ph = "ok" => c.ans \in Sheet
    BY <1>1, <2>3 DEF Saving
  <2>7. weekdays' \in BOOLEAN
    BY <1>1, <2>3, <2>5, <2>6 DEF AT!TypeOK, Sheet
  <2>8. extraDates' \in BOOLEAN
    <3>1. c.keeps # <<>> => c.keeps[1] \in BOOLEAN
      <4>1. <<TRUE>>[1] = TRUE /\ <<FALSE>>[1] = FALSE
        OBVIOUS
      <4>2. c.keeps # <<>> => c.keeps = <<TRUE>> \/ c.keeps = <<FALSE>>
        BY <2>5, Zenon DEF Keeps
      <4> QED
        BY <4>1, <4>2, Zenon
    <3>2. c.ph = "ok" => c.ans.extra \in BOOLEAN
      BY <2>6 DEF Sheet
    <3>3. extraDates \in BOOLEAN
      BY <1>1 DEF AT!TypeOK
    <3> QED
      BY <2>3, <3>1, <3>2, <3>3 DEF AT!PutBack
  <2>9. ~mixed /\ onTab => SheetFits'
    BY <1>1, <2>3 DEF SavingFits, SheetFits, OfChoice, AsStored
  <2>10. markSaving' \in BOOLEAN
    BY <2>3
  <2> QED
    BY <1>2, <2>3, <2>4, <2>5, <2>7, <2>8, <2>9, <2>10
<1>4. CASE AT!SettingsSaved(c)
  <2>1. /\ UNCHANGED <<marks, fixedDays, extraDays, chosenMinistry, onTab, month, sheet, weekdays, extraDates>>
        /\ c.op \in {"weekday", "settings"}
    BY <1>4 DEF AT!SettingsSaved, AT!server, AT!chosen, AT!drafts
  <2>2. CASE c.group = chosenMinistry
    <3>1. AT!Reloads(c) /\ markSaving' = markSaving
      BY <1>4, <2>2 DEF AT!SettingsSaved
    <3>2. PICK S : S = attending \ {c}
      OBVIOUS
    <3>3. PICK v : v = [days |-> TRUE, extra |-> FALSE]
      OBVIOUS
    <3>4. /\ attending' = S \cup {AT!Call("load", chosenMinistry', month', v, c.keeps)}
          /\ mixed' = (mixed \/ S # {}) /\ sheetLoading' = TRUE /\ unheard' \subseteq unheard
      BY <2>1, <3>1, <3>2, <3>3 DEF AT!Reloads, AT!OtherCalls
    <3>5. S \subseteq Saving /\ v \in Values /\ c.keeps \in Keeps
      BY <1>1, <3>2, <3>3 DEF Saving, Values
    <3> QED
      BY <1>1, <2>1, <3>1, <3>4, <3>5, AttendanceLoads DEF AT!TypeOK
  <2>3. CASE c.group # chosenMinistry
    <3>1. attending' = attending \ {c} /\ markSaving' = FALSE /\ UNCHANGED <<sheetLoading, mixed, unheard>>
      BY <1>4, <2>3 DEF AT!SettingsSaved, AT!OtherCalls
    <3>2. ~mixed /\ onTab => SheetFits'
      BY <1>1, <2>1, <3>1 DEF SavingFits, SheetFits, OfChoice, AsStored
    <3> QED
      BY <1>1, <1>2, <2>1, <3>1, <3>2 DEF AT!TypeOK
  <2> QED
    BY <2>2, <2>3
<1>5. CASE AT!SettingsFail(c)
  <2>1. /\ UNCHANGED <<marks, fixedDays, extraDays, chosenMinistry, onTab, month, sheet, sheetLoading, extraDates, mixed, unheard>>
        /\ attending' = attending \ {c} /\ markSaving' = FALSE /\ c.op \in {"weekday", "settings"}
        /\ weekdays' = IF c.op = "weekday" /\ c.group = chosenMinistry THEN c.previous ELSE weekdays
    BY <1>5 DEF AT!SettingsFail, AT!OtherCalls, AT!server, AT!chosen, AT!history, AT!Restored
  <2>2. c.previous \in BOOLEAN
    BY <1>1 DEF Saving
  <2>3. ~mixed /\ onTab => SheetFits'
    BY <1>1, <2>1 DEF SavingFits, SheetFits, OfChoice, AsStored
  <2> QED
    BY <1>1, <1>2, <2>1, <2>2, <2>3 DEF AT!TypeOK
<1>6. CASE AT!MarkDone(c)
  <2>1. /\ UNCHANGED <<marks, fixedDays, extraDays, chosenMinistry, onTab, month, sheetLoading, extraDates, weekdays, mixed,
                       unheard>>
        /\ attending' = attending \ {c} /\ markSaving' = FALSE /\ c.op = "mark" /\ c.ph \in {"ok", "error"}
        /\ sheet' = IF c.ph = "ok" /\ c.now /\ sheet # None THEN [sheet EXCEPT !.present = c.value.days] ELSE sheet
    BY <1>6 DEF AT!MarkDone, AT!OtherCalls, AT!server, AT!chosen, AT!history, AT!drafts
  <2>2. c.value.days \in BOOLEAN
    BY <1>1 DEF Saving, Values
  <2>3. CASE c.ph = "ok" /\ c.now /\ sheet # None
    <3>1. sheet \in Sheet /\ sheet' = [sheet EXCEPT !.present = c.value.days]
      BY <1>1, <2>1, <2>3
    <3>2. sheet' \in Sheet /\ sheet'.group = sheet.group /\ sheet'.month = sheet.month /\ sheet'.present = c.value.days
      BY <2>2, <3>1 DEF Sheet
    <3>3. ~mixed /\ onTab => SheetFits'
      BY <1>1, <2>1, <2>3, <3>2 DEF SavingFits, SheetFits, OfChoice, AsStored
    <3> QED
      BY <1>1, <1>2, <2>1, <3>2, <3>3 DEF AT!TypeOK
  <2>4. CASE ~(c.ph = "ok" /\ c.now /\ sheet # None)
    <3>1. sheet' = sheet
      BY <2>1, <2>4
    <3>2. ~mixed /\ onTab => SheetFits'
      BY <1>1, <2>1, <2>4, <3>1 DEF SavingFits, SheetFits, OfChoice, AsStored
    <3> QED
      BY <1>1, <1>2, <2>1, <3>1, <3>2 DEF AT!TypeOK
  <2> QED
    BY <2>3, <2>4
<1> QED
  BY <1>3, <1>4, <1>5, <1>6

\* Every step keeps the invariant.
LEMMA AttendanceStep == ASSUME AttendanceInv, [AT!Next]_(AT!vars) PROVE AttendanceInv'
<1>1. /\ AT!TypeOK /\ attending \subseteq Saving /\ onTab \in BOOLEAN /\ mixed \in BOOLEAN
      /\ sheet \in Sheet \cup {None} /\ weekdays \in BOOLEAN /\ extraDates \in BOOLEAN
  BY DEF AttendanceInv, AttendanceTypes, AT!TypeOK
<1>2. CASE UNCHANGED AT!vars
  BY <1>2 DEF AT!vars, AT!server, AT!chosen, AT!drafts, AT!history, AttendanceInv, AttendanceTypes, AT!TypeOK, SavingFits,
              SheetFits, OfChoice, AsStored
<1>3. ASSUME NEW v, v = [days |-> FALSE, extra |-> FALSE] PROVE v \in Values /\ <<>> \in Keeps
  BY <1>3 DEF Values, Keeps
<1>4. ASSUME NEW g \in Groups, NEW on \in BOOLEAN, AT!Switch(g, on) PROVE AttendanceInv'
  <2>1. /\ UNCHANGED <<marks, fixedDays, extraDays, month, sheet, markSaving, weekdays, extraDates>>
        /\ chosenMinistry' = g /\ onTab' = on
    BY <1>4 DEF AT!Switch, AT!server, AT!drafts
  <2>2. CASE on
    <3>1. AT!Load(g, month, <<>>, attending)
      BY <1>4, <2>2 DEF AT!Switch
    <3>2. PICK v : v = [days |-> FALSE, extra |-> FALSE]
      OBVIOUS
    <3>3. /\ attending' = attending \cup {AT!Call("load", chosenMinistry', month', v, <<>>)}
          /\ sheetLoading' = TRUE /\ mixed' = (attending # {}) /\ unheard' \subseteq unheard
      BY <2>1, <3>1, <3>2 DEF AT!Load
    <3>4. v \in Values /\ <<>> \in Keeps
      BY <1>3, <3>2
    <3> QED
      BY <1>1, <1>4, <2>1, <3>3, <3>4, AttendanceLoads DEF AT!TypeOK
  <2>3. CASE ~on
    <3>1. UNCHANGED <<sheetLoading, attending, mixed, unheard>>
      BY <1>4, <2>3 DEF AT!Switch
    <3> QED
      BY <1>1, <1>4, <2>1, <2>3, <3>1 DEF AttendanceInv, AttendanceTypes, AT!TypeOK
  <2> QED
    BY <2>2, <2>3
<1>5. ASSUME NEW m \in Months, AT!ShiftMonth(m) PROVE AttendanceInv'
  <2>1. /\ UNCHANGED <<marks, fixedDays, extraDays, chosenMinistry, onTab, sheet, markSaving, weekdays, extraDates>>
        /\ month' = m /\ AT!Load(chosenMinistry, m, <<>>, attending)
    BY <1>5 DEF AT!ShiftMonth, AT!server, AT!drafts
  <2>2. PICK v : v = [days |-> FALSE, extra |-> FALSE]
    OBVIOUS
  <2>3. /\ attending' = attending \cup {AT!Call("load", chosenMinistry', month', v, <<>>)}
        /\ sheetLoading' = TRUE /\ mixed' = (attending # {}) /\ unheard' \subseteq unheard
    BY <2>1, <2>2 DEF AT!Load
  <2>4. v \in Values /\ <<>> \in Keeps
    BY <1>3, <2>2
  <2> QED
    BY <1>1, <1>5, <2>1, <2>3, <2>4, AttendanceLoads DEF AT!TypeOK
<1>6. CASE AT!EditExtraDate
  <2>1. /\ UNCHANGED <<marks, fixedDays, extraDays, chosenMinistry, onTab, month, sheet, sheetLoading, markSaving, weekdays,
                       attending, mixed, unheard>>
        /\ extraDates' \in BOOLEAN
    BY <1>1, <1>6 DEF AT!EditExtraDate, AT!server, AT!chosen
  <2> QED
    BY <2>1 DEF AttendanceInv, AttendanceTypes, AT!TypeOK, SavingFits, SheetFits, OfChoice, AsStored
<1>7. CASE AT!toggleWeekday
  <2>1. PICK v : v = [days |-> ~weekdays, extra |-> sheet.extra]
    OBVIOUS
  <2>2. sheet \in Sheet
    BY <1>1, <1>7 DEF AT!toggleWeekday, AT!Shown
  <2>3. v \in Values /\ <<extraDates>> \in Keeps
    BY <1>1, <2>1, <2>2 DEF Values, Keeps, Sheet
  <2>4. /\ AT!Saves("weekday", v, <<extraDates>>) /\ AT!Shown /\ weekdays' \in BOOLEAN
        /\ UNCHANGED <<marks, fixedDays, extraDays, chosenMinistry, onTab, month, sheet, sheetLoading, extraDates>>
    BY <1>1, <1>7, <2>1 DEF AT!toggleWeekday, AT!server, AT!chosen
  <2> QED
    BY <2>3, <2>4, AttendanceSaves
<1>8. CASE AT!saveSettings
  <2>1. PICK v : v = [days |-> weekdays, extra |-> extraDates]
    OBVIOUS
  <2>2. v \in Values /\ <<>> \in Keeps
    BY <1>1, <2>1 DEF Values, Keeps
  <2>3. /\ AT!Saves("settings", v, <<>>) /\ AT!Shown /\ weekdays' \in BOOLEAN
        /\ UNCHANGED <<marks, fixedDays, extraDays, chosenMinistry, onTab, month, sheet, sheetLoading, extraDates>>
    BY <1>1, <1>8, <2>1 DEF AT!saveSettings, AT!server, AT!chosen, AT!drafts
  <2> QED
    BY <2>2, <2>3, AttendanceSaves
<1>9. CASE AT!toggleAttendance
  <2>1. PICK v : v = [days |-> ~sheet.present, extra |-> FALSE]
    OBVIOUS
  <2>2. v \in Values /\ <<>> \in Keeps
    BY <1>1, <2>1 DEF Values, Keeps
  <2>3. /\ AT!Saves("mark", v, <<>>) /\ AT!Shown /\ weekdays' \in BOOLEAN
        /\ UNCHANGED <<marks, fixedDays, extraDays, chosenMinistry, onTab, month, sheet, sheetLoading, extraDates>>
    BY <1>1, <1>9, <2>1 DEF AT!toggleAttendance, AT!server, AT!chosen, AT!drafts
  <2> QED
    BY <2>2, <2>3, AttendanceSaves
<1> QED
  BY <1>2, <1>4, <1>5, <1>6, <1>7, <1>8, <1>9, AttendanceServed, AttendanceAnswered, Zenon DEF AT!Next

-----------------------------------------------------------------------------
(* The homes.                                                               *)

\* A choice or a change that leaves the managed home closes the form of its administrator.
LEMMA FormStart == ASSUME TE!Init PROVE TE!FormOfHome
BY DEF TE!Init, TE!FormOfHome

\* Every step keeps the name in the form the one of the home that is managed.
LEMMA FormStep == ASSUME TE!FormOfHome, [TE!Next]_(TE!vars) PROVE TE!FormOfHome'
<1>1. CASE UNCHANGED TE!vars
  BY <1>1 DEF TE!vars, TE!FormOfHome
<1>2. ASSUME NEW t, TE!Select(t) \/ TE!updateTenant(t) PROVE TE!FormOfHome'
  BY <1>2 DEF TE!Select, TE!updateTenant, TE!Closed, TE!FormOfHome
<1>3. CASE TE!createTenant \/ TE!createGroup \/ TE!createAdmin \/ TE!AskDelete \/ TE!updateAdmin
  BY <1>3 DEF TE!createTenant, TE!createGroup, TE!createAdmin, TE!AskDelete, TE!updateAdmin, TE!FormOfHome
<1>4. CASE TE!editAdmin
  BY <1>4 DEF TE!editAdmin, TE!FormOfHome
<1>5. ASSUME NEW g, NEW t, TE!AskMove(g, t) PROVE TE!FormOfHome'
  BY <1>5 DEF TE!AskMove, TE!FormOfHome
<1>6. ASSUME NEW yes, TE!Confirm(yes) PROVE TE!FormOfHome'
  <2>1. UNCHANGED <<s5, s10>>
    BY <1>6, Zenon DEF TE!Confirm
  <2> QED
    BY <2>1 DEF TE!FormOfHome
<1>7. ASSUME NEW c, TE!ServeLoad(c) \/ TE!ServeCreate(c) \/ TE!ServeGroup(c) \/ TE!ServeChange(c) \/ TE!Refuse(c)
      PROVE  TE!FormOfHome'
  <2>1. \A p, a : TE!Answered(c, p, a) => UNCHANGED <<s5, s10>>
    BY DEF TE!Answered
  <2>3. \A a : TE!Stored(c, a) => UNCHANGED <<s5, s10>>
    BY <2>1, Zenon DEF TE!Stored
  <2>2. UNCHANGED <<s5, s10>>
    BY <1>7, <2>1, <2>3, Zenon DEF TE!ServeLoad, TE!ServeCreate, TE!ServeGroup, TE!ServeChange, TE!Refuse
  <2> QED
    BY <2>2 DEF TE!FormOfHome
<1>8. ASSUME NEW c, TE!LoadDone(c) \/ TE!ChangeFails(c) PROVE TE!FormOfHome'
  <2>1. UNCHANGED <<s5, s10>>
    BY <1>8, Zenon DEF TE!LoadDone, TE!ChangeFails
  <2> QED
    BY <2>1 DEF TE!FormOfHome
<1>9. ASSUME NEW c, TE!ChangeDone(c) PROVE TE!FormOfHome'
  <2>1. s10' = IF c.op = "adminEdit" THEN None ELSE IF s5' = s5 THEN s10 ELSE None
    <3>1. s10' = IF c.op = "adminEdit" THEN None ELSE TE!Closed(s5')
      BY <1>9, Zenon DEF TE!ChangeDone
    <3> QED
      BY <3>1 DEF TE!Closed
  <2> QED
    BY <2>1 DEF TE!FormOfHome
<1> QED
  BY <1>1, <1>2, <1>3, <1>4, <1>5, <1>6, <1>7, <1>8, <1>9, Zenon DEF TE!Next

-----------------------------------------------------------------------------
(* The ministry page.  A load that still counts is for the study group that *)
(* is open, and so is the detail that counts: the server finds a ministry   *)
(* in its own study group only.                                             *)

studyGroup == s1
versions   == s2
tabOpen    == s3
warming    == s4
directory  == s5
selected   == s6
detail     == s7
details    == s8
dirLoading == s9
mutating   == s11
errands    == s12
USE DEF studyGroup, versions, tabOpen, warming, directory, selected, detail, details, dirLoading, mutating, errands

Errand == [op : {"load", "select", "join", "change", "request", "share", "leave"}, m : Ministries \cup {None},
           stage : {"api", "lists", "detail"}, at : Groups, ph : {"sent", "ok", "error", "conflict", "asked"}, ans : Nat,
           newest : BOOLEAN, latest : BOOLEAN, held : BOOLEAN, quiet : BOOLEAN]

ErrandFits(c) ==
    /\ c.stage \in {"api", "detail"} => c.m \in Ministries
    /\ c.stage = "lists" /\ c.newest => c.at = studyGroup
    /\ c.stage = "detail" /\ c.latest => c.at = studyGroup
    /\ c.stage = "detail" /\ c.ph = "ok" => HomeOf[c.m] = c.at
    /\ c.ph = "asked" => c.stage = "api"

PageTypes ==
    /\ studyGroup \in Groups /\ versions \in [Ministries -> Nat] /\ details \in [Ministries -> Nat]
    /\ directory \in Groups \cup {None} /\ selected \in Ministries \cup {None}
    /\ tabOpen \in BOOLEAN /\ warming \in BOOLEAN /\ dirLoading \in BOOLEAN /\ mutating \in BOOLEAN
    /\ detail \in [m : Ministries, version : Nat] \cup {MP!NoDetail}

MinistryInv ==
    /\ PageTypes /\ MP!PageOfStudyGroup
    /\ errands \subseteq Errand /\ \A c \in errands : ErrandFits(c)

\* d is the call e, or e with fewer marks.
Weaker(d, e) ==
    /\ d \in Errand /\ d.m = e.m /\ d.stage = e.stage /\ d.at = e.at /\ d.ph = e.ph
    /\ (d.newest => e.newest) /\ (d.latest => e.latest)
AllWeaker(T, S) == \A d \in T : \E e \in S : Weaker(d, e)

\* Requests that are outdated or superseded promise less.
LEMMA OutdatedWeaker ==
    ASSUME NEW S, S \subseteq Errand
    PROVE  AllWeaker(MP!Outdated(S), S) /\ \A d \in MP!Outdated(S) : ~d.newest
<1> DEFINE L(e) == [e EXCEPT !.newest = FALSE]
<1>1. \A e \in S : Weaker(L(e), e) /\ ~L(e).newest
  BY DEF Weaker, Errand
<1>2. MP!Outdated(S) = {L(e) : e \in S}
  BY DEF MP!Outdated
<1> HIDE DEF L
<1> QED
  BY <1>1, <1>2 DEF AllWeaker

LEMMA SupersededWeaker ==
    ASSUME NEW S, S \subseteq Errand
    PROVE  AllWeaker(MP!Superseded(S), S) /\ \A d \in MP!Superseded(S) : ~d.latest
<1> DEFINE L(e) == [e EXCEPT !.latest = FALSE]
<1>1. \A e \in S : Weaker(L(e), e) /\ ~L(e).latest
  BY DEF Weaker, Errand
<1>2. MP!Superseded(S) = {L(e) : e \in S}
  BY DEF MP!Superseded
<1> HIDE DEF L
<1> QED
  BY <1>1, <1>2 DEF AllWeaker

\* The next stage of a call is for the study group that is open.
LEMMA NextStep ==
    ASSUME studyGroup \in Groups, NEW c \in Errand, NEW s \in {"api", "lists", "detail"}
    PROVE  LET d == MP!Stage(c, s) IN
           d \in Errand /\ d.stage = s /\ d.at = studyGroup /\ d.ph = "sent" /\ d.m = c.m
BY DEF MP!Stage, Errand

\* A call that begins is of the study group that is open.
LEMMA NewErrand ==
    ASSUME studyGroup \in Groups, NEW op \in {"load", "select", "join", "change", "request", "share", "leave"},
           NEW m \in Ministries \cup {None}
    PROVE  LET d == MP!Call(op, m) IN
           d \in Errand /\ d.stage = "api" /\ d.at = studyGroup /\ d.ph = "sent" /\ d.m = m /\ ~d.newest /\ ~d.latest
BY DEF MP!Call, Errand

\* A call goes on from before the step, or fits what is shown after it.
Proceeds(d) == (\E e \in errands : Weaker(d, e)) \/ (d \in Errand /\ ErrandFits(d)')

\* The invariant after a step, from the errands that go on and the page as it is then.
LEMMA MinistryShows ==
    ASSUME MinistryInv, studyGroup' = studyGroup, \A d \in errands' : Proceeds(d), PageTypes', MP!PageOfStudyGroup'
    PROVE  MinistryInv'
<1>1. errands' \subseteq Errand
  BY DEF Proceeds, Weaker
<1>2. \A c \in errands : ErrandFits(c)
  BY DEF MinistryInv
<1>3. \A d \in errands' : ErrandFits(d)'
  BY <1>2 DEF Proceeds, Weaker, ErrandFits
<1> QED
  BY <1>1, <1>3 DEF MinistryInv

\* What goes on already goes on.
LEMMA ErrandsStay ==
    ASSUME MinistryInv PROVE \A d \in errands : Proceeds(d)
BY DEF MinistryInv, Proceeds, Weaker

\* Asking for the list supersedes the former ones.
LEMMA MinistryListsAsked ==
    ASSUME MinistryInv, studyGroup' = studyGroup, NEW S \in SUBSET errands, NEW c \in Errand, errands' = MP!Loads(S, c)
    PROVE  \A d \in errands' : Proceeds(d)
<1>1. studyGroup \in Groups /\ S \subseteq Errand
  BY DEF MinistryInv, PageTypes
<1>2. PICK b : b = MP!Stage(c, "lists")
  OBVIOUS
<1>3. b \in Errand /\ b.stage = "lists" /\ b.at = studyGroup /\ b.ph = "sent"
  BY <1>1, <1>2, NextStep
<1>4. PICK d : d = [b EXCEPT !.newest = TRUE]
  OBVIOUS
<1>5. d \in Errand /\ d.stage = "lists" /\ d.at = studyGroup /\ d.ph = "sent"
  BY <1>3, <1>4 DEF Errand
<1>6. errands' = MP!Outdated(S) \cup {d}
  BY <1>2, <1>4 DEF MP!Loads
<1>7. ErrandFits(d)'
  BY <1>5 DEF ErrandFits
<1>8. \A h \in MP!Outdated(S) : Proceeds(h)
  BY <1>1, OutdatedWeaker DEF AllWeaker, Proceeds
<1> QED
  BY <1>5, <1>6, <1>7, <1>8 DEF Proceeds

DetailFits(d) ==
    d \in [m : Ministries, version : Nat] \cup {MP!NoDetail} /\ (d # MP!NoDetail => HomeOf[d.m] = studyGroup)

\* What is shown from the cache is of the study group, and the detail is asked for.
LEMMA DetailAsked ==
    ASSUME MinistryInv, studyGroup' = studyGroup, NEW S \in SUBSET errands, NEW c \in Errand, NEW m \in Ministries,
           NEW p \in BOOLEAN, MP!Select(c, m, S, p)
    PROVE  selected' = m /\ DetailFits(detail') /\ \A d \in errands' : Proceeds(d)
<1>1. /\ studyGroup \in Groups /\ S \subseteq Errand /\ details \in [Ministries -> Nat]
      /\ DetailFits(detail) /\ (details[m] # 0 => HomeOf[m] = studyGroup)
  BY DEF MinistryInv, PageTypes, DetailFits, MP!PageOfStudyGroup
<1>2. PICK b : b = MP!Stage(c, "detail")
  OBVIOUS
<1>3. b \in Errand /\ b.stage = "detail" /\ b.at = studyGroup /\ b.ph = "sent"
  BY <1>1, <1>2, NextStep
<1>4. PICK d : d = [b EXCEPT !.m = m, !.latest = TRUE]
  OBVIOUS
<1>5. d \in Errand /\ d.stage = "detail" /\ d.at = studyGroup /\ d.ph = "sent" /\ d.m = m
  BY <1>3, <1>4 DEF Errand
<1>6. /\ selected' = m /\ errands' = MP!Superseded(S) \cup {d}
      /\ detail' = detail \/ (details[m] # 0 /\ detail' = [m |-> m, version |-> details[m]])
  BY <1>2, <1>4 DEF MP!Select, MP!Asks
<1>7. ErrandFits(d)'
  BY <1>5 DEF ErrandFits
<1>8. \A h \in MP!Superseded(S) : Proceeds(h)
  BY <1>1, SupersededWeaker DEF AllWeaker, Proceeds
<1>9. DetailFits(detail')
  BY <1>1, <1>6 DEF DetailFits
<1> QED
  BY <1>5, <1>6, <1>7, <1>8, <1>9 DEF Proceeds

\* What the page does when the list came: a ministry is chosen, its detail asked for or shown.
LEMMA WorkspaceEnsured ==
    ASSUME MinistryInv, None \notin Ministries, studyGroup' = studyGroup, NEW q \in BOOLEAN, MP!Ensures(errands, q)
    PROVE  /\ selected' \in Ministries \cup {None} /\ DetailFits(detail') /\ dirLoading' \in BOOLEAN
           /\ \A d \in errands' : Proceeds(d)
<1>1. /\ studyGroup \in Groups /\ selected \in Ministries \cup {None} /\ dirLoading \in BOOLEAN /\ DetailFits(detail)
  BY DEF MinistryInv, PageTypes, DetailFits, MP!PageOfStudyGroup
<1>2. PICK b : b = MP!Call("load", selected)
  OBVIOUS
<1>3. b \in Errand
  BY <1>1, <1>2, NewErrand
<1>4. PICK c : c = [b EXCEPT !.held = TRUE, !.quiet = q]
  OBVIOUS
<1>5. c \in Errand
  BY <1>3, <1>4 DEF Errand
<1>6. PICK e : e = [c EXCEPT !.op = "select", !.held = FALSE]
  OBVIOUS
<1>7. e \in Errand
  BY <1>5, <1>6 DEF Errand
<1>8. \/ /\ dirLoading' = dirLoading /\ (\/ errands' = errands /\ selected' = selected /\ detail' = detail
                                         \/ \E m \in IF selected = None THEN MP!In(studyGroup) ELSE {selected} :
                                               MP!Select(e, m, errands, TRUE))
      \/ errands' = errands /\ UNCHANGED <<selected, detail, dirLoading>>
      \/ errands' = MP!Loads(errands, c) /\ dirLoading' = MP!Spinner(c) /\ UNCHANGED <<selected, detail>>
  BY <1>2, <1>4, <1>6 DEF MP!Ensures
<1>9. CASE errands' = errands /\ selected' = selected /\ detail' = detail /\ dirLoading' = dirLoading
  BY <1>1, <1>9, ErrandsStay
<1>10. ASSUME NEW m \in IF selected = None THEN MP!In(studyGroup) ELSE {selected}, MP!Select(e, m, errands, TRUE),
              dirLoading' = dirLoading
       PROVE  /\ selected' \in Ministries \cup {None} /\ DetailFits(detail') /\ dirLoading' \in BOOLEAN
              /\ \A d \in errands' : Proceeds(d)
  <2>1. m \in Ministries
    BY <1>1, <1>10 DEF MP!In
  <2> QED
    BY <1>1, <1>7, <1>10, <2>1, DetailAsked
<1>11. CASE errands' = MP!Loads(errands, c) /\ dirLoading' = MP!Spinner(c) /\ UNCHANGED <<selected, detail>>
  <2>1. MP!Spinner(c) \in BOOLEAN
    BY DEF MP!Spinner
  <2> QED
    BY <1>1, <1>5, <1>11, <2>1, MinistryListsAsked
<1> QED
  BY <1>8, <1>9, <1>10, <1>11

\* The invariant holds at the start.
LEMMA MinistryStart == ASSUME Groups # {}, MP!Init PROVE MinistryInv
BY DEF MP!Init, MP!NoDetail, MinistryInv, PageTypes, MP!PageOfStudyGroup

\* A detail fits, and stays.
LEMMA DetailStays == ASSUME MinistryInv PROVE DetailFits(detail)
BY DEF MinistryInv, PageTypes, DetailFits, MP!PageOfStudyGroup

\* What keeps the list and the cache keeps the invariant when what it shows and asks fits.
LEMMA MinistryKept ==
    ASSUME MinistryInv, studyGroup' = studyGroup, directory' = directory, details' = details,
           versions' \in [Ministries -> Nat], selected' \in Ministries \cup {None}, DetailFits(detail'),
           tabOpen' \in BOOLEAN, warming' \in BOOLEAN, dirLoading' \in BOOLEAN, mutating' \in BOOLEAN,
           \A d \in errands' : Proceeds(d)
    PROVE  MinistryInv'
<1>1. PageTypes'
  BY DEF MinistryInv, PageTypes, DetailFits, MP!NoDetail
<1>2. MP!PageOfStudyGroup'
  BY DEF MinistryInv, DetailFits, MP!PageOfStudyGroup, MP!NoDetail
<1> QED
  BY <1>1, <1>2, MinistryShows

\* A call keeps its type with an answer put in.
LEMMA AsCalled ==
    ASSUME studyGroup \in Groups, NEW m \in Ministries,
           NEW op \in {"load", "select", "join", "change", "request", "share", "leave"}
    PROVE  /\ MP!Call(op, m) = [MP!Call(op, m) EXCEPT !.ans = 0]
           /\ [MP!Call(op, m) EXCEPT !.ph = "asked"] = [MP!Call(op, m) EXCEPT !.ans = 0, !.ph = "asked"]
<1>1. PICK b : b = MP!Call(op, m)
  OBVIOUS
<1>2. b \in Errand
  BY <1>1, NewErrand
<1>3. b.ans = 0 /\ b.ph = "sent"
  BY <1>1 DEF MP!Call
<1>4. b = [b EXCEPT !.ans = 0]
  BY <1>2, <1>3 DEF Errand
<1>6. [b EXCEPT !.ph = "asked"] = [b EXCEPT !.ans = 0, !.ph = "asked"]
  BY <1>2, <1>3 DEF Errand
<1> QED
  BY <1>1, <1>4, <1>6

\* A new errand proceeds.
LEMMA NewErrandFits ==
    ASSUME MinistryInv, studyGroup' = studyGroup, NEW m \in Ministries, NEW a \in Nat, NEW p \in {"sent", "asked"},
           NEW op \in {"load", "select", "join", "change", "request", "share", "leave"},
           NEW d, d = [MP!Call(op, m) EXCEPT !.ans = a, !.ph = p]
    PROVE  Proceeds(d)
<1>1. PICK b : b = MP!Call(op, m)
  OBVIOUS
<1>2. studyGroup \in Groups
  BY DEF MinistryInv, PageTypes
<1>3. b \in Errand /\ b.stage = "api" /\ b.m = m
  BY <1>1, <1>2, NewErrand
<1>4. d \in Errand /\ d.stage = "api" /\ d.m = m
  BY <1>1, <1>3 DEF Errand
<1> QED
  BY <1>4 DEF Proceeds, ErrandFits

\* An open workspace shows a ministry and the version it has.
LEMMA ShownMinistry == ASSUME MinistryInv, MP!Workspace PROVE detail.m \in Ministries /\ detail.version \in Nat
BY DEF MinistryInv, PageTypes, MP!Workspace

MemberActs ==
    \/ MP!OpenTab \/ MP!CloseTab \/ MP!Change \/ MP!decideRequest \/ MP!decideShare \/ MP!leaveGroup \/ MP!Ask("change")
    \/ \E m \in Ministries : MP!SelectGroup(m) \/ MP!requestJoin(m)
    \/ \E c \in errands : MP!Confirm(c) \/ MP!Decline(c)

\* A change that is sent keeps the invariant.
LEMMA MutationSent ==
    ASSUME MinistryInv, NEW m \in Ministries, NEW a \in Nat,
           NEW op \in {"load", "select", "join", "change", "request", "share", "leave"},
           errands' = errands \cup {[MP!Call(op, m) EXCEPT !.ans = a]},
           versions' = versions, mutating' = TRUE,
           UNCHANGED <<studyGroup, tabOpen, warming, directory, selected, detail, details, dirLoading>>
    PROVE  MinistryInv'
<1>1. PICK d : d = [MP!Call(op, m) EXCEPT !.ans = a]
  OBVIOUS
<1>0. studyGroup \in Groups
  BY DEF MinistryInv, PageTypes
<1>2. PICK b : b = MP!Call(op, m)
  OBVIOUS
<1>7. b \in Errand /\ b.ph = "sent"
  BY <1>0, <1>2, NewErrand
<1>8. [b EXCEPT !.ans = a] = [b EXCEPT !.ans = a, !.ph = "sent"]
  BY <1>7 DEF Errand
<1>9. d = [MP!Call(op, m) EXCEPT !.ans = a, !.ph = "sent"]
  BY <1>1, <1>2, <1>8
<1>3. Proceeds(d)
  BY <1>9, NewErrandFits
<1>4. \A e \in errands' : Proceeds(e)
  BY <1>1, <1>3, ErrandsStay
<1>5. DetailFits(detail')
  BY DetailStays
<1>6. /\ versions' \in [Ministries -> Nat] /\ selected' \in Ministries \cup {None}
      /\ tabOpen' \in BOOLEAN /\ warming' \in BOOLEAN /\ dirLoading' \in BOOLEAN /\ mutating' \in BOOLEAN
  BY DEF MinistryInv, PageTypes
<1> QED
  BY <1>4, <1>5, <1>6, MinistryKept

\* Whatever the member does keeps the invariant.
LEMMA MemberStep == ASSUME MinistryInv, None \notin Ministries, MemberActs PROVE MinistryInv'
<1> DEFINE Switches == /\ tabOpen' \in BOOLEAN /\ warming' \in BOOLEAN /\ mutating' \in BOOLEAN
                       /\ versions' \in [Ministries -> Nat]
<1>1. PageTypes /\ DetailFits(detail) /\ \A e \in errands : Proceeds(e)
  BY DetailStays, ErrandsStay DEF MinistryInv
<1>2. CASE MP!OpenTab
  <2>1. /\ MP!Ensures(errands, FALSE)
        /\ UNCHANGED <<studyGroup, directory, details>> /\ Switches
    BY <1>1, <1>2 DEF MP!OpenTab, PageTypes
  <2>2. /\ selected' \in Ministries \cup {None} /\ DetailFits(detail') /\ dirLoading' \in BOOLEAN
        /\ \A d \in errands' : Proceeds(d)
    BY <2>1, WorkspaceEnsured
  <2> QED
    BY <2>1, <2>2, MinistryKept
<1>3. CASE MP!CloseTab
  <2>1. /\ UNCHANGED <<studyGroup, directory, details, selected, detail, errands>> /\ Switches /\ dirLoading' \in BOOLEAN
        /\ selected' \in Ministries \cup {None}
    BY <1>1, <1>3 DEF MP!CloseTab, MP!Act, PageTypes, MP!shown, MP!busy
  <2> QED
    BY <1>1, <2>1, MinistryKept
<1>4. CASE MP!Change
  <2>1. detail.m \in Ministries
    BY <1>4, ShownMinistry DEF MP!Change
  <2>2. /\ errands' = errands \cup {MP!Call("change", detail.m)} /\ versions' = versions /\ mutating' = TRUE
        /\ UNCHANGED <<studyGroup, tabOpen, warming, directory, selected, detail, details, dirLoading>>
    BY <1>4 DEF MP!Change, MP!Mutates, MP!Act, MP!shown
  <2>3. MP!Call("change", detail.m) = [MP!Call("change", detail.m) EXCEPT !.ans = 0]
    BY <1>1, <2>1, AsCalled DEF PageTypes
  <2> QED
    BY <2>1, <2>2, <2>3, MutationSent
<1>5. ASSUME NEW op \in {"request", "share"}, MP!Decides(op) PROVE MinistryInv'
  <2>1. detail.m \in Ministries /\ detail.version \in Nat
    BY <1>5, ShownMinistry DEF MP!Decides
  <2>2. /\ errands' = errands \cup {[MP!Call(op, detail.m) EXCEPT !.ans = detail.version]}
        /\ versions' = versions /\ mutating' = TRUE
        /\ UNCHANGED <<studyGroup, tabOpen, warming, directory, selected, detail, details, dirLoading>>
    BY <1>5 DEF MP!Decides, MP!Act, MP!shown
  <2> QED
    BY <2>1, <2>2, MutationSent
<1>6. ASSUME NEW op \in {"leave", "change"}, MP!Ask(op) PROVE MinistryInv'
  <2>1. detail.m \in Ministries
    BY <1>6, ShownMinistry DEF MP!Ask
  <2>2. PICK d : d = [MP!Call(op, detail.m) EXCEPT !.ph = "asked"]
    OBVIOUS
  <2>3. /\ errands' = {c \in errands : c.ph # "asked"} \cup {d}
        /\ UNCHANGED <<studyGroup, directory, details, selected, detail>> /\ Switches /\ dirLoading' \in BOOLEAN
        /\ selected' \in Ministries \cup {None}
    BY <1>1, <1>6, <2>2 DEF MP!Ask, MP!Act, PageTypes, MP!shown, MP!busy
  <2>4. d = [MP!Call(op, detail.m) EXCEPT !.ans = 0, !.ph = "asked"]
    BY <1>1, <2>1, <2>2, AsCalled DEF PageTypes
  <2>5. Proceeds(d)
    BY <2>1, <2>3, <2>4, NewErrandFits
  <2> QED
    BY <1>1, <2>3, <2>5, MinistryKept
<1>7. ASSUME NEW m \in Ministries, MP!SelectGroup(m) PROVE MinistryInv'
  <2>1. MP!Select(MP!Call("select", m), m, errands, FALSE)
    BY <1>7 DEF MP!SelectGroup
  <2>2. /\ UNCHANGED <<studyGroup, directory, details, dirLoading>> /\ Switches /\ dirLoading' \in BOOLEAN
    BY <1>1, <1>7 DEF MP!SelectGroup, MP!Act, PageTypes
  <2>3. MP!Call("select", m) \in Errand
    BY <1>1, NewErrand DEF PageTypes
  <2>4. selected' = m /\ DetailFits(detail') /\ \A d \in errands' : Proceeds(d)
    BY <2>1, <2>2, <2>3, DetailAsked
  <2> QED
    BY <2>2, <2>4, MinistryKept
<1>8. ASSUME NEW m \in Ministries, MP!requestJoin(m) PROVE MinistryInv'
  <2>2. /\ errands' = errands \cup {MP!Call("join", m)} /\ versions' = versions /\ mutating' = TRUE
        /\ UNCHANGED <<studyGroup, tabOpen, warming, directory, selected, detail, details, dirLoading>>
    BY <1>8 DEF MP!requestJoin, MP!Mutates, MP!Act, MP!shown
  <2>3. MP!Call("join", m) = [MP!Call("join", m) EXCEPT !.ans = 0]
    BY <1>1, AsCalled DEF PageTypes
  <2> QED
    BY <2>2, <2>3, MutationSent
<1>9. ASSUME NEW c \in errands, MP!Confirm(c) PROVE MinistryInv'
  <2>1. c \in Errand /\ c.ph = "asked" /\ ErrandFits(c)
    BY <1>9 DEF MP!Confirm, MinistryInv
  <2>2. PICK d : d = MP!Stage(c, "api")
    OBVIOUS
  <2>3. d \in Errand /\ d.stage = "api" /\ d.ph = "sent" /\ d.m = c.m
    BY <1>1, <2>1, <2>2, NextStep DEF PageTypes
  <2>4. errands' \subseteq errands \cup {d}
    BY <1>9, <2>2 DEF MP!Confirm, MP!OtherCalls
  <2>5. Proceeds(d)
    BY <2>1, <2>3 DEF ErrandFits, Proceeds
  <2>6. /\ UNCHANGED <<studyGroup, directory, details, selected, detail>> /\ Switches /\ dirLoading' \in BOOLEAN
        /\ selected' \in Ministries \cup {None}
    BY <1>1, <1>9 DEF MP!Confirm, PageTypes, MP!shown
  <2> QED
    BY <1>1, <2>4, <2>5, <2>6, MinistryKept
<1>10. ASSUME NEW c \in errands, MP!Decline(c) PROVE MinistryInv'
  <2>1. /\ UNCHANGED <<studyGroup, directory, details, selected, detail>> /\ Switches /\ dirLoading' \in BOOLEAN
        /\ selected' \in Ministries \cup {None} /\ errands' \subseteq errands
    BY <1>1, <1>10 DEF MP!Decline, PageTypes, MP!shown, MP!busy, MP!OtherCalls
  <2> QED
    BY <1>1, <2>1, MinistryKept
<1> QED
  BY <1>2, <1>3, <1>4, <1>5, <1>6, <1>7, <1>8, <1>9, <1>10 DEF MemberActs, MP!decideRequest, MP!decideShare, MP!leaveGroup

\* A call the server answered, or that was lost, goes on as it was.
LEMMA AnswerKept ==
    ASSUME MinistryInv, NEW c \in errands, NEW ph \in {"ok", "error", "conflict"}, NEW a \in Nat,
           MP!Answered(c, ph, a), c.stage = "detail" /\ ph = "ok" => HomeOf[c.m] = c.at,
           versions' \in [Ministries -> Nat]
    PROVE  MinistryInv'
<1>1. PageTypes /\ DetailFits(detail) /\ \A e \in errands : Proceeds(e)
  BY DetailStays, ErrandsStay DEF MinistryInv
<1>2. c \in Errand /\ ErrandFits(c)
  BY DEF MinistryInv
<1>3. PICK d : d = [c EXCEPT !.ph = ph, !.ans = a]
  OBVIOUS
<1>4. /\ d \in Errand /\ d.m = c.m /\ d.stage = c.stage /\ d.at = c.at /\ d.ph = ph
      /\ d.newest = c.newest /\ d.latest = c.latest
  BY <1>2, <1>3 DEF Errand
<1>5. /\ errands' \subseteq errands \cup {d}
      /\ UNCHANGED <<studyGroup, tabOpen, warming, directory, selected, detail, details, dirLoading, mutating>>
  BY <1>3 DEF MP!Answered, MP!OtherCalls, MP!Client, MP!shown, MP!busy
<1>6. Proceeds(d)
  BY <1>2, <1>4, <1>5 DEF ErrandFits, Proceeds
<1>7. /\ tabOpen' \in BOOLEAN /\ warming' \in BOOLEAN /\ mutating' \in BOOLEAN /\ dirLoading' \in BOOLEAN
      /\ selected' \in Ministries \cup {None}
  BY <1>1, <1>5 DEF PageTypes
<1> QED
  BY <1>1, <1>5, <1>6, <1>7, MinistryKept

\* The server, other members and the preloaded cache keep the invariant.
LEMMA ServedStep ==
    ASSUME MinistryInv, NEW c \in errands, MP!Serve(c) \/ MP!Lost(c)
    PROVE  MinistryInv'
<1>1. versions \in [Ministries -> Nat] /\ ErrandFits(c)
  BY DEF MinistryInv, PageTypes
<1>2. CASE MP!ServeLists(c)
  BY <1>1, <1>2, AnswerKept DEF MP!ServeLists
<1>3. CASE MP!ServeDetail(c)
  <2>1. c.stage = "detail" /\ c.m \in Ministries /\ versions' = versions
    BY <1>1, <1>3 DEF MP!ServeDetail, ErrandFits
  <2>2. CASE HomeOf[c.m] = c.at
    BY <1>1, <1>3, <2>1, <2>2, AnswerKept DEF MP!ServeDetail
  <2>3. CASE HomeOf[c.m] # c.at
    BY <1>1, <1>3, <2>1, <2>3, AnswerKept DEF MP!ServeDetail
  <2> QED
    BY <2>2, <2>3
<1>4. CASE MP!ServeChange(c)
  <2>1. c.stage = "api" /\ c.m \in Ministries
    BY <1>1, <1>4 DEF MP!ServeChange, ErrandFits
  <2>2. CASE versions' = versions /\ (MP!Answered(c, "error", 0) \/ MP!Answered(c, "conflict", 0))
    BY <1>1, <2>1, <2>2, AnswerKept
  <2>3. CASE versions' = [versions EXCEPT ![c.m] = @ + 1] /\ MP!Answered(c, "ok", versions'[c.m])
    <3>1. versions' \in [Ministries -> Nat] /\ versions'[c.m] \in Nat
      BY <1>1, <2>1, <2>3
    <3> QED
      BY <2>1, <2>3, <3>1, AnswerKept
  <2> QED
    BY <1>4, <2>2, <2>3 DEF MP!ServeChange
<1>5. CASE MP!Lost(c)
  BY <1>1, <1>5, AnswerKept DEF MP!Lost
<1> QED
  BY <1>2, <1>3, <1>4, <1>5 DEF MP!Serve

LEMMA MinistryOthersStep == ASSUME MinistryInv, NEW m \in Ministries, MP!OtherChanges(m) PROVE MinistryInv'
<1>1. PageTypes /\ DetailFits(detail) /\ \A e \in errands : Proceeds(e)
  BY DetailStays, ErrandsStay DEF MinistryInv
<1>2. /\ UNCHANGED <<studyGroup, tabOpen, warming, directory, selected, detail, details, dirLoading, mutating, errands>>
      /\ versions' = [versions EXCEPT ![m] = @ + 1]
  BY DEF MP!OtherChanges, MP!Client, MP!shown, MP!busy
<1>3. /\ tabOpen' \in BOOLEAN /\ warming' \in BOOLEAN /\ mutating' \in BOOLEAN /\ dirLoading' \in BOOLEAN
      /\ selected' \in Ministries \cup {None} /\ versions' \in [Ministries -> Nat]
  BY <1>1, <1>2 DEF PageTypes
<1> QED
  BY <1>1, <1>2, <1>3, MinistryKept

LEMMA WarmStep == ASSUME MinistryInv, None \notin Ministries, MP!Warm PROVE MinistryInv'
<1>1. PageTypes
  BY DEF MinistryInv
<1>2. /\ MP!Ensures(errands, TRUE) /\ UNCHANGED <<studyGroup, directory, details>>
      /\ tabOpen' \in BOOLEAN /\ warming' \in BOOLEAN /\ mutating' \in BOOLEAN /\ versions' \in [Ministries -> Nat]
  BY <1>1 DEF MP!Warm, PageTypes
<1>3. /\ selected' \in Ministries \cup {None} /\ DetailFits(detail') /\ dirLoading' \in BOOLEAN
      /\ \A d \in errands' : Proceeds(d)
  BY <1>2, WorkspaceEnsured
<1> QED
  BY <1>2, <1>3, MinistryKept

\* Answers keep the invariant.
LEMMA AnswersStep == ASSUME MinistryInv, NEW c \in errands, MP!Answers(c) PROVE MinistryInv'
<1> DEFINE Switches == /\ tabOpen' \in BOOLEAN /\ warming' \in BOOLEAN /\ mutating' \in BOOLEAN
                       /\ dirLoading' \in BOOLEAN /\ versions' \in [Ministries -> Nat]
           Others == MP!OtherCalls(c)
<1>1. PageTypes /\ DetailFits(detail) /\ \A e \in errands : Proceeds(e)
  BY DetailStays, ErrandsStay DEF MinistryInv
<1>2. c \in Errand /\ ErrandFits(c) /\ Others \in SUBSET errands
  BY DEF MinistryInv, MP!OtherCalls
<1>3. CASE MP!ListsDone(c)
  <2>1. c.at = studyGroup /\ directory' = studyGroup
    BY <1>2, <1>3 DEF MP!ListsDone, ErrandFits
  <2>2. UNCHANGED <<studyGroup, details>> /\ Switches
    BY <1>1, <1>3 DEF MP!ListsDone, MP!Page, MP!Ends, PageTypes
  <2>3. CASE MP!Ends(c) /\ UNCHANGED <<selected, detail, s10>>
    <3>1. errands' \subseteq errands /\ selected' = selected /\ detail' = detail
      BY <2>3 DEF MP!Ends, MP!OtherCalls
    <3>2. PageTypes' /\ MP!PageOfStudyGroup'
      BY <2>1, <2>2, <3>1 DEF MinistryInv, PageTypes, MP!PageOfStudyGroup, MP!NoDetail
    <3> QED
      BY <1>1, <2>2, <3>1, <3>2, MinistryShows
  <2>4. ASSUME NEW m \in IF c.m \in MP!In(c.at) THEN {c.m} ELSE MP!In(c.at), MP!Select(c, m, Others, TRUE)
        PROVE  MinistryInv'
    <3>1. m \in Ministries
      BY <2>4 DEF MP!In
    <3>2. selected' = m /\ DetailFits(detail') /\ \A d \in errands' : Proceeds(d)
      BY <1>2, <2>2, <2>4, <3>1, DetailAsked
    <3>3. PageTypes' /\ MP!PageOfStudyGroup'
      BY <2>1, <2>2, <3>1, <3>2 DEF MinistryInv, PageTypes, MP!PageOfStudyGroup, MP!NoDetail, DetailFits
    <3> QED
      BY <2>2, <3>2, <3>3, MinistryShows
  <2> QED
    BY <1>3, <2>3, <2>4 DEF MP!ListsDone
<1>4. CASE MP!ListsFail(c) \/ MP!Refused(c)
  <2>1. /\ UNCHANGED <<studyGroup, directory, details, selected, detail>> /\ Switches /\ errands' \subseteq errands
        /\ selected' \in Ministries \cup {None}
    BY <1>1, <1>4 DEF MP!ListsFail, MP!Refused, MP!Ends, MP!OtherCalls, MP!Page, MP!shown, PageTypes
  <2> QED
    BY <1>1, <2>1, MinistryKept
<1>5. CASE MP!DetailDone(c)
  <2>1. /\ UNCHANGED <<studyGroup, directory, selected>> /\ Switches /\ errands' \subseteq errands
        /\ c.stage = "detail" /\ c.m \in Ministries
    BY <1>1, <1>2, <1>5 DEF MP!DetailDone, MP!Ends, MP!OtherCalls, MP!Page, PageTypes, ErrandFits
  <2>2. CASE UNCHANGED <<detail, details>>
    BY <1>1, <2>1, <2>2, MinistryKept DEF PageTypes
  <2>3. CASE /\ c.ph = "ok" /\ c.latest /\ detail' = [m |-> c.m, version |-> c.ans]
             /\ details' = [details EXCEPT ![c.m] = c.ans]
    <3>1. HomeOf[c.m] = studyGroup /\ c.ans \in Nat
      BY <1>2, <2>1, <2>3 DEF ErrandFits, Errand
    <3>2. PageTypes' /\ MP!PageOfStudyGroup'
      BY <2>1, <2>3, <3>1 DEF MinistryInv, PageTypes, MP!PageOfStudyGroup, MP!NoDetail
    <3> QED
      BY <1>1, <2>1, <3>2, MinistryShows
  <2> QED
    BY <1>5, <2>2, <2>3 DEF MP!DetailDone
<1>6. CASE MP!Changed(c)
  <2>1. /\ c.m \in Ministries /\ MP!Select(c, c.m, Others, FALSE) /\ UNCHANGED <<studyGroup, directory, details>>
        /\ Switches
    BY <1>1, <1>2, <1>6 DEF MP!Changed, MP!Acknowledged, MP!Page, PageTypes, ErrandFits
  <2>2. selected' = c.m /\ DetailFits(detail') /\ \A d \in errands' : Proceeds(d)
    BY <1>2, <2>1, DetailAsked
  <2> QED
    BY <2>1, <2>2, MinistryKept
<1>7. CASE MP!Reloads(c) \/ MP!Conflicts(c)
  <2>1. PICK d \in {c, [c EXCEPT !.m = None]} : errands' = MP!Loads(Others, d)
    BY <1>7 DEF MP!Reloads, MP!Conflicts
  <2>2. d \in Errand
    BY <1>2, <2>1 DEF Errand
  <2>3. /\ UNCHANGED <<studyGroup, directory, details>> /\ Switches
        /\ selected' \in Ministries \cup {None} /\ (detail' = detail \/ detail' = MP!NoDetail)
    BY <1>1, <1>7 DEF MP!Reloads, MP!Conflicts, MP!Page, MP!shown, MP!Spinner, PageTypes
  <2>4. DetailFits(detail')
    BY <1>1, <2>3 DEF DetailFits
  <2>5. \A e \in errands' : Proceeds(e)
    BY <1>2, <2>1, <2>2, <2>3, MinistryListsAsked
  <2> QED
    BY <2>3, <2>4, <2>5, MinistryKept
<1> QED
  BY <1>3, <1>4, <1>5, <1>6, <1>7 DEF MP!Answers

\* The page of the group that was left is thrown away, and so is what its calls would show.
LEMMA SwitchStep == ASSUME MinistryInv, NEW g \in Groups, MP!Switch(g) PROVE MinistryInv'
<1>1. PageTypes /\ errands \subseteq Errand /\ \A e \in errands : ErrandFits(e)
  BY DEF MinistryInv
<1> DEFINE L(e) == [e EXCEPT !.held = FALSE, !.ph = IF @ = "sent" THEN "error" ELSE @]
<1>2. PICK old : old = MP!Outdated(MP!Superseded(errands))
  OBVIOUS
<1>3. PICK some : some = MP!Superseded(errands)
  OBVIOUS
<1>4. /\ some \subseteq Errand /\ \A d \in some : ~d.latest /\ \E e \in errands : Weaker(d, e)
  BY <1>1, <1>3, SupersededWeaker DEF AllWeaker, Weaker
<1>5. \A d \in old : ~d.newest /\ \E e \in some : Weaker(d, e)
  BY <1>2, <1>3, <1>4, OutdatedWeaker DEF AllWeaker
<1>6. \A d \in old : d \in Errand /\ ~d.newest /\ ~d.latest /\ ErrandFits(d)'
  <2> SUFFICES ASSUME NEW d \in old PROVE d \in Errand /\ ~d.newest /\ ~d.latest /\ ErrandFits(d)'
    OBVIOUS
  <2>1. PICK e \in some : Weaker(d, e)
    BY <1>5
  <2>2. PICK f \in errands : Weaker(e, f)
    BY <1>4
  <2>3. d \in Errand /\ ~d.newest /\ ~d.latest
    BY <1>4, <1>5, <2>1 DEF Weaker
  <2>4. ErrandFits(f) /\ d.m = f.m /\ d.stage = f.stage /\ d.at = f.at /\ d.ph = f.ph
    BY <1>1, <2>1, <2>2 DEF Weaker
  <2> QED
    BY <2>3, <2>4 DEF ErrandFits
<1>7. \A e \in old : /\ L(e) \in Errand /\ ~L(e).newest /\ ~L(e).latest /\ L(e).m = e.m /\ L(e).stage = e.stage
                     /\ L(e).at = e.at /\ L(e).ph \in {e.ph, "error"}
  BY <1>6 DEF Errand
<1>8. MP!Left(errands) = {L(e) : e \in old}
  BY <1>2 DEF MP!Left
<1> HIDE DEF L
<1>9. \A d \in MP!Left(errands) : d \in Errand /\ ErrandFits(d)' /\ ~d.newest
  BY <1>6, <1>7, <1>8 DEF ErrandFits
<1>10. PICK rest : rest = MP!Left(errands)
  OBVIOUS
<1>11. PICK b : b = MP!Call("load", None)
  OBVIOUS
<1>12. b \in Errand /\ b.ph = "sent"
  BY <1>1, <1>11, NewErrand DEF PageTypes
<1>13. PICK c : c = [b EXCEPT !.held = TRUE, !.at = g, !.stage = "lists", !.newest = TRUE]
  OBVIOUS
<1>14. c \in Errand /\ c.at = g /\ c.stage = "lists" /\ c.ph = "sent"
  BY <1>12, <1>13 DEF Errand
<1>15. /\ studyGroup' = g /\ directory' = None /\ selected' = None /\ detail' = MP!NoDetail
       /\ details' = [m \in Ministries |-> 0] /\ warming' = TRUE /\ dirLoading' \in BOOLEAN
       /\ UNCHANGED <<tabOpen, mutating, versions>>
       /\ errands' = rest \/ errands' = MP!Outdated(rest) \cup {c}
  BY <1>10, <1>11, <1>13, Zenon DEF MP!Switch, MP!LeaveGroup, MP!Act
<1>16. PageTypes' /\ MP!PageOfStudyGroup'
  BY <1>1, <1>15 DEF PageTypes, MP!PageOfStudyGroup, MP!NoDetail
<1>17. ErrandFits(c)'
  BY <1>14, <1>15 DEF ErrandFits
<1>18. \A d \in MP!Outdated(rest) : d \in Errand /\ ErrandFits(d)'
  <2>1. rest \subseteq Errand
    BY <1>9, <1>10
  <2> SUFFICES ASSUME NEW d \in MP!Outdated(rest) PROVE d \in Errand /\ ErrandFits(d)'
    OBVIOUS
  <2>2. PICK e \in rest : Weaker(d, e)
    BY <2>1, OutdatedWeaker DEF AllWeaker
  <2> QED
    BY <1>9, <1>10, <2>2 DEF Weaker, ErrandFits
<1> QED
  BY <1>9, <1>10, <1>14, <1>15, <1>16, <1>17, <1>18 DEF MinistryInv

\* Every step keeps the invariant.
LEMMA MinistryStep ==
    ASSUME MinistryInv, None \notin Ministries, [MP!Next]_(MP!vars)
    PROVE  MinistryInv'
<1>1. CASE UNCHANGED MP!vars
  BY <1>1 DEF MP!vars, MP!shown, MP!busy, MP!ghost, MP!bounds, MinistryInv, PageTypes, MP!PageOfStudyGroup, ErrandFits
<1>2. CASE MP!Next
  <2>1. \/ MemberActs \/ MP!Warm \/ \E c \in errands : MP!Serve(c) \/ MP!Answers(c) \/ MP!Lost(c)
        \/ (\E m \in Ministries : MP!OtherChanges(m)) \/ \E g \in Groups : MP!Switch(g)
    BY <1>2, Zenon DEF MP!Next, MP!Local, MP!Member, MemberActs
  <2> QED
    BY <2>1, MemberStep, WarmStep, ServedStep, AnswersStep, MinistryOthersStep, SwitchStep
<1> QED
  BY <1>1, <1>2

-----------------------------------------------------------------------------
(* The pages of a PDF.  The load begun last is the one that counts, and     *)
(* while an earlier document is still being destroyed no page is shown.  So *)
(* a page that comes is of the document that is open, and what is drawn is  *)
(* drawn by the one drawing that counts, at the scale that is shown.        *)

document == s1
viewed   == s2
wrong    == s4
pdf      == s5
zoom     == s6
sheets   == s7
loads    == s8
drawings == s9
openPdfs == s10
lastTask == s11
begun    == s14
USE DEF document, viewed, wrong, pdf, zoom, sheets, loads, drawings, openPdfs, lastTask, begun

Load    == [id : Nat, src : Readings \cup {None}, cur : BOOLEAN, ph : {"destroy", "load", "tick"}]
Drawing == [of : Readings, id : Nat, cur : BOOLEAN, ph : {"tick", "page", "draw"}, page : 1..2, scale : {1, 2}]

AllLoads(s) == {s[k] : k \in 1..Len(s)}
Ordered(s)  == \A j, k \in 1..Len(s) : j < k => s[j].id < s[k].id

PdfTypes ==
    /\ document \in Readings /\ pdf \in Readings \cup {None}
    /\ zoom \in {1, 2} /\ sheets \in {<<>>} \cup [1..2 -> {None} \cup Readings \X {1, 2}]
    /\ begun \in Nat /\ lastTask \in Nat /\ lastTask <= begun
    /\ loads \in Seq(Load) /\ drawings \subseteq Drawing
    /\ wrong => s12 \/ s13

PdfLoadsFit ==
    /\ Ordered(loads)
    /\ \A c \in AllLoads(loads) :
          /\ c.id <= begun /\ (c.cur => c.id = begun /\ viewed)
          /\ c.ph = "destroy" => sheets = <<>> /\ (viewed => \E d \in AllLoads(loads) : d.cur /\ d.ph = "destroy")
          /\ c.cur /\ c.ph = "load" => sheets = <<>> /\ lastTask = c.id /\ c.src = document /\ c.id \in openPdfs
          /\ c.cur /\ c.ph = "tick" => sheets # <<>> /\ lastTask = c.id /\ pdf = document
    /\ sheets # <<>> => /\ viewed /\ pdf # None /\ lastTask \in openPdfs
                        /\ \A c \in AllLoads(loads) : c.id = lastTask => c.cur /\ c.ph = "tick"

DrawingsFit ==
    /\ \A r, q \in drawings : r.cur /\ q.cur => r = q
    /\ \A r \in drawings :
          /\ r.id <= begun
          /\ r.ph = "draw" => r.cur /\ sheets # <<>> /\ r.of = pdf /\ r.scale = zoom
          /\ r.ph = "page" => \A c \in AllLoads(loads) : c.ph = "destroy" => c.id # r.id
          /\ r.ph = "page" /\ r.id \in openPdfs => sheets # <<>> /\ r.of = pdf /\ r.id = lastTask

\* With no load to wait for, the pages are drawn or the drawing that counts goes on.
DrawingGoesOn ==
    viewed /\ ~wrong /\ (\A c \in AllLoads(loads) : ~c.cur) =>
        /\ sheets # <<>> /\ pdf = document
        /\ \/ \A p \in 1..2 : sheets[p] = <<pdf, zoom>>
           \/ \E r \in drawings : /\ r.cur /\ (r.ph = "page" => r.id = lastTask)
                                  /\ \A p \in 1..2 : p < r.page => sheets[p] = <<pdf, zoom>>

PdfInv == PdfTypes /\ PdfLoadsFit /\ DrawingsFit /\ PD!NoPageOfOthers /\ DrawingGoesOn

\* Loads differ by their number.
LEMMA SameLoad ==
    ASSUME NEW s \in Seq(Load), Ordered(s), NEW a \in AllLoads(s), NEW b \in AllLoads(s), a.id = b.id
    PROVE  a = b
<1>1. PICK j \in 1..Len(s), k \in 1..Len(s) : a = s[j] /\ b = s[k]
  BY DEF AllLoads
<1>2. s[j] \in Load /\ s[k] \in Load
  OBVIOUS
<1>3. ~(j < k) /\ ~(k < j)
  BY <1>1, <1>2 DEF Ordered, Load
<1>4. j = k
  BY <1>3
<1> QED
  BY <1>1, <1>4

\* The loads without the k-th are in their order.
LEMMA LoadEnds ==
    ASSUME NEW s \in Seq(Load), Ordered(s), NEW k \in 1..Len(s)
    PROVE  \E t \in Seq(Load) : /\ t = SubSeq(s, 1, k - 1) \o SubSeq(s, k + 1, Len(s))
                                /\ Ordered(t) /\ AllLoads(t) = AllLoads(s) \ {s[k]}
<1> DEFINE F(i) == IF i < k THEN i ELSE i + 1
<1>1. PICK t : t = SubSeq(s, 1, k - 1) \o SubSeq(s, k + 1, Len(s))
  OBVIOUS
<1>2. PICK u : u = SubSeq(s, 1, k - 1)
  OBVIOUS
<1>3. PICK v : v = SubSeq(s, k + 1, Len(s))
  OBVIOUS
<1>12. /\ u \in Seq(Load) /\ Len(u) = k - 1 /\ \A i \in 1..k - 1 : u[i] = s[i]
       /\ v \in Seq(Load) /\ Len(v) = Len(s) - k /\ \A i \in 1..Len(s) - k : v[i] = s[k + i]
  BY <1>2, <1>3
<1>13. t = u \o v
  BY <1>1, <1>2, <1>3
<1>14. t \in Seq(Load) /\ Len(t) = Len(u) + Len(v)
  BY <1>12, <1>13, Concatenation
<1>4. t \in Seq(Load) /\ Len(t) = Len(s) - 1
  BY <1>12, <1>14
<1>15. \A i \in 1..Len(t) : t[i] = IF i <= Len(u) THEN u[i] ELSE v[i - Len(u)]
  BY <1>12, <1>13, <1>14
<1>5. \A i \in 1..Len(t) : t[i] = s[F(i)]
  BY <1>4, <1>12, <1>15
<1>6. \A i \in 1..Len(t) : F(i) \in 1..Len(s) /\ F(i) # k
  BY <1>4
<1>7. \A i, j \in 1..Len(t) : i < j => F(i) < F(j)
  BY <1>4
<1>8. \A j \in 1..Len(s) : j # k => \E i \in 1..Len(t) : F(i) = j
  <2> SUFFICES ASSUME NEW j \in 1..Len(s), j # k PROVE \E i \in 1..Len(t) : F(i) = j
    OBVIOUS
  <2>1. CASE j < k
    <3>1. j \in 1..Len(t) /\ F(j) = j
      BY <1>4, <2>1
    <3> QED
      BY <3>1
  <2>2. CASE j > k
    <3>1. j - 1 \in 1..Len(t) /\ F(j - 1) = j
      BY <1>4, <2>2
    <3> QED
      BY <3>1
  <2> QED
    BY <2>1, <2>2
<1>9. \A j \in 1..Len(s) : j # k => s[j] # s[k]
  <2> SUFFICES ASSUME NEW j \in 1..Len(s), j # k PROVE s[j].id # s[k].id
    OBVIOUS
  <2>1. s[j] \in Load /\ s[k] \in Load /\ (j < k \/ k < j)
    OBVIOUS
  <2> QED
    BY <2>1 DEF Ordered, Load
<1> HIDE DEF F
<1>10. Ordered(t)
  BY <1>5, <1>6, <1>7 DEF Ordered
<1>11. \A i \in 1..Len(t) : t[i] \in AllLoads(s) \ {s[k]}
  BY <1>5, <1>6, <1>9 DEF AllLoads
<1>16. \A j \in 1..Len(s) : j # k => s[j] \in AllLoads(t)
  BY <1>5, <1>8 DEF AllLoads
<1>17. AllLoads(t) = AllLoads(s) \ {s[k]}
  BY <1>11, <1>16 DEF AllLoads
<1> QED
  BY <1>1, <1>4, <1>10, <1>17

\* A load that goes on keeps its place.
LEMMA LoadGoesOn ==
    ASSUME NEW s \in Seq(Load), Ordered(s), NEW k \in 1..Len(s), NEW d \in Load, d.id = s[k].id
    PROVE  /\ [s EXCEPT ![k] = d] \in Seq(Load) /\ Ordered([s EXCEPT ![k] = d])
           /\ AllLoads([s EXCEPT ![k] = d]) = (AllLoads(s) \ {s[k]}) \cup {d}
<1>6. PICK t : t = [s EXCEPT ![k] = d]
  OBVIOUS
<1>1. t \in Seq(Load) /\ Len(t) = Len(s) /\ \A j \in 1..Len(s) : t[j] = IF j = k THEN d ELSE s[j]
  BY <1>6
<1>2. \A j \in 1..Len(s) : t[j].id = s[j].id
  BY <1>1
<1>3. Ordered(t)
  BY <1>1, <1>2 DEF Ordered
<1>4. \A j \in 1..Len(s) : j # k => s[j] # s[k]
  <2> SUFFICES ASSUME NEW j \in 1..Len(s), j # k PROVE s[j].id # s[k].id
    OBVIOUS
  <2>1. s[j] \in Load /\ s[k] \in Load /\ (j < k \/ k < j)
    OBVIOUS
  <2> QED
    BY <2>1 DEF Ordered, Load
<1>5. AllLoads(t) = (AllLoads(s) \ {s[k]}) \cup {d}
  BY <1>1, <1>4 DEF AllLoads
<1> QED
  BY <1>1, <1>3, <1>5, <1>6

\* Loads that count no longer keep their place.
LEMMA LoadsLeft ==
    ASSUME NEW s \in Seq(Load), Ordered(s), NEW t, t = [k \in DOMAIN s |-> [s[k] EXCEPT !.cur = FALSE]]
    PROVE  /\ t \in Seq(Load) /\ Ordered(t) /\ Len(t) = Len(s)
           /\ \A k \in 1..Len(s) : t[k].id = s[k].id /\ t[k].ph = s[k].ph /\ ~t[k].cur
<1> DEFINE D(k) == [s[k] EXCEPT !.cur = FALSE]
<1>1. PICK u : u = [k \in DOMAIN s |-> D(k)]
  OBVIOUS
<1>2. \A k \in 1..Len(s) : s[k] \in Load
  OBVIOUS
<1>3. \A k \in 1..Len(s) : D(k) \in Load /\ D(k).id = s[k].id /\ D(k).ph = s[k].ph /\ ~D(k).cur
  BY <1>2 DEF Load
<1>4. t = u
  BY <1>1
<1> HIDE DEF D
<1>5. u \in Seq(Load) /\ Len(u) = Len(s) /\ \A k \in 1..Len(s) : u[k] = D(k)
  BY <1>1, <1>3
<1>6. \A k \in 1..Len(s) : u[k].id = s[k].id /\ u[k].ph = s[k].ph /\ ~u[k].cur
  BY <1>3, <1>5
<1>7. Ordered(u)
  BY <1>5, <1>6 DEF Ordered
<1> QED
  BY <1>4, <1>5, <1>6, <1>7

\* The newest load is the last, and the only one that counts.
LEMMA LoadBegins ==
    ASSUME NEW s \in Seq(Load), Ordered(s), begun \in Nat, \A c \in AllLoads(s) : c.id <= begun, NEW t, t = PD!Begun(s)
    PROVE  /\ t \in Seq(Load) /\ Ordered(t)
           /\ \E e \in AllLoads(t) :
                 /\ e.id = begun + 1 /\ e.cur /\ e.ph = "destroy"
                 /\ \A c \in AllLoads(t) : c = e \/ (~c.cur /\ \E d \in AllLoads(s) : c.id = d.id /\ c.ph = d.ph)
<1>1. PICK e : e = [id |-> begun + 1, src |-> None, cur |-> TRUE, ph |-> "destroy"]
  OBVIOUS
<1>2. PICK u : u = [k \in DOMAIN s |-> [s[k] EXCEPT !.cur = FALSE]]
  OBVIOUS
<1>3. u \in Seq(Load) /\ Len(u) = Len(s) /\ \A k \in 1..Len(s) : u[k].id = s[k].id /\ u[k].ph = s[k].ph /\ ~u[k].cur
  BY <1>2, LoadsLeft
<1>4. e \in Load /\ e.id = begun + 1 /\ e.cur /\ e.ph = "destroy"
  BY <1>1 DEF Load
<1>5. t = Append(u, e)
  BY <1>1, <1>2 DEF PD!Begun
<1>6. t \in Seq(Load) /\ Len(t) = Len(s) + 1 /\ t[Len(s) + 1] = e /\ \A k \in 1..Len(s) : t[k] = u[k]
  BY <1>3, <1>4, <1>5
<1>7. \A k \in 1..Len(s) : s[k] \in Load
  OBVIOUS
<1>8. \A k \in 1..Len(s) : s[k].id \in Nat /\ s[k].id < begun + 1
  BY <1>7 DEF AllLoads, Load
<1>9. Ordered(t)
  BY <1>3, <1>4, <1>6, <1>8 DEF Ordered
<1>10. \A k \in 1..Len(t) : t[k] = e \/ \E j \in 1..Len(s) : ~t[k].cur /\ t[k].id = s[j].id /\ t[k].ph = s[j].ph
  BY <1>3, <1>6
<1>11. e \in AllLoads(t)
  BY <1>6 DEF AllLoads
<1>12. \A c \in AllLoads(t) : c = e \/ (~c.cur /\ \E d \in AllLoads(s) : c.id = d.id /\ c.ph = d.ph)
  <2> SUFFICES ASSUME NEW c \in AllLoads(t), c # e PROVE ~c.cur /\ \E d \in AllLoads(s) : c.id = d.id /\ c.ph = d.ph
    OBVIOUS
  <2>1. PICK k \in 1..Len(t) : c = t[k]
    BY DEF AllLoads
  <2>2. PICK j \in 1..Len(s) : ~c.cur /\ c.id = s[j].id /\ c.ph = s[j].ph
    BY <1>10, <2>1
  <2>3. s[j] \in AllLoads(s)
    BY DEF AllLoads
  <2> QED
    BY <2>2, <2>3
<1> QED
  BY <1>4, <1>6, <1>9, <1>11, <1>12

\* Two pages are never no canvas.
LEMMA PagesAreSheets == \A f \in [1..2 -> {None} \cup Readings \X {1, 2}] : f # <<>>
<1> SUFFICES ASSUME NEW f \in [1..2 -> {None} \cup Readings \X {1, 2}], f = <<>> PROVE FALSE
  OBVIOUS
<1>1. DOMAIN f = 1..2 /\ Len(f) = 0
  OBVIOUS
<1> QED
  BY <1>1

\* The load that counts is the one begun last, and once it goes on none waits before it.
LEMMA OneCounts ==
    ASSUME PdfInv, NEW c \in AllLoads(loads), c.cur
    PROVE  /\ \A d \in AllLoads(loads) : d.cur => d = c
           /\ c.ph # "destroy" => \A d \in AllLoads(loads) : d.ph # "destroy"
<1>1. /\ loads \in Seq(Load) /\ Ordered(loads)
      /\ \A d \in AllLoads(loads) : (d.cur => d.id = begun /\ viewed) /\ (d.ph = "destroy" /\ viewed => \E e \in AllLoads(loads) : e.cur /\ e.ph = "destroy")
  BY DEF PdfInv, PdfTypes, PdfLoadsFit
<1>2. \A d \in AllLoads(loads) : d.cur => d = c
  BY <1>1, SameLoad
<1> QED
  BY <1>1, <1>2

\* The invariant holds at the start.
LEMMA PdfStart == ASSUME None \notin Readings, PD!Init PROVE PdfInv
<1>1. PICK e : e = [id |-> 1, src |-> None, cur |-> TRUE, ph |-> "destroy"]
  OBVIOUS
<1>2. e \in Load /\ e.id = 1 /\ e.ph = "destroy" /\ loads = <<e>>
  BY <1>1 DEF PD!Init, Load
<1>3. loads \in Seq(Load) /\ AllLoads(loads) = {e} /\ Ordered(loads)
  BY <1>2 DEF AllLoads, Ordered
<1>4. PdfTypes
  <2>1. sheets \in {<<>>} \cup [1..2 -> {None} \cup Readings \X {1, 2}]
    BY DEF PD!Init
  <2>2. wrong => s12 \/ s13
    BY DEF PD!Init
  <2>3. /\ document \in Readings /\ pdf \in Readings \cup {None}
        /\ zoom \in {1, 2} /\ begun \in Nat /\ lastTask \in Nat /\ lastTask <= begun /\ drawings \subseteq Drawing
    BY DEF PD!Init
  <2> QED
    BY <1>3, <2>1, <2>2, <2>3 DEF PdfTypes
<1>5. PdfLoadsFit
  <2>1. e.cur /\ e.id = 1 /\ e.ph = "destroy" /\ begun = 1 /\ viewed /\ sheets = <<>>
    BY <1>1 DEF PD!Init
  <2> QED
    BY <1>3, <2>1 DEF PdfLoadsFit
<1>6. DrawingsFit /\ PD!NoPageOfOthers
  BY DEF PD!Init, DrawingsFit, PD!NoPageOfOthers
<1>7. DrawingGoesOn
  BY <1>1, <1>3 DEF DrawingGoesOn
<1> QED
  BY <1>4, <1>5, <1>6, <1>7 DEF PdfInv

\* A load of another document, or the same one again, keeps the invariant.
LEMMA LoadPdfStep ==
    ASSUME PdfInv, viewed, document' \in Readings, PD!loadPDF
    PROVE  PdfInv'
<1>1. PdfTypes /\ PdfLoadsFit /\ DrawingsFit
  BY DEF PdfInv
<1>2. /\ sheets' = <<>> /\ zoom' = 1 /\ wrong' = FALSE /\ loads' = PD!Begun(loads) /\ begun' = begun + 1
      /\ drawings' = {r \in drawings : r.ph # "draw"} /\ openPdfs' = openPdfs \ {lastTask}
      /\ UNCHANGED <<pdf, lastTask, viewed>>
  BY DEF PD!loadPDF, PD!Cancelled
<1>3. PICK e \in AllLoads(loads') :
         /\ loads' \in Seq(Load) /\ Ordered(loads') /\ e.id = begun + 1 /\ e.cur /\ e.ph = "destroy"
         /\ \A c \in AllLoads(loads') : c = e \/ (~c.cur /\ \E d \in AllLoads(loads) : c.id = d.id /\ c.ph = d.ph)
  BY <1>1, <1>2, LoadBegins DEF PdfTypes, PdfLoadsFit
<1>4. PdfTypes'
  <2>1. sheets' \in {<<>>} \cup [1..2 -> {None} \cup Readings \X {1, 2}]
    BY <1>2
  <2>2. (wrong => s12 \/ s13)'
    BY <1>2
  <2>3. /\ document' \in Readings /\ pdf' \in Readings \cup {None}
        /\ zoom' \in {1, 2} /\ begun' \in Nat /\ lastTask' \in Nat /\ lastTask' <= begun' /\ drawings' \subseteq Drawing
    BY <1>1, <1>2 DEF PdfTypes
  <2> QED
    BY <1>3, <2>1, <2>2, <2>3 DEF PdfTypes
<1>5. \A c \in AllLoads(loads) : c.id <= begun /\ c.id \in Nat
  <2>1. \A k \in 1..Len(loads) : loads[k] \in Load
    BY <1>1 DEF PdfTypes
  <2> QED
    BY <1>1, <2>1 DEF PdfLoadsFit, AllLoads, Load
<1>6. PdfLoadsFit'
  BY <1>1, <1>2, <1>3, <1>5 DEF PdfLoadsFit, PdfTypes
<1>7. \A r \in drawings' : r \in drawings /\ r.ph # "draw" /\ r.id \in Nat /\ r.id <= begun
  BY <1>1, <1>2 DEF PdfTypes, Drawing, DrawingsFit
<1>8. \A r \in drawings' : r.ph = "page" => r.id \notin openPdfs'
  BY <1>1, <1>2, <1>7 DEF DrawingsFit
<1>9. \A r \in drawings', c \in AllLoads(loads') : r.ph = "page" /\ c.ph = "destroy" => c.id # r.id
  BY <1>1, <1>3, <1>7 DEF DrawingsFit, PdfTypes
<1>10. DrawingsFit'
  BY <1>1, <1>2, <1>7, <1>8, <1>9 DEF DrawingsFit, PdfTypes
<1>11. PD!NoPageOfOthers' /\ DrawingGoesOn'
  BY <1>2, <1>3 DEF PD!NoPageOfOthers, DrawingGoesOn
<1> QED
  BY <1>4, <1>6, <1>10, <1>11 DEF PdfInv

\* What is drawn again begins at its first page, and counts alone.
LEMMA Redrawn ==
    ASSUME PdfInv, None \notin Readings, zoom' \in {1, 2}, drawings' = PD!Rendered(drawings),
           UNCHANGED <<sheets, pdf, openPdfs, lastTask, begun>>, AllLoads(loads') \subseteq AllLoads(loads)
    PROVE  /\ drawings' \subseteq Drawing /\ DrawingsFit'
           /\ pdf # None => \E r \in drawings' : r.cur /\ r.ph = "tick" /\ r.page = 1
<1>1. PdfTypes /\ DrawingsFit /\ drawings \subseteq Drawing
  BY DEF PdfInv, PdfTypes
<1>2. CASE pdf = None
  <2>1. drawings' = drawings
    BY <1>2 DEF PD!Rendered
  <2>2. \A r \in drawings : r.ph # "draw"
    BY <1>1, <1>2 DEF DrawingsFit, Drawing
  <2> QED
    BY <1>1, <1>2, <2>1, <2>2 DEF DrawingsFit
<1>3. CASE pdf # None
  <2> DEFINE D(r) == [r EXCEPT !.cur = FALSE]
             Left == {r \in drawings : r.ph # "draw"}
  <2>1. PICK e : e = [of |-> pdf, id |-> lastTask, cur |-> TRUE, ph |-> "tick", page |-> 1, scale |-> zoom']
    OBVIOUS
  <2>2. drawings' = {D(r) : r \in Left} \cup {e}
    BY <1>3, <2>1 DEF PD!Rendered, PD!Superseded, PD!Cancelled
  <2>3. \A r \in Drawing : D(r) \in Drawing /\ ~D(r).cur /\ D(r).ph = r.ph /\ D(r).id = r.id /\ D(r).of = r.of
    BY DEF Drawing
  <2>4. e \in Drawing /\ e.cur /\ e.ph = "tick" /\ e.page = 1 /\ e.id = lastTask
    BY <1>1, <1>3, <2>1 DEF Drawing, PdfTypes
  <2> HIDE DEF D
  <2>5. \A q \in drawings' : q = e \/ \E r \in drawings : /\ r.ph # "draw" /\ ~q.cur /\ q.ph = r.ph /\ q.id = r.id /\ q.of = r.of
                                                           /\ q \in Drawing
    BY <1>1, <2>2, <2>3
  <2>6. DrawingsFit'
    BY <1>1, <2>4, <2>5 DEF DrawingsFit, PdfTypes
  <2> QED
    BY <2>2, <2>4, <2>5, <2>6
<1> QED
  BY <1>2, <1>3

\* So do another scale and leaving the viewer.
LEMMA RescaleStep == ASSUME PdfInv, None \notin Readings, NEW s \in {1, 2}, PD!Rescale(s) PROVE PdfInv'
<1>1. PdfTypes /\ PdfLoadsFit /\ DrawingGoesOn
  BY DEF PdfInv
<1>2. /\ zoom' = s /\ drawings' = PD!Rendered(drawings)
      /\ UNCHANGED <<document, viewed, wrong, pdf, sheets, loads, openPdfs, lastTask, begun, s12, s13>>
  BY DEF PD!Rescale, PD!kept, PD!told
<1>3. /\ drawings' \subseteq Drawing /\ DrawingsFit'
      /\ pdf # None => \E r \in drawings' : r.cur /\ r.ph = "tick" /\ r.page = 1
  BY <1>2, Redrawn
<1>4. PdfTypes' /\ PdfLoadsFit' /\ PD!NoPageOfOthers'
  BY <1>1, <1>2, <1>3 DEF PdfInv, PdfTypes, PdfLoadsFit, PD!NoPageOfOthers
<1>5. DrawingGoesOn'
  BY <1>1, <1>2, <1>3 DEF DrawingGoesOn, PdfLoadsFit
<1> QED
  BY <1>3, <1>4, <1>5 DEF PdfInv

LEMMA UnmountStep == ASSUME PdfInv, PD!Unmount PROVE PdfInv'
<1>1. PdfTypes /\ PdfLoadsFit /\ DrawingsFit /\ drawings \subseteq Drawing
  BY DEF PdfInv, PdfTypes
<1>2. /\ viewed' = FALSE /\ sheets' = <<>> /\ openPdfs' = openPdfs \ {lastTask} /\ lastTask' = 0 /\ pdf' = None
      /\ loads' = [k \in DOMAIN loads |-> [loads[k] EXCEPT !.cur = FALSE]]
      /\ drawings' = {[r EXCEPT !.cur = FALSE] : r \in {q \in drawings : q.ph # "draw"}}
      /\ UNCHANGED <<document, wrong, zoom, begun, s12, s13>>
  BY DEF PD!Unmount, PD!Cancelled, PD!told
<1>3. /\ loads' \in Seq(Load) /\ Ordered(loads') /\ Len(loads') = Len(loads)
      /\ \A k \in 1..Len(loads) : loads'[k].id = loads[k].id /\ loads'[k].ph = loads[k].ph /\ ~loads'[k].cur
  BY <1>1, <1>2, LoadsLeft DEF PdfTypes, PdfLoadsFit
<1>4. \A c \in AllLoads(loads') : ~c.cur /\ \E d \in AllLoads(loads) : c.id = d.id /\ c.ph = d.ph
  BY <1>3 DEF AllLoads
<1> DEFINE D(r) == [r EXCEPT !.cur = FALSE]
<1>5. \A r \in drawings : D(r) \in Drawing /\ ~D(r).cur /\ D(r).ph = r.ph /\ D(r).id = r.id
  BY <1>1 DEF Drawing
<1>6. drawings' = {D(r) : r \in {q \in drawings : q.ph # "draw"}}
  BY <1>2
<1> HIDE DEF D
<1>7. \A q \in drawings' : q \in Drawing /\ ~q.cur /\ q.ph # "draw" /\ \E r \in drawings : q.ph = r.ph /\ q.id = r.id
  BY <1>5, <1>6
<1>8. PdfTypes'
  <2>1. sheets' \in {<<>>} \cup [1..2 -> {None} \cup Readings \X {1, 2}]
    BY <1>2
  <2>2. (wrong => s12 \/ s13)'
    BY <1>1, <1>2 DEF PdfTypes
  <2>3. /\ document' \in Readings /\ pdf' \in Readings \cup {None}
        /\ zoom' \in {1, 2} /\ begun' \in Nat /\ lastTask' \in Nat /\ lastTask' <= begun' /\ drawings' \subseteq Drawing
    BY <1>1, <1>2, <1>7 DEF PdfTypes
  <2> QED
    BY <1>3, <2>1, <2>2, <2>3 DEF PdfTypes
<1>9. PdfLoadsFit'
  BY <1>1, <1>2, <1>3, <1>4 DEF PdfLoadsFit
<1>10. \A q \in drawings' : q.ph = "page" => q.id \notin openPdfs'
  BY <1>1, <1>2, <1>7 DEF DrawingsFit
<1>11. DrawingsFit'
  BY <1>1, <1>2, <1>4, <1>7, <1>10 DEF DrawingsFit
<1>12. PD!NoPageOfOthers' /\ DrawingGoesOn'
  BY <1>2 DEF PD!NoPageOfOthers, DrawingGoesOn
<1> QED
  BY <1>8, <1>9, <1>11, <1>12 DEF PdfInv

\* The loads but c, which has ended: nothing that is shown has changed.
LEMMA LoadsButOne ==
    ASSUME PdfInv, NEW k \in 1..Len(loads), loads' = PD!Without(k)
    PROVE  /\ loads' \in Seq(Load) /\ Ordered(loads') /\ AllLoads(loads') = AllLoads(loads) \ {loads[k]}
           /\ loads[k] \in AllLoads(loads) /\ loads[k] \in Load
<1>1. loads \in Seq(Load) /\ Ordered(loads)
  BY DEF PdfInv, PdfTypes, PdfLoadsFit
<1>2. loads[k] \in Load /\ loads[k] \in AllLoads(loads)
  BY <1>1 DEF AllLoads
<1> QED
  BY <1>1, <1>2, LoadEnds DEF PD!Without

\* The former document is gone.
LEMMA DestroyedStep == ASSUME PdfInv, None \notin Readings, NEW k \in 1..Len(loads), PD!Destroyed(k) PROVE PdfInv'
<1>1. PdfTypes /\ PdfLoadsFit /\ DrawingsFit /\ loads \in Seq(Load) /\ Ordered(loads)
  BY DEF PdfInv, PdfTypes, PdfLoadsFit
<1>2. PICK c : c = loads[k]
  OBVIOUS
<1>17. c \in Load /\ c \in AllLoads(loads)
  BY <1>1, <1>2 DEF AllLoads
<1>3. c \in Load /\ c \in AllLoads(loads) /\ c.id \in Nat
  BY <1>17 DEF Load
<1>4. PICK d : d = [[c EXCEPT !.ph = "load"] EXCEPT !.src = document]
  OBVIOUS
<1>5. d \in Load /\ d.id = c.id /\ d.cur = c.cur /\ d.ph = "load" /\ d.src = document
  BY <1>1, <1>3, <1>4 DEF Load, PdfTypes
<1>6. loads' = [loads EXCEPT ![k] = d]
  BY <1>1, <1>2, <1>4 DEF PD!Destroyed
<1>7. loads' \in Seq(Load) /\ Ordered(loads') /\ AllLoads(loads') = (AllLoads(loads) \ {c}) \cup {d}
  <2>1. d.id = loads[k].id
    BY <1>2, <1>5
  <2>2. /\ [loads EXCEPT ![k] = d] \in Seq(Load) /\ Ordered([loads EXCEPT ![k] = d])
        /\ AllLoads([loads EXCEPT ![k] = d]) = (AllLoads(loads) \ {loads[k]}) \cup {d}
    BY <1>1, <1>5, <2>1, LoadGoesOn
  <2> QED
    BY <1>2, <1>6, <2>2
<1>8. /\ c.ph = "destroy" /\ openPdfs' = openPdfs \cup {c.id} /\ lastTask' = c.id /\ pdf' = None
      /\ UNCHANGED <<document, viewed, wrong, zoom, sheets, drawings, begun, s12, s13>>
  BY <1>2 DEF PD!Destroyed, PD!told
<1>9. sheets = <<>> /\ c.id <= begun /\ (viewed => \E e \in AllLoads(loads) : e.cur /\ e.ph = "destroy")
  BY <1>1, <1>3, <1>8 DEF PdfLoadsFit
<1>10. \A x \in AllLoads(loads) : x.cur => x.ph = "destroy"
  BY <1>1, <1>3, <1>8, OneCounts
\* The one that counts was begun last, so it waits for all the others.
<1>11. ASSUME c.cur PROVE \A x \in AllLoads(loads) : x.ph = "destroy" => x = c
  <2> SUFFICES ASSUME NEW x \in AllLoads(loads), x.ph = "destroy" PROVE x = c
    OBVIOUS
  <2>1. PICK j \in 1..Len(loads) : x = loads[j]
    BY DEF AllLoads
  <2>2. ~(j < k)
    <3>1. \A i \in 1..k - 1 : loads[i].ph # "destroy"
      BY DEF PD!Destroyed
    <3> QED
      BY <2>1, <3>1
  <2>3. x.id <= begun /\ c.id = begun /\ x \in Load
    BY <1>1, <1>3, <1>11, <2>1 DEF PdfLoadsFit
  <2>4. ~(k < j)
    BY <1>1, <1>2, <1>3, <2>1, <2>3 DEF Ordered, Load
  <2>5. j = k
    BY <2>2, <2>4
  <2> QED
    BY <1>2, <2>1, <2>5
<1>12. PdfTypes'
  BY <1>1, <1>3, <1>7, <1>8, <1>9 DEF PdfTypes
<1>13. PdfLoadsFit'
  <2>1. \A x \in AllLoads(loads') : x.ph = "destroy" => x \in AllLoads(loads) /\ x # c
    BY <1>5, <1>7
  <2>2. \A x \in AllLoads(loads') : x.ph = "destroy" /\ viewed => \E e \in AllLoads(loads') : e.cur /\ e.ph = "destroy"
    BY <1>7, <1>9, <1>11, <2>1
  <2>3. \A x \in AllLoads(loads') : x.cur /\ x.ph # "destroy" => x = d
    BY <1>7, <1>10
  <2>4. \A x \in AllLoads(loads') : x.id <= begun /\ (x.cur => x.id = begun /\ viewed)
    BY <1>1, <1>3, <1>5, <1>7 DEF PdfLoadsFit
  <2> QED
    BY <1>5, <1>7, <1>8, <1>9, <2>2, <2>3, <2>4 DEF PdfLoadsFit
<1>14. DrawingsFit'
  BY <1>1, <1>3, <1>5, <1>7, <1>8, <1>9 DEF DrawingsFit
<1>15. DrawingGoesOn'
  BY <1>5, <1>7, <1>8, <1>9 DEF DrawingGoesOn
<1>16. PD!NoPageOfOthers'
  BY <1>8, <1>9 DEF PD!NoPageOfOthers
<1> QED
  BY <1>12, <1>13, <1>14, <1>15, <1>16 DEF PdfInv

\* A load that does not count is over: its document is released.
LEMMA OtherLoadEnds ==
    ASSUME PdfInv, NEW k \in 1..Len(loads), loads[k].ph = "load", ~loads[k].cur, loads' = PD!Without(k),
           openPdfs' = openPdfs \ {loads[k].id},
           UNCHANGED <<document, viewed, wrong, pdf, zoom, sheets, drawings, lastTask, begun, s12, s13>>
    PROVE  PdfInv'
<1>1. PdfTypes /\ PdfLoadsFit /\ DrawingsFit /\ DrawingGoesOn /\ loads \in Seq(Load) /\ Ordered(loads)
  BY DEF PdfInv, PdfTypes, PdfLoadsFit
<1>2. PICK c : c = loads[k]
  OBVIOUS
<1>3. /\ loads' \in Seq(Load) /\ Ordered(loads') /\ AllLoads(loads') = AllLoads(loads) \ {c} /\ c \in AllLoads(loads)
      /\ c.ph = "load" /\ ~c.cur /\ openPdfs' = openPdfs \ {c.id}
  BY <1>2, LoadsButOne
<1>4. \A x \in AllLoads(loads') : x \in AllLoads(loads) /\ x.id # c.id
  BY <1>1, <1>3, SameLoad
<1>5. PdfTypes'
  BY <1>1, <1>3 DEF PdfTypes
<1>6. PdfLoadsFit'
  <2>1. \A x \in AllLoads(loads') : x.ph = "destroy" /\ viewed => \E e \in AllLoads(loads') : e.cur /\ e.ph = "destroy"
    BY <1>1, <1>3, <1>4 DEF PdfLoadsFit
  <2>2. sheets # <<>> => lastTask # c.id
    BY <1>1, <1>3 DEF PdfLoadsFit
  <2>3. \A x \in AllLoads(loads') : x.id \in openPdfs => x.id \in openPdfs'
    BY <1>3, <1>4
  <2> QED
    BY <1>1, <1>3, <1>4, <2>1, <2>2, <2>3 DEF PdfLoadsFit
<1>7. DrawingsFit'
  BY <1>1, <1>3, <1>4 DEF DrawingsFit
<1>8. DrawingGoesOn'
  BY <1>1, <1>3 DEF DrawingGoesOn
<1>9. PD!NoPageOfOthers'
  BY DEF PdfInv, PD!NoPageOfOthers
<1> QED
  BY <1>5, <1>6, <1>7, <1>8, <1>9 DEF PdfInv

\* The load that counts fails, or its document ends too early: nothing is shown but the error.
LEMMA ChosenLoadFails ==
    ASSUME PdfInv, None \notin Readings, NEW k \in 1..Len(loads), loads[k].ph = "load", loads[k].cur,
           loads' = PD!Without(k), openPdfs' \in {openPdfs, openPdfs \ {loads[k].id}}, wrong', s13',
           pdf' \in {pdf, loads[k].src}, UNCHANGED <<document, viewed, zoom, sheets, drawings, lastTask, begun, s12>>
    PROVE  PdfInv'
<1>1. PdfTypes /\ PdfLoadsFit /\ DrawingsFit /\ loads \in Seq(Load) /\ Ordered(loads)
  BY DEF PdfInv, PdfTypes, PdfLoadsFit
<1>2. PICK c : c = loads[k]
  OBVIOUS
<1>3. /\ loads' \in Seq(Load) /\ Ordered(loads') /\ AllLoads(loads') = AllLoads(loads) \ {c} /\ c \in AllLoads(loads)
      /\ c.ph = "load" /\ c.cur /\ openPdfs' \in {openPdfs, openPdfs \ {c.id}} /\ pdf' \in {pdf, c.src}
  BY <1>2, LoadsButOne
<1>4. \A x \in AllLoads(loads) : (x.cur => x = c) /\ x.ph # "destroy"
  BY <1>3, OneCounts
<1>5. sheets = <<>> /\ c.src = document
  BY <1>1, <1>3 DEF PdfLoadsFit
<1>6. PdfTypes'
  BY <1>1, <1>3, <1>5 DEF PdfTypes
<1>7. PdfLoadsFit'
  BY <1>1, <1>3, <1>4, <1>5 DEF PdfLoadsFit
<1>8. DrawingsFit'
  BY <1>1, <1>3, <1>4, <1>5 DEF DrawingsFit
<1>9. PD!NoPageOfOthers' /\ DrawingGoesOn'
  BY <1>5 DEF PD!NoPageOfOthers, DrawingGoesOn
<1> QED
  BY <1>6, <1>7, <1>8, <1>9 DEF PdfInv

\* The document came, or could not be read.
LEMMA LoadedStep == ASSUME PdfInv, None \notin Readings, NEW k \in 1..Len(loads), PD!Loaded(k) PROVE PdfInv'
<1>1. PdfTypes /\ PdfLoadsFit /\ DrawingsFit /\ loads \in Seq(Load) /\ Ordered(loads)
  BY DEF PdfInv, PdfTypes, PdfLoadsFit
<1>2. loads[k].ph = "load" /\ UNCHANGED <<document, viewed, drawings, lastTask, begun, s12>>
  BY DEF PD!Loaded
<1>3. CASE ~loads[k].cur
  BY <1>2, <1>3, OtherLoadEnds DEF PD!Loaded, PD!Counts, PD!Released, PD!page
<1>4. CASE loads[k].cur /\ loads[k].src \in Endings
  BY <1>2, <1>4, ChosenLoadFails DEF PD!Loaded, PD!Counts
<1>5. CASE loads[k].cur /\ loads[k].src \notin Endings
  <2>1. PICK c : c = loads[k]
    OBVIOUS
  <2>2. c \in Load /\ c \in AllLoads(loads) /\ c.cur /\ c.ph = "load"
    BY <1>1, <1>2, <1>5, <2>1 DEF AllLoads
  <2>3. /\ sheets' = PD!Blank /\ loads' = [loads EXCEPT ![k] = [c EXCEPT !.ph = "tick"]]
        /\ pdf' = c.src /\ UNCHANGED <<openPdfs, zoom, wrong, s13>>
    BY <1>1, <1>5, <2>1 DEF PD!Loaded, PD!Counts
  <2>4. PICK d : d = [c EXCEPT !.ph = "tick"]
    OBVIOUS
  <2>5. d \in Load /\ d.id = c.id /\ d.cur /\ d.ph = "tick"
    BY <2>2, <2>4 DEF Load
  <2>6. loads' \in Seq(Load) /\ Ordered(loads') /\ AllLoads(loads') = (AllLoads(loads) \ {c}) \cup {d}
    <3>1. d.id = loads[k].id /\ loads' = [loads EXCEPT ![k] = d]
      BY <2>1, <2>3, <2>4, <2>5
    <3>2. /\ [loads EXCEPT ![k] = d] \in Seq(Load) /\ Ordered([loads EXCEPT ![k] = d])
          /\ AllLoads([loads EXCEPT ![k] = d]) = (AllLoads(loads) \ {loads[k]}) \cup {d}
      BY <1>1, <2>5, <3>1, LoadGoesOn
    <3> QED
      BY <2>1, <3>1, <3>2
  <2>7. \A x \in AllLoads(loads) : (x.cur => x = c) /\ x.ph # "destroy" /\ (x.id = c.id => x = c)
    BY <1>1, <2>2, OneCounts, SameLoad
  <2>8. sheets = <<>> /\ c.src = document /\ lastTask = c.id /\ c.id \in openPdfs /\ viewed /\ c.id = begun
    BY <1>1, <2>2 DEF PdfLoadsFit
  <2>9. sheets' \in [1..2 -> {None} \cup Readings \X {1, 2}] /\ \A p \in 1..2 : sheets'[p] = None
    BY <2>3 DEF PD!Blank
  <2>10. sheets' # <<>> /\ pdf' = document /\ pdf' # None
    BY <1>1, <2>3, <2>8, <2>9, PagesAreSheets DEF PdfTypes
  <2>11. PdfTypes'
    BY <1>1, <1>2, <2>3, <2>6, <2>9, <2>10 DEF PdfTypes
  <2>12. PdfLoadsFit'
    <3>1. \A x \in AllLoads(loads') : x = d \/ (x \in AllLoads(loads) /\ ~x.cur /\ x.ph # "destroy" /\ x.id # lastTask)
      BY <2>6, <2>7, <2>8
    <3>2. \A x \in AllLoads(loads') : x.id <= begun
      BY <1>1, <2>2, <2>5, <2>6 DEF PdfLoadsFit
    <3> QED
      BY <1>2, <2>3, <2>5, <2>6, <2>8, <2>10, <3>1, <3>2 DEF PdfLoadsFit
  <2>13. DrawingsFit'
    BY <1>1, <1>2, <2>3, <2>5, <2>6, <2>7, <2>8 DEF DrawingsFit
  <2>14. PD!NoPageOfOthers' /\ DrawingGoesOn'
    BY <2>5, <2>6, <2>9 DEF PD!NoPageOfOthers, DrawingGoesOn
  <2> QED
    BY <2>11, <2>12, <2>13, <2>14 DEF PdfInv
<1> QED
  BY <1>3, <1>4, <1>5

LEMMA LoadFailsStep == ASSUME PdfInv, None \notin Readings, NEW k \in 1..Len(loads), PD!LoadFails(k) PROVE PdfInv'
<1>1. /\ loads[k].ph = "load" /\ loads' = PD!Without(k) /\ openPdfs' = openPdfs \ {loads[k].id}
      /\ UNCHANGED <<document, viewed, pdf, zoom, sheets, drawings, lastTask, begun, s12>>
  BY DEF PD!LoadFails
<1>2. CASE loads[k].cur
  BY <1>1, <1>2, ChosenLoadFails DEF PD!LoadFails
<1>3. CASE ~loads[k].cur
  BY <1>1, <1>3, OtherLoadEnds DEF PD!LoadFails
<1> QED
  BY <1>2, <1>3

\* The canvases are there, and a drawing begins.
LEMMA DrawnStep == ASSUME PdfInv, None \notin Readings, NEW k \in 1..Len(loads), PD!Drawn(k) PROVE PdfInv'
<1>1. PdfTypes /\ PdfLoadsFit /\ DrawingsFit /\ DrawingGoesOn /\ loads \in Seq(Load) /\ Ordered(loads)
  BY DEF PdfInv, PdfTypes, PdfLoadsFit
<1>2. PICK c : c = loads[k]
  OBVIOUS
<1>3. /\ loads' = PD!Without(k) /\ c.ph = "tick" /\ (viewed => drawings' = PD!Rendered(drawings))
      /\ (~viewed => drawings' = drawings)
      /\ UNCHANGED <<document, viewed, wrong, pdf, sheets, openPdfs, lastTask, begun, zoom, s12, s13>>
  BY <1>2 DEF PD!Drawn, PD!kept, PD!told
<1>4. loads' \in Seq(Load) /\ Ordered(loads') /\ AllLoads(loads') = AllLoads(loads) \ {c} /\ c \in AllLoads(loads)
  BY <1>2, <1>3, LoadsButOne
<1>5. zoom' \in {1, 2}
  BY <1>1, <1>3 DEF PdfTypes
<1>6. /\ drawings' \subseteq Drawing /\ DrawingsFit'
      /\ viewed /\ pdf # None => \E r \in drawings' : r.cur /\ r.ph = "tick" /\ r.page = 1
  <2>1. CASE viewed
    BY <1>3, <1>4, <1>5, <2>1, Redrawn
  <2>2. CASE ~viewed
    BY <1>1, <1>3, <1>4, <2>2 DEF DrawingsFit, PdfTypes
  <2> QED
    BY <2>1, <2>2
<1>7. PdfTypes'
  BY <1>1, <1>3, <1>4, <1>6 DEF PdfTypes
<1>8. PdfLoadsFit'
  <2>1. \A x \in AllLoads(loads') : x.ph = "destroy" /\ viewed => \E e \in AllLoads(loads') : e.cur /\ e.ph = "destroy"
    BY <1>1, <1>3, <1>4 DEF PdfLoadsFit
  <2> QED
    BY <1>1, <1>3, <1>4, <2>1 DEF PdfLoadsFit
<1>9. DrawingGoesOn'
  <2> SUFFICES ASSUME viewed, ~wrong, \A x \in AllLoads(loads') : ~x.cur
               PROVE  sheets # <<>> /\ pdf = document /\ \E r \in drawings' : r.cur /\ r.ph = "tick" /\ r.page = 1
    BY <1>3 DEF DrawingGoesOn
  <2>1. sheets # <<>> /\ pdf = document
    BY <1>1, <1>3, <1>4 DEF PdfLoadsFit, DrawingGoesOn
  <2> QED
    BY <1>1, <1>6, <2>1 DEF PdfTypes
<1>10. PD!NoPageOfOthers'
  BY <1>3 DEF PdfInv, PD!NoPageOfOthers
<1> QED
  BY <1>6, <1>7, <1>8, <1>9, <1>10 DEF PdfInv

\* A step of a drawing leaves what is chosen, shown and loaded alone.
LEMMA DrawingStays ==
    ASSUME PdfInv, UNCHANGED <<document, viewed, pdf, zoom, sheets, loads, openPdfs, lastTask, begun>>
    PROVE  PdfLoadsFit' /\ PD!NoPageOfOthers'
BY DEF PdfInv, PdfLoadsFit, PD!NoPageOfOthers

\* A drawing goes on, as s or not at all.
LEMMA DrawingMoves ==
    ASSUME PdfInv, NEW r \in drawings, NEW S \in SUBSET Drawing, drawings' = (drawings \ {r}) \cup S,
           UNCHANGED <<document, viewed, wrong, pdf, zoom, sheets, loads, openPdfs, lastTask, begun, s12, s13>>,
           \A s \in S : /\ s.cur /\ r.cur /\ s.id <= begun /\ s.page = r.page /\ sheets # <<>>
                        /\ s.of = pdf /\ s.id = lastTask
                        /\ s.ph = "page" \/ (s.ph = "draw" /\ s.scale = zoom),
           \A s, t \in S : s = t,
           S = {} /\ viewed /\ ~wrong /\ sheets # <<>> /\ pdf # None /\ r.cur => r.ph = "page" /\ r.id # lastTask
    PROVE  PdfInv'
<1>1. PdfTypes /\ PdfLoadsFit /\ DrawingsFit /\ DrawingGoesOn
  BY DEF PdfInv
<1>2. PdfTypes'
  BY <1>1 DEF PdfTypes
<1>3. sheets # <<>> => pdf # None /\ \A c \in AllLoads(loads) : c.ph # "destroy"
  BY <1>1 DEF PdfLoadsFit
<1>4. \A q \in drawings' : (q \in drawings /\ q # r) \/ q \in S
  OBVIOUS
<1>5. DrawingsFit'
  BY <1>1, <1>3, <1>4 DEF DrawingsFit
<1>6. DrawingGoesOn'
  <2> SUFFICES ASSUME viewed, ~wrong, \A c \in AllLoads(loads) : ~c.cur
               PROVE  /\ sheets # <<>> /\ pdf = document
                      /\ \/ \A p \in 1..2 : sheets[p] = <<pdf, zoom>>
                         \/ \E q \in drawings' : /\ q.cur /\ (q.ph = "page" => q.id = lastTask)
                                                 /\ \A p \in 1..2 : p < q.page => sheets[p] = <<pdf, zoom>>
    BY DEF DrawingGoesOn
  <2>1. sheets # <<>> /\ pdf = document
    BY <1>1 DEF DrawingGoesOn
  <2>2. CASE \A p \in 1..2 : sheets[p] = <<pdf, zoom>>
    BY <2>1, <2>2
  <2>3. ASSUME NEW q \in drawings, q.cur, q.ph = "page" => q.id = lastTask,
               \A p \in 1..2 : p < q.page => sheets[p] = <<pdf, zoom>>
        PROVE  \E w \in drawings' : /\ w.cur /\ (w.ph = "page" => w.id = lastTask)
                                    /\ \A p \in 1..2 : p < w.page => sheets[p] = <<pdf, zoom>>
    <3>1. CASE q # r
      <4>1. q \in drawings'
        BY <3>1
      <4> QED
        BY <2>3, <4>1
    <3>2. CASE q = r
      <4>1. S # {}
        BY <1>3, <2>1, <2>3, <3>2
      <4>2. PICK s \in S : s.cur /\ s.id = lastTask /\ s.page = r.page
        BY <4>1
      <4>3. s \in drawings'
        BY <4>2
      <4>4. \A p \in 1..2 : p < s.page => sheets[p] = <<pdf, zoom>>
        BY <2>3, <3>2, <4>2
      <4> QED
        BY <4>2, <4>3, <4>4
    <3> QED
      BY <3>1, <3>2
  <2>4. \/ \A p \in 1..2 : sheets[p] = <<pdf, zoom>>
        \/ \E q \in drawings : /\ q.cur /\ (q.ph = "page" => q.id = lastTask)
                               /\ \A p \in 1..2 : p < q.page => sheets[p] = <<pdf, zoom>>
    BY <1>1 DEF DrawingGoesOn
  <2> QED
    BY <2>1, <2>2, <2>3, <2>4
<1> QED
  BY <1>2, <1>5, <1>6, DrawingStays DEF PdfInv

\* A drawing asks for a page, which comes, is refused or never comes.
LEMMA DrawingStep ==
    ASSUME PdfInv, None \notin Readings, NEW r \in drawings,
           PD!AskPage(r) \/ PD!PageComes(r) \/ PD!PageFails(r) \/ PD!PageSilent(r)
    PROVE  PdfInv'
<1>1. PdfTypes /\ PdfLoadsFit /\ DrawingsFit /\ r \in Drawing
  BY DEF PdfInv, PdfTypes
<1>2. CASE PD!AskPage(r)
  <2>1. UNCHANGED <<document, viewed, wrong, pdf, zoom, sheets, loads, openPdfs, lastTask, begun, s12, s13>>
    BY <1>2 DEF PD!AskPage, PD!page, PD!kept, PD!told
  <2>2. CASE sheets # <<>> /\ ~wrong /\ r.cur /\ pdf # None
    <3>1. PICK s : s = [r EXCEPT !.ph = "page", !.of = pdf, !.id = lastTask]
      OBVIOUS
    <3>2. /\ s \in Drawing /\ s.cur /\ s.ph = "page" /\ s.of = pdf /\ s.id = lastTask /\ s.page = r.page
          /\ s.id <= begun
      BY <1>1, <2>2, <3>1 DEF Drawing, PdfTypes
    <3>3. drawings' = (drawings \ {r}) \cup {s}
      BY <1>2, <2>2, <3>1 DEF PD!AskPage, PD!Canvases, PD!Current, PD!Goes
    <3>4. {s} \in SUBSET Drawing /\ {s} # {}
      BY <3>2
    <3> QED
      BY <2>1, <2>2, <3>2, <3>3, <3>4, DrawingMoves
  <2>3. CASE ~(sheets # <<>> /\ ~wrong /\ r.cur /\ pdf # None)
    <3>1. drawings' = (drawings \ {r}) \cup {}
      BY <1>2, <2>3 DEF PD!AskPage, PD!Canvases, PD!Current, PD!Ends
    <3>2. ~(viewed /\ ~wrong /\ sheets # <<>> /\ pdf # None /\ r.cur)
      BY <2>3
    <3> QED
      BY <2>1, <3>1, <3>2, DrawingMoves
  <2> QED
    BY <2>2, <2>3
<1>3. CASE PD!PageComes(r)
  <2>1. /\ UNCHANGED <<document, viewed, wrong, pdf, zoom, sheets, loads, openPdfs, lastTask, begun, s12, s13>>
        /\ r.ph = "page" /\ r.id \in openPdfs
    BY <1>3 DEF PD!PageComes, PD!page, PD!kept, PD!told
  <2>2. sheets # <<>> /\ r.of = pdf /\ r.id = lastTask /\ r.id <= begun
    BY <1>1, <2>1 DEF DrawingsFit
  <2>3. CASE r.cur
    <3>1. PICK s : s = [r EXCEPT !.ph = "draw", !.scale = zoom]
      OBVIOUS
    <3>2. /\ s \in Drawing /\ s.cur /\ s.ph = "draw" /\ s.of = pdf /\ s.id = lastTask /\ s.page = r.page
          /\ s.id <= begun /\ s.scale = zoom
      BY <1>1, <2>2, <2>3, <3>1 DEF Drawing, PdfTypes
    <3>3. drawings' = (drawings \ {r}) \cup {s}
      BY <1>3, <2>3, <3>1 DEF PD!PageComes, PD!Current, PD!Goes
    <3>4. {s} \in SUBSET Drawing /\ {s} # {}
      BY <3>2
    <3> QED
      BY <2>1, <2>2, <2>3, <3>2, <3>3, <3>4, DrawingMoves
  <2>4. CASE ~r.cur
    <3>1. drawings' = (drawings \ {r}) \cup {}
      BY <1>3, <2>4 DEF PD!PageComes, PD!Current, PD!Ends
    <3> QED
      BY <2>1, <2>4, <3>1, DrawingMoves
  <2> QED
    BY <2>3, <2>4
<1>4. CASE PD!PageSilent(r)
  <2>1. /\ UNCHANGED <<document, viewed, wrong, pdf, zoom, sheets, loads, openPdfs, lastTask, begun, s12, s13>>
        /\ r.ph = "page" /\ r.id \notin openPdfs /\ drawings' = (drawings \ {r}) \cup {}
    BY <1>4 DEF PD!PageSilent, PD!page, PD!kept, PD!told, PD!Ends
  <2>2. sheets # <<>> => r.id # lastTask
    BY <1>1, <2>1 DEF PdfLoadsFit
  <2> QED
    BY <2>1, <2>2, DrawingMoves
<1>5. CASE PD!PageFails(r)
  <2>1. /\ UNCHANGED <<document, viewed, pdf, zoom, sheets, loads, openPdfs, lastTask, begun>>
        /\ wrong' /\ (s12' \/ s13') /\ drawings' \subseteq drawings
    BY <1>5 DEF PD!PageFails, PD!Ends, PD!kept
  <2>2. PdfTypes'
    BY <1>1, <2>1 DEF PdfTypes
  <2>3. DrawingsFit'
    BY <1>1, <2>1 DEF DrawingsFit
  <2>4. DrawingGoesOn'
    BY <2>1 DEF DrawingGoesOn
  <2> QED
    BY <2>1, <2>2, <2>3, <2>4, DrawingStays DEF PdfInv
<1> QED
  BY <1>2, <1>3, <1>4, <1>5

\* A page is drawn: it is of the document of the drawing, at its scale.
LEMMA PageDrawnStep == ASSUME PdfInv, None \notin Readings, NEW r \in drawings, PD!PageDrawn(r) PROVE PdfInv'
<1>1. PdfTypes /\ PdfLoadsFit /\ DrawingsFit /\ DrawingGoesOn /\ r \in Drawing
  BY DEF PdfInv, PdfTypes
<1>2. /\ r.ph = "draw" /\ UNCHANGED <<document, viewed, wrong, pdf, zoom, loads, openPdfs, lastTask, begun, s12, s13>>
  BY DEF PD!PageDrawn, PD!kept, PD!told
<1>3. r.cur /\ sheets # <<>> /\ r.of = pdf /\ r.scale = zoom /\ r.id <= begun
  BY <1>1, <1>2 DEF DrawingsFit
<1>4. pdf \in Readings /\ zoom \in {1, 2} /\ r.page \in 1..2 /\ sheets \in [1..2 -> {None} \cup Readings \X {1, 2}]
  BY <1>1, <1>3 DEF PdfTypes, PdfLoadsFit, Drawing
<1>5. sheets' = [sheets EXCEPT ![r.page] = <<pdf, zoom>>]
  BY <1>3 DEF PD!PageDrawn
<1>6. /\ sheets' \in [1..2 -> {None} \cup Readings \X {1, 2}] /\ sheets'[r.page] = <<pdf, zoom>>
      /\ \A p \in 1..2 : p # r.page => sheets'[p] = sheets[p]
  BY <1>4, <1>5
<1>7. sheets' # <<>>
  BY <1>6, PagesAreSheets
<1>8. PICK s : s = [[r EXCEPT !.ph = "tick"] EXCEPT !.page = r.page + 1]
  OBVIOUS
<1>16. r.page < 2 => r.page + 1 \in 1..2
  BY <1>4
<1>9. s.ph = "tick" /\ s.cur /\ s.page = r.page + 1 /\ s.id = r.id /\ (r.page < 2 => s \in Drawing)
  BY <1>1, <1>3, <1>8, <1>16 DEF Drawing
<1>10. \/ r.page < 2 /\ drawings' = (drawings \ {r}) \cup {s}
       \/ r.page = 2 /\ drawings' = drawings \ {r}
  BY <1>4, <1>8 DEF PD!PageDrawn, PD!Continues, PD!Goes, PD!Ends
<1>11. PdfTypes'
  BY <1>1, <1>2, <1>6, <1>9, <1>10 DEF PdfTypes
<1>12. PdfLoadsFit'
  BY <1>1, <1>2, <1>3, <1>7 DEF PdfLoadsFit
<1>13. DrawingsFit'
  BY <1>1, <1>2, <1>3, <1>7, <1>9, <1>10 DEF DrawingsFit
<1>14. PD!NoPageOfOthers'
  BY <1>2, <1>3, <1>6 DEF PdfInv, PD!NoPageOfOthers
<1>15. DrawingGoesOn'
  <2> SUFFICES ASSUME viewed, ~wrong, \A c \in AllLoads(loads) : ~c.cur
               PROVE  /\ pdf = document
                      /\ \/ \A p \in 1..2 : sheets'[p] = <<pdf, zoom>>
                         \/ \E q \in drawings' : /\ q.cur /\ (q.ph = "page" => q.id = lastTask)
                                                 /\ \A p \in 1..2 : p < q.page => sheets'[p] = <<pdf, zoom>>
    BY <1>2, <1>7 DEF DrawingGoesOn
  <2>1. pdf = document
    BY <1>1 DEF DrawingGoesOn
  <2>2. \A p \in 1..2 : p < r.page + 1 => sheets'[p] = <<pdf, zoom>>
    <3>1. \A q \in drawings : q.cur => q = r
      BY <1>1, <1>3 DEF DrawingsFit
    <3>2. \/ \A p \in 1..2 : sheets[p] = <<pdf, zoom>>
          \/ \E q \in drawings : q.cur /\ \A p \in 1..2 : p < q.page => sheets[p] = <<pdf, zoom>>
      BY <1>1 DEF DrawingGoesOn
    <3>3. \A p \in 1..2 : p < r.page => sheets[p] = <<pdf, zoom>>
      BY <3>1, <3>2
    <3>4. \A p \in 1..2 : p < r.page + 1 => p < r.page \/ p = r.page
      BY <1>4
    <3> QED
      BY <1>6, <3>3, <3>4
  <2>3. CASE r.page < 2
    <3>1. s \in drawings'
      BY <1>4, <1>10, <2>3
    <3> QED
      BY <1>9, <2>1, <2>2, <3>1
  <2>4. CASE r.page = 2
    BY <2>1, <2>2, <2>4
  <2> QED
    BY <1>4, <2>3, <2>4
<1> QED
  BY <1>11, <1>12, <1>13, <1>14, <1>15 DEF PdfInv

\* Every step keeps the invariant, which says what is shown.
LEMMA PdfStep == ASSUME PdfInv, None \notin Readings, [PD!Next]_(PD!vars) PROVE PdfInv'
<1>1. CASE UNCHANGED PD!vars
  BY <1>1 DEF PD!vars, PD!page, PD!kept, PD!told, PdfInv, PdfTypes, PdfLoadsFit, DrawingsFit, DrawingGoesOn, PD!NoPageOfOthers
<1>2. ASSUME NEW d \in Readings, PD!Choose(d) PROVE PdfInv'
  BY <1>2, LoadPdfStep DEF PD!Choose
<1>3. CASE PD!Retry
  BY <1>3, LoadPdfStep DEF PD!Retry, PdfInv, PdfTypes
<1>4. DOMAIN loads = 1..Len(loads)
  BY DEF PdfInv, PdfTypes
<1>5. CASE PD!Next
  BY <1>2, <1>3, <1>4, <1>5, RescaleStep, UnmountStep, DestroyedStep, LoadedStep, LoadFailsStep, DrawnStep, DrawingStep,
     PageDrawnStep DEF PD!Next
<1> QED
  BY <1>1, <1>5

LEMMA PdfShown == ASSUME PdfInv PROVE PD!PagesOfChoice /\ PD!NoPageOfOthers
<1>1. PdfTypes /\ PdfLoadsFit /\ DrawingGoesOn /\ PD!NoPageOfOthers
  BY DEF PdfInv
<1>2. ASSUME PD!Quiet, viewed PROVE IF wrong THEN s13 \/ s12 ELSE pdf = document /\ sheets = [p \in 1..2 |-> <<document, zoom>>]
  <2>1. CASE wrong
    BY <1>1, <2>1 DEF PdfTypes
  <2>2. CASE ~wrong
    <3>1. loads = <<>> /\ drawings = {}
      BY <1>2 DEF PD!Quiet
    <3>2. AllLoads(loads) = {}
      BY <3>1 DEF AllLoads
    <3>3. sheets # <<>> /\ pdf = document /\ \A p \in 1..2 : sheets[p] = <<pdf, zoom>>
      BY <1>1, <1>2, <2>2, <3>1, <3>2 DEF DrawingGoesOn
    <3>4. sheets \in [1..2 -> {None} \cup Readings \X {1, 2}]
      BY <1>1, <3>3 DEF PdfTypes
    <3> QED
      BY <2>2, <3>3, <3>4
  <2> QED
    BY <2>1, <2>2
<1> QED
  BY <1>1, <1>2 DEF PD!PagesOfChoice

-----------------------------------------------------------------------------
(* The pages together: a behaviour is one of the part that page names, so    *)
(* each part keeps its own inductive invariant.                              *)

PagesInv ==
    /\ page = "ministry"   => MinistryInv
    /\ page = "drafts"     => DraftsInv
    /\ page = "resources"  => GovernanceInv
    /\ page = "feedback"   => FeedbackInv
    /\ page = "reader"     => ReaderInv
    /\ page = "pdf"        => PdfInv
    /\ page = "downloads"  => DownloadsInv
    /\ page = "attendance" => AttendanceInv
    /\ page = "homes"      => TE!FormOfHome
    /\ page = "groups"     => GroupsInv

\* Each part has its invariant at the start, and keeps it.
LEMMA PagesStart == Init => PagesInv
<1> USE ConstantsAssumption
<1>1. /\ DL!Init => DownloadsInv
      /\ GO!Init => GovernanceInv
      /\ GA!Init => GroupsInv
      /\ MD!Init => DraftsInv
      /\ MP!Init => MinistryInv
      /\ FE!Init => FeedbackInv
      /\ CR!Init => ReaderInv
      /\ PD!Init => PdfInv
      /\ AT!Init => AttendanceInv
      /\ TE!Init => TE!FormOfHome
  BY DownloadsStart, GovernanceStart, GroupsStart, DraftsStart, MinistryStart, FeedbackStart, ReaderStart, PdfStart,
     AttendanceStart, FormStart DEF ConstantsAssumption
<1>2. /\ Init => page \in {"ministry", "drafts", "resources", "feedback", "reader", "pdf", "downloads", "attendance",
                           "homes", "groups"}
      /\ page = "ministry" /\ Init => MP!Init
      /\ page = "drafts" /\ Init => MD!Init
      /\ page = "resources" /\ Init => GO!Init
      /\ page = "feedback" /\ Init => FE!Init
      /\ page = "reader" /\ Init => CR!Init
      /\ page = "pdf" /\ Init => PD!Init
      /\ page = "downloads" /\ Init => DL!Init
      /\ page = "attendance" /\ Init => AT!Init
      /\ page = "homes" /\ Init => TE!Init
      /\ page = "groups" /\ Init => GA!Init
  BY DEF Init
<1> QED
  BY <1>1, <1>2 DEF PagesInv

\* A step of the pages is a step of the part that is open.
LEMMA PageSteps ==
    ASSUME [Next]_vars
    PROVE  /\ page' = page
           /\ page = "ministry"   => [MP!Next]_(MP!vars)
           /\ page = "drafts"     => [MD!Next]_(MD!vars)
           /\ page = "resources"  => [GO!Next]_(GO!vars)
           /\ page = "feedback"   => [FE!Next]_(FE!vars)
           /\ page = "reader"     => [CR!Next]_(CR!vars)
           /\ page = "pdf"        => [PD!Next]_(PD!vars)
           /\ page = "downloads"  => [DL!Next]_(DL!vars)
           /\ page = "attendance" => [AT!Next]_(AT!vars)
           /\ page = "homes"      => [TE!Next]_(TE!vars)
           /\ page = "groups"     => [GA!Next]_(GA!vars)
<1>1. CASE UNCHANGED vars
  <2>1. /\ page' = page /\ UNCHANGED DL!vars /\ UNCHANGED GO!vars /\ UNCHANGED GA!vars /\ UNCHANGED MD!vars
    BY <1>1 DEF vars, DL!vars, DL!memory, DL!disk, DL!calls, DL!ghost, DL!bounds, GO!vars, GO!shown, GO!forms,
            GO!busy, GO!ghost, GO!bounds, GA!vars, GA!server, GA!shown, GA!locks, GA!bounds, MD!vars, MD!server,
            MD!forms, MD!locks, MD!ghost, MD!bounds
  <2>2. UNCHANGED MP!vars /\ UNCHANGED FE!vars /\ UNCHANGED CR!vars /\ UNCHANGED PD!vars
    BY <1>1 DEF vars, MP!vars, MP!shown, MP!busy, MP!ghost, MP!bounds, FE!vars, FE!server, FE!page, FE!detail, FE!ghost,
            FE!bounds, CR!vars, PD!vars, PD!page, PD!kept, PD!told
  <2>3. UNCHANGED AT!vars /\ UNCHANGED TE!vars
    BY <1>1 DEF vars, AT!vars, AT!server, AT!chosen, AT!drafts, AT!history, AT!bounds, TE!vars, TE!server, TE!lists, TE!bounds
  <2> QED
    BY <2>1, <2>2, <2>3
<1>2. CASE Next
  BY <1>2, SMT DEF Next
<1> QED
  BY <1>1, <1>2

\* Every step keeps the invariant of the part that is open.
LEMMA PagesStep == ASSUME PagesInv, [Next]_vars PROVE PagesInv'
<1> USE ConstantsAssumption
<1>1. None \notin Ministries /\ None \notin Readings /\ None \notin Groups /\ Size \in Nat
  BY DEF ConstantsAssumption
<1>2. page' = page
  BY PageSteps
<1>3. page = "downloads" => DownloadsInv'
  BY PageSteps, DownloadsStep DEF PagesInv, ConstantsAssumption
<1>4. page = "resources" => GovernanceInv'
  BY <1>1, PageSteps, GovernanceStep DEF PagesInv
<1>5. page = "groups" => GroupsInv'
  BY PageSteps, GroupsStep DEF PagesInv
<1>6. page = "drafts" => DraftsInv'
  BY PageSteps, DraftsStep DEF PagesInv
<1>7. page = "ministry" => MinistryInv'
  BY <1>1, PageSteps, MinistryStep DEF PagesInv
<1>8. page = "feedback" => FeedbackInv'
  BY PageSteps, FeedbackStep DEF PagesInv
<1>9. page = "reader" => ReaderInv'
  BY PageSteps, ReaderStep DEF PagesInv
<1>10. page = "pdf" => PdfInv'
  BY <1>1, PageSteps, PdfStep DEF PagesInv
<1>11. page = "attendance" => AttendanceInv'
  BY PageSteps, AttendanceStep DEF PagesInv
<1>12. page = "homes" => TE!FormOfHome'
  BY PageSteps, FormStep DEF PagesInv
<1> QED
  BY <1>2, <1>3, <1>4, <1>5, <1>6, <1>7, <1>8, <1>9, <1>10, <1>11, <1>12 DEF PagesInv

\* The pages have the invariant of their part.
LEMMA PagesInvariant == Spec => []PagesInv
<1>1. PagesInv /\ [Next]_vars => PagesInv'
  BY PagesStep
<1> QED
  BY <1>1, PagesStart, PTL DEF Spec

\* However late an answer comes, what a page shows is of the group, item, home, month or
\* document that is chosen now, for any of them and any number of requests under way; the
\* marks of a sheet are the server's too, except after a mark whose answer was lost.
THEOREM PagesShowTheirContext == Spec => []PageOfContext
<1>1. PagesInv => PageOfContext
  <2> SUFFICES ASSUME PagesInv PROVE PageOfContext
    OBVIOUS
  <2>1. page = "groups" => GA!MembersOfGroup
    BY GroupsShown DEF PagesInv
  <2>2. page = "pdf" => PD!PagesOfChoice /\ PD!NoPageOfOthers
    BY PdfShown DEF PagesInv
  <2>3. page = "attendance" => AT!SheetOfChoice
    BY AttendanceShown DEF PagesInv
  <2> QED
    BY <2>1, <2>2, <2>3 DEF PagesInv, PageOfContext, MinistryInv, GovernanceInv, FeedbackInv, ReaderInv
<1> QED
  BY <1>1, PagesInvariant, PTL

\* A change, a file or a question never reaches another group, ministry or member than the
\* one it was made for, for any groups, ministries and accounts and any number of requests.
THEOREM ChangesReachTheirOwn == Spec => []ChangesStayInContext
<1>1. PagesInv => ChangesStayInContext
  BY SentInGroup DEF PagesInv, ChangesStayInContext, DraftsInv, GroupsInv
<1> QED
  BY <1>1, PagesInvariant, PTL

\* The download manager of the pages implements Transfers, for any tasks, scopes and size.
THEOREM PagesDeliver == Spec => Delivers
<1>1. Init => (page = "downloads" => DL!Promise!Init)
  BY DEF Init, DL!Init, DL!NoTasks, DL!Promise!Init
<1>2. PagesInv /\ [Next]_vars => [page = "downloads" => DL!Promise!Next]_<<s3, s9>>
  <2> SUFFICES ASSUME PagesInv, [Next]_vars, page = "downloads" PROVE DL!Promise!Next
    OBVIOUS
  <2>1. DownloadsInv /\ [DL!Next]_(DL!vars) /\ Size \in Nat
    BY PageSteps, ConstantsAssumption DEF PagesInv, ConstantsAssumption
  <2>2. CASE UNCHANGED <<Wanted(tasks), files>>
    <3>1. files' = files /\ Wanted(tasks)' = Wanted(tasks)
      BY <2>2
    <3>2. {} \in SUBSET Ids /\ DL!Promise!Stop({})
      BY <3>1 DEF DL!Promise!Stop, Wanted
    <3> QED
      BY <3>2 DEF DL!Promise!Next
  <2> QED
    BY <2>1, <2>2, StepImplements
<1> QED
  BY <1>1, <1>2, PagesInvariant, PTL DEF Spec, Delivers

\* What the parts' invariants say beyond those: a text leaves its form only when the server has
\* it, the member dropped it, or it was typed while the form was being saved; the composers
\* are free again, a reply is marked as read only when it was on the screen and its dot stays
\* away, a download has one run at a time, and the name of a group that is being edited is the
\* open group's.
THEOREM OwnWorkOfParts ==
    Spec => [](/\ page = "drafts"    => MD!TypeOK /\ MD!DraftsAreKept /\ MD!ComposersFree
               /\ page = "resources" => GO!TypeOK
               /\ page = "feedback"  => FE!TypeOK /\ FE!UnseenStaysUnread /\ FE!DotStaysAway
               /\ page = "downloads" => DL!TypeOK /\ DL!RunsApart
               /\ page = "groups"    => GA!GroupNamesAreOwn)
<1>1. PagesInv =>
          /\ page = "drafts"    => MD!TypeOK /\ MD!DraftsAreKept /\ MD!ComposersFree
          /\ page = "resources" => GO!TypeOK
          /\ page = "feedback"  => FE!TypeOK /\ FE!UnseenStaysUnread /\ FE!DotStaysAway
          /\ page = "downloads" => DL!TypeOK /\ DL!RunsApart
          /\ page = "groups"    => GA!GroupNamesAreOwn
  BY DEF PagesInv, DraftsInv, GovernanceInv, FeedbackInv, FeedbackTypes, DownloadsInv, GroupsInv
<1> QED
  BY <1>1, PagesInvariant, PTL
=============================================================================
