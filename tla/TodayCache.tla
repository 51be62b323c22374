----------------------------- MODULE TodayCache -----------------------------
(***************************************************************************)
(* The server-side cache of "today" content (server/today_cache.go), the   *)
(* handlers that read through it (server/today.go), the handlers that      *)
(* write learning data and then invalidate it, and the maintenance worker  *)
(* that clears it at midnight and warms it (server/today_prewarm.go).      *)
(*                                                                         *)
(* Content is abstracted to the versions of the two things one load reads, *)
(* in this order: the group's settings (groupLearningConfig) and its week  *)
(* (learning.TodayContent).  The two reads are separate SQL statements, so *)
(* they are separate steps, and a write may fall between them.  A payload  *)
(* keeps its size because eviction depends on it.  The PDF range cache that *)
(* the same handlers clear shares no state with this one and is left out,  *)
(* as are the hit, miss and duration counters.                             *)
(***************************************************************************)
EXTENDS Integers, Sequences, FiniteSets, SequencesExt

CONSTANTS
    Groups,      \* study groups
    Readers,     \* request goroutines calling GET /api/today
    Writers,     \* request goroutines of handlers that change learning data
    Maintainer,  \* the goroutine of runTodayCacheMaintenance
    Sizes,       \* sizes of the encoded payloads
    MaxEntries,  \* defaultTodayCacheMaxEntries
    MaxBytes,    \* defaultTodayCacheMaxBytes
    ChanCap,     \* capacity of app.cacheRefresh
    MaxDay,      \* bound: days the model runs for
    MaxEvents    \* bound: committed writes, manual invalidations and memory faults

ASSUME ConstantsAssumption ==
    /\ Groups # {} /\ Maintainer \notin Readers
    /\ Sizes \subseteq Nat \ {0}
    /\ MaxEntries \in Nat \ {0} /\ MaxBytes \in Nat \ {0} /\ ChanCap \in Nat
    /\ MaxDay \in Nat /\ MaxEvents \in Nat

VARIABLES
    db,        \* [g -> [settings, week]]: versions committed to MySQL
    entries,   \* todayContentCache.entries: cached key -> entry
    lru,       \* todayContentCache.lru: keys, front first
    sizeBytes, \* todayContentCache.sizeBytes
    epoch,     \* todayContentCache.epoch
    gen,       \* todayContentCache.generations
    day,       \* calendar day in the server's location
    proc,      \* local state of every goroutine that calls todayContent
    writer,    \* local state of every writing handler
    chan,      \* app.cacheRefresh
    maint,     \* local state of runTodayCacheMaintenance
    events,    \* bound counter for MaxEvents
    settled,   \* history: versions of db at the group's last invalidation
    stale      \* history: goroutines once answered with content older than their floor

cacheVars == <<entries, lru, sizeBytes, epoch, gen>>
vars == <<db, entries, lru, sizeBytes, epoch, gen, day, proc, writer, chan,
          maint, events, settled, stale>>

Procs   == Readers \cup {Maintainer}
Days    == 0..MaxDay
Keys    == Groups \X Days
Version == [settings : Nat, week : Nat]
Entry   == [settings : Nat, week : Nat, size : Nat, expiresAt : Nat, intact : BOOLEAN]

Local == [pc : {"idle", "get", "capture", "settings", "week", "store"},
          group : Groups, date : Days, now : Days, cached : BOOLEAN,
          epoch : Nat, gen : Nat, settings : Nat, week : Nat, floor : Version]

\* v is at least as new as w in both of its parts.
AtLeast(v, w) == v.settings >= w.settings /\ v.week >= w.week

NoVersion == [settings |-> 0, week |-> 0]

\* A goroutine outside todayContent; the other fields carry nothing then.
IdleLocal == [pc |-> "idle", group |-> CHOOSE g \in Groups : TRUE, date |-> 0, now |-> 0,
              cached |-> FALSE, epoch |-> 0, gen |-> 0, settings |-> 0, week |-> 0,
              floor |-> NoVersion]

\* mode: listing the active groups, warming them one by one, or in select.
\* timer is the day whose first instant the midnight timer is set for.
MaintState == [mode : {"list", "warm", "select"}, now : Days, left : SUBSET Groups,
               timer : 0..(MaxDay + 1)]

Init ==
    /\ db = [g \in Groups |-> NoVersion]
    /\ entries = << >> /\ lru = << >> /\ sizeBytes = 0
    /\ epoch = 0 /\ gen = [g \in Groups |-> 0]
    /\ day = 0
    /\ proc = [p \in Procs |-> IdleLocal]
    /\ writer = [w \in Writers |-> "idle"]
    /\ chan = << >>
    /\ maint = [mode |-> "list", now |-> 0, left |-> {}, timer |-> 0]
    /\ events = 0
    /\ settled = [g \in Groups |-> NoVersion]
    /\ stale = {}

-----------------------------------------------------------------------------
(* The LRU list and its byte count *)

\* The bytes of the keys in list q.
Total(q, sizeOf) ==
    LET upto[n \in 0..Len(q)] == IF n = 0 THEN 0 ELSE upto[n - 1] + sizeOf[q[n]] IN upto[Len(q)]

\* What is left of list q, in its order, when the keys in S are unlinked.
Without(q, S) ==
    LET kept[n \in 0..Len(q)] ==
            IF n = 0 THEN << >> ELSE IF q[n] \in S THEN kept[n - 1] ELSE Append(kept[n - 1], q[n])
    IN kept[Len(q)]

Sizing(f) == [k \in DOMAIN f |-> f[k].size]
Bytes(q)  == Total(q, Sizing(entries))

\* removeLocked: unlinks one entry from the map, the list and the byte count.
removeLocked(k) ==
    /\ entries' = [j \in DOMAIN entries \ {k} |-> entries[j]]
    /\ lru' = Without(lru, {k})
    /\ sizeBytes' = sizeBytes - entries[k].size

\* How many entries, from the front, the eviction loop of store leaves: it
\* drops the back of the list while either limit is exceeded.
KeptByEviction(q, total, sizeOf) ==
    LET fits == {n \in 0..Len(q) :
                    n <= MaxEntries /\ total - Total(SubSeq(q, n + 1, Len(q)), sizeOf) <= MaxBytes}
    IN  IF fits = {} THEN 0 ELSE CHOOSE n \in fits : \A m \in fits : m <= n

\* Mutant: the entry a concurrent load stored under the key is not unlinked.
insertLocked_KeepExisting(k, e) ==
    /\ entries' = [j \in DOMAIN entries \cup {k} |-> IF j = k THEN e ELSE entries[j]]
    /\ lru' = <<k>> \o lru
    /\ sizeBytes' = sizeBytes + e.size

\* The tail of store once the generation check has passed.
insertLocked(k, e) ==
    LET added   == [j \in DOMAIN entries \cup {k} |-> IF j = k THEN e ELSE entries[j]]
        q       == <<k>> \o Without(lru, {k})
        total   == sizeBytes - (IF k \in DOMAIN entries THEN entries[k].size ELSE 0) + e.size
        n       == KeptByEviction(q, total, Sizing(added))
        dropped == SubSeq(q, n + 1, Len(q))
    IN  /\ entries' = [j \in DOMAIN added \ ToSet(dropped) |-> added[j]]
        /\ lru' = SubSeq(q, 1, n)
        /\ sizeBytes' = total - Total(dropped, Sizing(added))

-----------------------------------------------------------------------------
(* Reading: todayContent and GetOrLoad *)

Step(p, pc) == proc' = [proc EXCEPT ![p].pc = pc]

\* Entering todayContent: `now` is the caller's clock, `d` the day asked for.
\* Another date than today bypasses the cache.
Call(p, g, d, now) ==
    /\ proc[p].pc = "idle"
    /\ proc' = [proc EXCEPT ![p] =
          [pc |-> IF d = now THEN "get" ELSE "settings", group |-> g, date |-> d,
           now |-> now, cached |-> d = now, epoch |-> 0, gen |-> 0,
           settings |-> 0, week |-> 0, floor |-> settled[g]]]

\* queryDate takes any date the client names.
handleToday(p) ==
    /\ p \in Readers
    /\ \E g \in Groups, d \in Days : Call(p, g, d, day)
    /\ UNCHANGED <<db, cacheVars, day, writer, chan, maint, events, settled, stale>>

Answer(p, v) ==
    /\ stale' = IF AtLeast(v, proc[p].floor) THEN stale ELSE stale \cup {p}
    /\ proc' = [proc EXCEPT ![p] = IdleLocal]

Key(p) == <<proc[p].group, proc[p].date>>

\* get: a hit moves the entry to the front; an expired or corrupt entry is
\* unlinked and counts as a miss.
get(p) ==
    /\ proc[p].pc = "get"
    /\ \/ /\ Key(p) \notin DOMAIN entries
          /\ Step(p, "capture")
          /\ UNCHANGED <<cacheVars, stale>>
       \/ /\ Key(p) \in DOMAIN entries
          /\ proc[p].now >= entries[Key(p)].expiresAt \/ ~entries[Key(p)].intact
          /\ removeLocked(Key(p))
          /\ Step(p, "capture")
          /\ UNCHANGED <<epoch, gen, stale>>
       \/ /\ Key(p) \in DOMAIN entries
          /\ proc[p].now < entries[Key(p)].expiresAt /\ entries[Key(p)].intact
          /\ lru' = <<Key(p)>> \o Without(lru, {Key(p)})
          /\ Answer(p, entries[Key(p)])
          /\ UNCHANGED <<entries, sizeBytes, epoch, gen>>
    /\ UNCHANGED <<db, day, writer, chan, maint, events, settled>>

\* After a miss: remember the epoch and the group's generation.
Capture(p) ==
    /\ proc[p].pc = "capture"
    /\ proc' = [proc EXCEPT ![p].pc = "settings", ![p].epoch = epoch,
                            ![p].gen = gen[proc[p].group]]
    /\ UNCHANGED <<db, cacheVars, day, writer, chan, maint, events, settled, stale>>

LoadSettings(p) ==
    /\ proc[p].pc = "settings"
    /\ proc' = [proc EXCEPT ![p].pc = "week",
                            ![p].settings = db[proc[p].group].settings]
    /\ UNCHANGED <<db, cacheVars, day, writer, chan, maint, events, settled, stale>>

\* A bypassing load answers at once; a load behind the cache goes on to store.
LoadWeek(p) ==
    /\ proc[p].pc = "week"
    /\ IF proc[p].cached
       THEN /\ proc' = [proc EXCEPT ![p].pc = "store",
                                    ![p].week = db[proc[p].group].week]
            /\ UNCHANGED stale
       ELSE Answer(p, [settings |-> proc[p].settings, week |-> db[proc[p].group].week])
    /\ UNCHANGED <<db, cacheVars, day, writer, chan, maint, events, settled>>

\* Either read fails: the error goes to the caller and nothing is cached.
LoadFails(p) ==
    /\ proc[p].pc \in {"settings", "week"}
    /\ proc' = [proc EXCEPT ![p] = IdleLocal]
    /\ UNCHANGED <<db, cacheVars, day, writer, chan, maint, events, settled, stale>>

\* Mutant: only a whole-cache clear overtakes a load.
LoadIsCurrent_EpochOnly(p) == epoch = proc[p].epoch

\* The generation check of store, evaluated under the cache's mutex.
LoadIsCurrent(p) == epoch = proc[p].epoch /\ gen[proc[p].group] = proc[p].gen

\* store: invalid or oversized content is rejected, a load that an
\* invalidation overtook is dropped, anything else becomes the front entry.
\* The caller receives the loaded content in every case.
store(p) ==
    /\ proc[p].pc = "store"
    /\ \/ UNCHANGED <<entries, lru, sizeBytes>>     \* rejected by validTodayContent
       \/ /\ ~LoadIsCurrent(p)
          /\ UNCHANGED <<entries, lru, sizeBytes>>
       \/ /\ LoadIsCurrent(p)
          /\ \E s \in Sizes :
                IF s > MaxBytes
                THEN UNCHANGED <<entries, lru, sizeBytes>>
                ELSE insertLocked(Key(p),
                        [settings |-> proc[p].settings, week |-> proc[p].week, size |-> s,
                         expiresAt |-> proc[p].now + 1, intact |-> TRUE])
    /\ Answer(p, proc[p])
    /\ UNCHANGED <<db, epoch, gen, day, writer, chan, maint, events, settled>>

\* The memory fault the checksum in an entry is there to detect.
CorruptEntry(k) ==
    /\ k \in DOMAIN entries /\ entries[k].intact /\ events < MaxEvents
    /\ events' = events + 1
    /\ entries' = [entries EXCEPT ![k].intact = FALSE]
    /\ UNCHANGED <<db, lru, sizeBytes, epoch, gen, day, proc, writer, chan,
                   maint, settled, stale>>

-----------------------------------------------------------------------------
(* Invalidation *)

\* Mutant: loads under way are overtaken, cached entries stay.
InvalidateGroup_KeepEntries(g) ==
    /\ gen' = [gen EXCEPT ![g] = @ + 1]
    /\ settled' = [settled EXCEPT ![g] = db[g]]
    /\ UNCHANGED <<entries, lru, sizeBytes, epoch>>

InvalidateGroup(g) ==
    LET mine == {k \in DOMAIN entries : k[1] = g} IN
    /\ gen' = [gen EXCEPT ![g] = @ + 1]
    /\ entries' = [k \in DOMAIN entries \ mine |-> entries[k]]
    /\ lru' = Without(lru, mine)
    /\ sizeBytes' = sizeBytes - Bytes(Without(lru, DOMAIN entries \ mine))
    /\ settled' = [settled EXCEPT ![g] = db[g]]
    /\ UNCHANGED epoch

Clear ==
    /\ entries' = << >> /\ lru' = << >> /\ sizeBytes' = 0
    /\ epoch' = epoch + 1
    /\ settled' = db
    /\ UNCHANGED gen

\* A handler commits its change; the call that invalidates comes after it.
SaveSettings(w, g) ==
    /\ writer[w] = "idle" /\ events < MaxEvents
    /\ db' = [db EXCEPT ![g].settings = @ + 1]
    /\ writer' = [writer EXCEPT ![w] = g]
    /\ events' = events + 1
    /\ UNCHANGED <<cacheVars, day, proc, chan, maint, settled, stale>>

SaveWeek(w, g) ==
    /\ writer[w] = "idle" /\ events < MaxEvents
    /\ db' = [db EXCEPT ![g].week = @ + 1]
    /\ writer' = [writer EXCEPT ![w] = g]
    /\ events' = events + 1
    /\ UNCHANGED <<cacheVars, day, proc, chan, maint, settled, stale>>

\* Renaming or recategorising an asset shows in every group that uses it.
SaveAsset(w) ==
    /\ writer[w] = "idle" /\ events < MaxEvents
    /\ db' = [g \in Groups |-> [db[g] EXCEPT !.week = @ + 1]]
    /\ writer' = [writer EXCEPT ![w] = "all"]
    /\ events' = events + 1
    /\ UNCHANGED <<cacheVars, day, proc, chan, maint, settled, stale>>

\* refreshTodayContent: invalidate, then offer the group to the maintenance
\* worker; a full channel drops the offer.
refreshTodayContent(w, g) ==
    /\ writer[w] = g
    /\ InvalidateGroup(g)
    /\ chan' = IF Len(chan) < ChanCap THEN Append(chan, g) ELSE chan
    /\ writer' = [writer EXCEPT ![w] = "idle"]
    /\ UNCHANGED <<db, day, proc, maint, events, stale>>

ClearAfterAsset(w) ==
    /\ writer[w] = "all"
    /\ Clear
    /\ writer' = [writer EXCEPT ![w] = "idle"]
    /\ UNCHANGED <<db, day, proc, chan, maint, events, stale>>

\* The administrator's "clear today cache" request.
handleClearTodayCache(g) ==
    /\ events < MaxEvents
    /\ events' = events + 1
    /\ InvalidateGroup(g)
    /\ UNCHANGED <<db, day, proc, writer, chan, maint, stale>>

-----------------------------------------------------------------------------
(* The maintenance worker *)

Midnight ==
    /\ day < MaxDay
    /\ day' = day + 1
    /\ UNCHANGED <<db, cacheVars, proc, writer, chan, maint, events, settled, stale>>

\* Mutant: a failing query ends the maintenance goroutine's work.
activeStudyGroupIDs_StopOnError ==
    /\ maint.mode = "list"
    /\ \E ids \in {Groups, {}} :
          maint' = [maint EXCEPT !.mode = IF ids = {} THEN "stopped" ELSE "warm", !.left = ids]
    /\ UNCHANGED <<db, cacheVars, day, proc, writer, chan, events, settled, stale>>

\* prewarmTodayCaches lists the active groups; when the query fails it
\* returns to the maintenance loop with nothing warmed.
activeStudyGroupIDs ==
    /\ maint.mode = "list"
    /\ \E ids \in {Groups, {}} : maint' = [maint EXCEPT !.mode = "warm", !.left = ids]
    /\ UNCHANGED <<db, cacheVars, day, proc, writer, chan, events, settled, stale>>

\* One iteration of the prewarm loop; `now` is the loop's own, taken before
\* it started, so a loop that runs past midnight warms the day before.
prewarmTodayGroup(g) ==
    /\ maint.mode = "warm" /\ g \in maint.left
    /\ Call(Maintainer, g, maint.now, maint.now)
    /\ maint' = [maint EXCEPT !.left = @ \ {g}]
    /\ UNCHANGED <<db, cacheVars, day, writer, chan, events, settled, stale>>

\* After the last group the timer is set for the midnight to come.
ResetTimer ==
    /\ maint.mode = "warm" /\ maint.left = {} /\ proc[Maintainer].pc = "idle"
    /\ maint' = [maint EXCEPT !.mode = "select", !.timer = day + 1]
    /\ UNCHANGED <<db, cacheVars, day, proc, writer, chan, events, settled, stale>>

\* The worker is in its select: no load and no prewarm loop under way.
Selecting == maint.mode = "select" /\ proc[Maintainer].pc = "idle"

\* Mutant: the prewarm loop is given the coming midnight.
MaintainerTick_NextDay ==
    /\ Selecting /\ day >= maint.timer
    /\ Clear
    /\ maint' = [maint EXCEPT !.mode = "list", !.now = maint.timer + 1]
    /\ UNCHANGED <<db, day, proc, writer, chan, events, stale>>

\* The tick carries the instant the timer was set for, however late it is
\* received.
MaintainerTick ==
    /\ Selecting /\ day >= maint.timer
    /\ Clear
    /\ maint' = [maint EXCEPT !.mode = "list", !.now = maint.timer]
    /\ UNCHANGED <<db, day, proc, writer, chan, events, stale>>

MaintainerRefresh ==
    /\ Selecting /\ chan # << >>
    /\ Call(Maintainer, Head(chan), day, day)
    /\ chan' = Tail(chan)
    /\ UNCHANGED <<db, cacheVars, day, writer, maint, events, settled, stale>>

-----------------------------------------------------------------------------
Load(p) ==
    get(p) \/ Capture(p) \/ LoadSettings(p) \/ LoadWeek(p) \/ LoadFails(p) \/ store(p)

Write(w) ==
    \/ \E g \in Groups : SaveSettings(w, g) \/ SaveWeek(w, g) \/ refreshTodayContent(w, g)
    \/ SaveAsset(w) \/ ClearAfterAsset(w)

Maintenance ==
    \/ activeStudyGroupIDs \/ ResetTimer
    \/ MaintainerTick \/ MaintainerRefresh
    \/ \E g \in Groups : prewarmTodayGroup(g)

Next ==
    \/ \E p \in Procs : Load(p) \/ handleToday(p)
    \/ \E w \in Writers : Write(w)
    \/ \E k \in Keys : CorruptEntry(k)
    \/ \E g \in Groups : handleClearTodayCache(g)
    \/ Midnight
    \/ Maintenance

\* The Go scheduler runs the maintenance goroutine whenever it can run, and
\* select chooses at random among its ready channels, so neither is passed
\* over for ever.
Fairness ==
    /\ WF_vars(Load(Maintainer))
    /\ WF_vars(activeStudyGroupIDs \/ ResetTimer \/ \E g \in Groups : prewarmTodayGroup(g))
    /\ SF_vars(MaintainerRefresh)
    /\ SF_vars(MaintainerTick)

Spec == Init /\ [][Next]_vars /\ Fairness

-----------------------------------------------------------------------------
(* Properties *)

\* Every variable keeps its type.
TypeOK ==
    /\ db \in [Groups -> Version] /\ settled \in [Groups -> Version]
    /\ DOMAIN entries \subseteq Keys
    /\ \A k \in DOMAIN entries : entries[k] \in Entry
    /\ epoch \in Nat /\ gen \in [Groups -> Nat]
    /\ day \in Days
    /\ proc \in [Procs -> Local]
    /\ writer \in [Writers -> Groups \cup {"idle", "all"}]
    /\ chan \in Seq(Groups) /\ maint \in MaintState /\ events \in Nat /\ stale \subseteq Procs

\* No entry survives, or is stored after, the invalidation of a write it does
\* not contain: what the cache holds for a group is at least as new as the
\* database was when that group was last invalidated (GetOrLoad, store).
FreshCache ==
    \A k \in DOMAIN entries : AtLeast(entries[k], settled[k[1]])

\* A caller of todayContent never receives content older than the last write
\* that was committed and invalidated before its call began.
ReadsAcknowledgedWrites == stale = {}

\* The list holds each cached key once, the byte count is the sum of the
\* cached payloads, and both limits hold whenever the mutex is free.
CacheAccounting ==
    /\ ToSet(lru) = DOMAIN entries /\ Len(lru) = Cardinality(DOMAIN entries)
    /\ sizeBytes = Bytes(lru)
    /\ Len(lru) <= MaxEntries /\ sizeBytes <= MaxBytes

\* A group a handler managed to queue for refreshing is loaded by the
\* maintenance worker, even across midnights and failing prewarm queries.
RefreshIsServed ==
    \A g \in Groups :
        (\E i \in 1..Len(chan) : chan[i] = g)
            ~> (proc[Maintainer].pc # "idle" /\ proc[Maintainer].group = g)

-----------------------------------------------------------------------------
(* The inductive invariant behind FreshCache and ReadsAcknowledgedWrites *)

\* Nothing is settled that was not committed.
SettledIsCommitted == \A g \in Groups : AtLeast(db[g], settled[g])

\* What a load under way has read so far is not older than its caller may
\* expect and, unless an invalidation overtook it, not older than the group's
\* last invalidation.
LoadIsFresh(p) ==
    LET l == proc[p]
        g == l.group
    IN  /\ AtLeast(settled[g], l.floor)
        /\ l.pc \in {"week", "store"} => l.settings >= l.floor.settings
        /\ l.pc = "store" => l.week >= l.floor.week /\ l.cached
        /\ l.pc \in {"get", "capture"} => l.cached
        /\ l.cached /\ l.pc \in {"settings", "week", "store"} =>
              /\ l.epoch <= epoch /\ l.gen <= gen[g]
              /\ LoadIsCurrent(p) =>
                    /\ l.pc \in {"week", "store"} => l.settings >= settled[g].settings
                    /\ l.pc = "store" => l.week >= settled[g].week

FreshnessInv ==
    /\ TypeOK /\ SettledIsCommitted /\ FreshCache /\ ReadsAcknowledgedWrites
    /\ \A p \in Procs : LoadIsFresh(p)
=============================================================================
