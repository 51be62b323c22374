-------------------------- MODULE TodayCacheProofs --------------------------
(***************************************************************************)
(* Proofs about the today cache, for every set of groups, readers and      *)
(* writers and for every limit.  The argument is FreshnessInv: a load that *)
(* is still current has read nothing older than the group's last           *)
(* invalidation, because every invalidation raises the generation (or the  *)
(* epoch) that the load compares before it stores.  The accounts of the    *)
(* cache need what Total and Without return for every list, by induction   *)
(* on how much of the list they have gone through.                         *)
(***************************************************************************)
EXTENDS TodayCache, FiniteSetTheorems, WellFoundedInduction, TLAPS

LEMMA IdleLocalType == IdleLocal \in Local
BY ConstantsAssumption DEF IdleLocal, Local, NoVersion, Version, Days

\* The initial state satisfies the inductive invariant.
LEMMA FreshnessInit == Init => FreshnessInv
<1> SUFFICES ASSUME Init PROVE FreshnessInv
  OBVIOUS
<1> USE ConstantsAssumption, IdleLocalType
<1>0. DOMAIN entries = {}
  BY DEF Init
<1>1. TypeOK
  <2>1. db \in [Groups -> Version] /\ settled \in [Groups -> Version]
    BY DEF Init, Version, NoVersion
  <2>2. day \in Days /\ maint \in MaintState
    BY DEF Init, MaintState, Days
  <2> QED
    BY <1>0, <2>1, <2>2 DEF Init, TypeOK
<1>2. SettledIsCommitted /\ FreshCache /\ ReadsAcknowledgedWrites
  BY <1>0 DEF Init, SettledIsCommitted, FreshCache, ReadsAcknowledgedWrites, AtLeast, NoVersion
<1>3. \A p \in Procs : LoadIsFresh(p)
  BY <1>1 DEF Init, LoadIsFresh, IdleLocal, AtLeast, NoVersion
<1> QED
  BY <1>1, <1>2, <1>3 DEF FreshnessInv

-----------------------------------------------------------------------------
(* Type correctness *)

LEMMA CallType ==
    ASSUME TypeOK, NEW p \in Procs, NEW g \in Groups, NEW d \in Days, NEW now \in Days,
           Call(p, g, d, now)
    PROVE  proc' \in [Procs -> Local]
<1>1. [pc |-> IF d = now THEN "get" ELSE "settings", group |-> g, date |-> d,
       now |-> now, cached |-> d = now, epoch |-> 0, gen |-> 0,
       settings |-> 0, week |-> 0, floor |-> settled[g]] \in Local
  BY DEF TypeOK, Local
<1> QED
  BY <1>1 DEF Call, TypeOK

LEMMA ClearType == ASSUME TypeOK, Clear
                   PROVE  /\ DOMAIN entries' = {}
                          /\ epoch' \in Nat /\ gen' \in [Groups -> Nat]
                          /\ settled' \in [Groups -> Version]
BY DEF Clear, TypeOK

LEMMA InvalidateType == ASSUME TypeOK, NEW g \in Groups, InvalidateGroup(g)
                        PROVE  /\ DOMAIN entries' \subseteq DOMAIN entries
                               /\ \A k \in DOMAIN entries' : entries'[k] = entries[k] /\ k[1] # g
                               /\ epoch' \in Nat /\ gen' \in [Groups -> Nat]
                               /\ settled' \in [Groups -> Version]
BY DEF InvalidateGroup, TypeOK

LEMMA VersionBump == ASSUME NEW v \in Version
                     PROVE  /\ [v EXCEPT !.settings = v.settings + 1] \in Version
                            /\ [v EXCEPT !.week = v.week + 1] \in Version
                            /\ AtLeast(v, v)
                            /\ AtLeast([v EXCEPT !.settings = v.settings + 1], v)
                            /\ AtLeast([v EXCEPT !.week = v.week + 1], v)
<1>1. v.settings \in Nat /\ v.week \in Nat /\ v.settings + 1 \in Nat /\ v.week + 1 \in Nat
  BY DEF Version
<1>2. /\ [v EXCEPT !.settings = v.settings + 1].settings = v.settings + 1
      /\ [v EXCEPT !.settings = v.settings + 1].week = v.week
      /\ [v EXCEPT !.week = v.week + 1].week = v.week + 1
      /\ [v EXCEPT !.week = v.week + 1].settings = v.settings
  BY DEF Version
<1>3. /\ AtLeast(v, v) /\ AtLeast([v EXCEPT !.settings = v.settings + 1], v)
      /\ AtLeast([v EXCEPT !.week = v.week + 1], v)
  BY <1>1, <1>2 DEF AtLeast
<1> QED
  BY <1>1, <1>3 DEF Version

\* Every step keeps every variable in its type.
LEMMA TypeStep == TypeOK /\ [Next]_vars => TypeOK'
<1> SUFFICES ASSUME TypeOK, [Next]_vars PROVE TypeOK'
  OBVIOUS
<1> USE ConstantsAssumption, IdleLocalType DEF cacheVars
<1>1. ASSUME NEW p \in Procs, handleToday(p) PROVE TypeOK'
  BY <1>1, CallType DEF handleToday, TypeOK, Days
<1>2. ASSUME NEW p \in Procs, get(p) PROVE TypeOK'
  <2>0. [proc[p] EXCEPT !.pc = "capture"] \in Local
    BY DEF TypeOK, Local
  <2>1. proc' \in [Procs -> Local] /\ stale' \subseteq Procs
    <3>1. CASE Step(p, "capture") /\ UNCHANGED stale
      BY <2>0, <3>1 DEF Step, TypeOK
    <3>2. CASE Answer(p, entries[Key(p)])
      BY <3>2 DEF Answer, TypeOK
    <3> QED
      BY <1>2, <3>1, <3>2 DEF get
  <2>2. /\ DOMAIN entries' \subseteq DOMAIN entries
        /\ \A k \in DOMAIN entries' : entries'[k] = entries[k]
    BY <1>2 DEF get, removeLocked
  <2> QED
    BY <1>2, <2>1, <2>2 DEF get, TypeOK
<1>3. ASSUME NEW p \in Procs, Capture(p) \/ LoadSettings(p) PROVE TypeOK'
  <2>0. proc[p] \in Local /\ proc[p].group \in Groups
    BY DEF TypeOK, Local
  <2>1. CASE Capture(p)
    <3>1. [proc[p] EXCEPT !.pc = "settings", !.epoch = epoch, !.gen = gen[proc[p].group]] \in Local
      BY <2>0 DEF TypeOK, Local
    <3> QED
      BY <2>1, <3>1 DEF Capture, TypeOK
  <2>2. CASE LoadSettings(p)
    <3>1. [proc[p] EXCEPT !.pc = "week", !.settings = db[proc[p].group].settings] \in Local
      BY <2>0 DEF TypeOK, Local, Version
    <3> QED
      BY <2>2, <3>1 DEF LoadSettings, TypeOK
  <2> QED
    BY <1>3, <2>1, <2>2
<1>4. ASSUME NEW p \in Procs, LoadWeek(p) \/ LoadFails(p) PROVE TypeOK'
  <2>0. [proc[p] EXCEPT !.pc = "store", !.week = db[proc[p].group].week] \in Local
    BY DEF TypeOK, Local, Version
  <2>1. proc' \in [Procs -> Local] /\ stale' \subseteq Procs
    <3>1. CASE LoadWeek(p) /\ proc[p].cached
      BY <2>0, <3>1 DEF LoadWeek, TypeOK
    <3>2. CASE LoadWeek(p) /\ ~proc[p].cached
      BY <3>2 DEF LoadWeek, Answer, TypeOK
    <3>3. CASE LoadFails(p)
      BY <3>3 DEF LoadFails, TypeOK
    <3> QED
      BY <1>4, <3>1, <3>2, <3>3
  <2> QED
    BY <1>4, <2>1 DEF LoadWeek, LoadFails, TypeOK
<1>5. ASSUME NEW p \in Procs, store(p) PROVE TypeOK'
  <2>1. proc' \in [Procs -> Local] /\ stale' \subseteq Procs
    BY <1>5 DEF store, Answer, TypeOK
  <2>2. DOMAIN entries' \subseteq Keys /\ \A k \in DOMAIN entries' : entries'[k] \in Entry
    <3>1. CASE UNCHANGED entries
      BY <3>1 DEF TypeOK
    <3>2. ASSUME NEW s \in Sizes,
                 insertLocked(Key(p), [settings |-> proc[p].settings, week |-> proc[p].week,
                    size |-> s, expiresAt |-> proc[p].now + 1, intact |-> TRUE])
          PROVE  DOMAIN entries' \subseteq Keys /\ \A k \in DOMAIN entries' : entries'[k] \in Entry
      <4>1. Key(p) \in Keys
        BY DEF Key, Keys, TypeOK, Local
      <4>2. [settings |-> proc[p].settings, week |-> proc[p].week, size |-> s,
             expiresAt |-> proc[p].now + 1, intact |-> TRUE] \in Entry
        BY SMTT(40) DEF TypeOK, Local, Entry, Days
      <4> QED
        BY <3>2, <4>1, <4>2 DEF insertLocked, TypeOK
    <3> QED
      BY <1>5, <3>1, <3>2 DEF store
  <2> QED
    BY <1>5, <2>1, <2>2 DEF store, TypeOK
<1>6. ASSUME NEW k \in Keys, CorruptEntry(k) PROVE TypeOK'
  <2>1. entries[k] \in Entry
    BY <1>6 DEF CorruptEntry, TypeOK
  <2>2. DOMAIN entries' = DOMAIN entries /\ \A j \in DOMAIN entries' : entries'[j] \in Entry
    BY <1>6, <2>1 DEF CorruptEntry, TypeOK, Entry
  <2>3. events' \in Nat
    BY <1>6 DEF CorruptEntry, TypeOK
  <2> QED
    BY <1>6, <2>2, <2>3 DEF CorruptEntry, TypeOK
<1>7. ASSUME NEW g \in Groups, NEW w \in Writers, SaveSettings(w, g) \/ SaveWeek(w, g)
      PROVE  TypeOK'
  <2>1. db' \in [Groups -> Version]
    <3>1. /\ [db[g] EXCEPT !.settings = db[g].settings + 1] \in Version
          /\ [db[g] EXCEPT !.week = db[g].week + 1] \in Version
      BY VersionBump DEF TypeOK
    <3> QED
      BY <1>7, <3>1 DEF SaveSettings, SaveWeek, TypeOK
  <2>2. events' \in Nat
    BY <1>7 DEF SaveSettings, SaveWeek, TypeOK
  <2>3. writer' \in [Writers -> Groups \cup {"idle", "all"}]
    BY <1>7 DEF SaveSettings, SaveWeek, TypeOK
  <2> QED
    BY <1>7, <2>1, <2>2, <2>3 DEF SaveSettings, SaveWeek, TypeOK
<1>8. ASSUME NEW w \in Writers, SaveAsset(w) PROVE TypeOK'
  <2>1. db' \in [Groups -> Version]
    <3>1. \A g \in Groups : [db[g] EXCEPT !.week = db[g].week + 1] \in Version
      BY VersionBump DEF TypeOK
    <3> QED
      BY <1>8, <3>1 DEF SaveAsset
  <2> QED
    BY <1>8, <2>1 DEF SaveAsset, TypeOK
<1>9. ASSUME NEW g \in Groups, NEW w \in Writers, refreshTodayContent(w, g) PROVE TypeOK'
  <2>1. chan' \in Seq(Groups)
    BY <1>9 DEF refreshTodayContent, TypeOK
  <2>2. /\ DOMAIN entries' \subseteq DOMAIN entries
        /\ \A k \in DOMAIN entries' : entries'[k] = entries[k]
        /\ epoch' \in Nat /\ gen' \in [Groups -> Nat] /\ settled' \in [Groups -> Version]
    BY <1>9, InvalidateType DEF refreshTodayContent
  <2> QED
    BY <1>9, <2>1, <2>2 DEF refreshTodayContent, TypeOK
<1>10. ASSUME NEW w \in Writers, ClearAfterAsset(w) PROVE TypeOK'
  BY <1>10, ClearType DEF ClearAfterAsset, TypeOK
<1>11. ASSUME NEW g \in Groups, handleClearTodayCache(g) PROVE TypeOK'
  <2>1. /\ DOMAIN entries' \subseteq DOMAIN entries
        /\ \A k \in DOMAIN entries' : entries'[k] = entries[k]
        /\ epoch' \in Nat /\ gen' \in [Groups -> Nat] /\ settled' \in [Groups -> Version]
    BY <1>11, InvalidateType DEF handleClearTodayCache
  <2> QED
    BY <1>11, <2>1 DEF handleClearTodayCache, TypeOK
<1>12. CASE Midnight
  BY <1>12 DEF Midnight, TypeOK, Days
<1>13. CASE activeStudyGroupIDs \/ ResetTimer
  <2>1. \A ids \in SUBSET Groups : [maint EXCEPT !.mode = "warm", !.left = ids] \in MaintState
    BY DEF TypeOK, MaintState
  <2>2. [maint EXCEPT !.mode = "select", !.timer = day + 1] \in MaintState
    <3>1. day + 1 \in 0..(MaxDay + 1)
      BY DEF TypeOK, Days
    <3> QED
      BY <3>1 DEF TypeOK, MaintState
  <2>3. maint' \in MaintState
    BY <1>13, <2>1, <2>2 DEF activeStudyGroupIDs, ResetTimer
  <2> QED
    BY <1>13, <2>3 DEF activeStudyGroupIDs, ResetTimer, TypeOK
<1>14. ASSUME NEW g \in Groups, prewarmTodayGroup(g) PROVE TypeOK'
  <2>1. maint' \in MaintState /\ maint.now \in Days
    BY <1>14 DEF prewarmTodayGroup, TypeOK, MaintState
  <2>2. proc' \in [Procs -> Local]
    BY <1>14, <2>1, CallType DEF prewarmTodayGroup, Procs
  <2> QED
    BY <1>14, <2>1, <2>2 DEF prewarmTodayGroup, TypeOK
<1>15. CASE MaintainerTick
  <2>1. maint' \in MaintState
    <3>1. maint.timer \in Days
      BY <1>15 DEF MaintainerTick, TypeOK, MaintState, Days
    <3>2. [maint EXCEPT !.mode = "list", !.now = maint.timer] \in MaintState
      BY <3>1 DEF TypeOK, MaintState
    <3> QED
      BY <1>15, <3>2 DEF MaintainerTick
  <2> QED
    BY <1>15, <2>1, ClearType DEF MaintainerTick, TypeOK
<1>16. CASE MaintainerRefresh
  <2>1. Head(chan) \in Groups /\ chan' \in Seq(Groups)
    BY <1>16 DEF MaintainerRefresh, TypeOK
  <2>2. proc' \in [Procs -> Local]
    BY <1>16, <2>1, CallType DEF MaintainerRefresh, Procs, TypeOK
  <2> QED
    BY <1>16, <2>1, <2>2 DEF MaintainerRefresh, TypeOK
<1>17. CASE UNCHANGED vars
  BY <1>17 DEF vars, TypeOK
<1> QED
  BY <1>1, <1>2, <1>3, <1>4, <1>5, <1>6, <1>7, <1>8, <1>9, <1>10, <1>11, <1>12, <1>13,
     <1>14, <1>15, <1>16, <1>17 DEF Next, Load, Write, Maintenance

-----------------------------------------------------------------------------
(* Freshness *)

LEMMA LocalFields ==
    ASSUME TypeOK, NEW p \in Procs
    PROVE  /\ proc[p].group \in Groups /\ proc[p].floor \in Version
           /\ proc[p].epoch \in Nat /\ proc[p].gen \in Nat
           /\ proc[p].settings \in Nat /\ proc[p].week \in Nat /\ proc[p].cached \in BOOLEAN
           /\ proc[p].floor.settings \in Nat /\ proc[p].floor.week \in Nat
           /\ settled[proc[p].group].settings \in Nat /\ settled[proc[p].group].week \in Nat
           /\ db[proc[p].group].settings \in Nat /\ db[proc[p].group].week \in Nat
           /\ epoch \in Nat /\ gen[proc[p].group] \in Nat
BY DEF TypeOK, Local, Version

LEMMA AtLeastTransitive ==
    ASSUME NEW u \in Version, NEW v \in Version, NEW w \in Version,
           AtLeast(u, v), AtLeast(v, w)
    PROVE  AtLeast(u, w)
BY DEF AtLeast, Version

\* A step that moves one goroutine and invalidates nothing leaves the loads of
\* the others as fresh as they were.
LEMMA OtherLoadsStayFresh ==
    ASSUME FreshnessInv, NEW p \in Procs, UNCHANGED <<settled, epoch, gen>>,
           \A q \in Procs \ {p} : proc'[q] = proc[q]
    PROVE  \A q \in Procs \ {p} : LoadIsFresh(q)'
BY DEF FreshnessInv, LoadIsFresh, LoadIsCurrent, AtLeast

LEMMA IdleIsFresh ==
    ASSUME TypeOK', NEW p \in Procs, proc'[p] = IdleLocal
    PROVE  LoadIsFresh(p)'
<1>1. settled'[IdleLocal.group] \in Version
  BY IdleLocalType DEF TypeOK, Local
<1> QED
  BY <1>1 DEF LoadIsFresh, IdleLocal, AtLeast, NoVersion, Version

\* An invalidation overtakes the loads of the groups it settles.
LEMMA InvalidationOvertakes ==
    ASSUME FreshnessInv, TypeOK', UNCHANGED proc, epoch' >= epoch,
           \A g \in Groups : /\ AtLeast(settled'[g], settled[g]) /\ gen'[g] >= gen[g]
                             /\ settled'[g] = settled[g] \/ epoch' > epoch \/ gen'[g] > gen[g]
    PROVE  \A p \in Procs : LoadIsFresh(p)'
<1> SUFFICES ASSUME NEW p \in Procs PROVE LoadIsFresh(p)'
  OBVIOUS
<1> DEFINE g == proc[p].group
<1>1. TypeOK /\ LoadIsFresh(p)
  BY DEF FreshnessInv
<1>2. /\ g \in Groups /\ proc[p].floor \in Version
      /\ settled[g] \in Version /\ settled'[g] \in Version
      /\ epoch \in Nat /\ epoch' \in Nat /\ gen[g] \in Nat /\ gen'[g] \in Nat
      /\ proc[p].epoch \in Nat /\ proc[p].gen \in Nat
  BY <1>1 DEF TypeOK, Local
<1>3. AtLeast(settled'[g], proc[p].floor)
  BY <1>1, <1>2, AtLeastTransitive DEF LoadIsFresh
<1>4. ASSUME proc[p].cached, proc[p].pc \in {"settings", "week", "store"}
      PROVE  /\ proc[p].epoch <= epoch' /\ proc[p].gen <= gen'[g]
             /\ (LoadIsCurrent(p))' => settled'[g] = settled[g] /\ LoadIsCurrent(p)
  <2>1. proc[p].epoch <= epoch /\ proc[p].gen <= gen[g]
    BY <1>1, <1>4 DEF LoadIsFresh
  <2> QED
    BY <1>2, <2>1 DEF LoadIsCurrent
<1> QED
  BY <1>1, <1>3, <1>4 DEF LoadIsFresh

LEMMA ClearIsFresh ==
    ASSUME FreshnessInv, Clear, UNCHANGED <<db, proc, stale>>, TypeOK'
    PROVE  FreshnessInv'
<1>1. DOMAIN entries' = {}
  BY ClearType DEF FreshnessInv
<1>2. SettledIsCommitted' /\ FreshCache' /\ ReadsAcknowledgedWrites'
  <2>1. \A g \in Groups : settled'[g] = db'[g] /\ db'[g] \in Version
    BY DEF Clear, FreshnessInv, TypeOK
  <2> QED
    BY <1>1, <2>1 DEF SettledIsCommitted, FreshCache, ReadsAcknowledgedWrites, FreshnessInv,
                      AtLeast, Version
<1>3. \A p \in Procs : LoadIsFresh(p)'
  <2>1. epoch' > epoch /\ epoch' >= epoch
    BY DEF Clear, FreshnessInv, TypeOK
  <2>2. \A g \in Groups : AtLeast(settled'[g], settled[g]) /\ gen'[g] >= gen[g]
    BY DEF Clear, FreshnessInv, SettledIsCommitted, TypeOK
  <2> QED
    BY <2>1, <2>2, InvalidationOvertakes
<1> QED
  BY <1>2, <1>3 DEF FreshnessInv

LEMMA InvalidateIsFresh ==
    ASSUME FreshnessInv, NEW g \in Groups, InvalidateGroup(g), UNCHANGED <<db, proc, stale>>,
           TypeOK'
    PROVE  FreshnessInv'
<1>0. TypeOK /\ SettledIsCommitted /\ FreshCache
  BY DEF FreshnessInv
<1>1. /\ settled'[g] = db[g] /\ gen'[g] = gen[g] + 1
      /\ \A h \in Groups \ {g} : settled'[h] = settled[h] /\ gen'[h] = gen[h]
      /\ \A h \in Groups : gen[h] \in Nat /\ db[h] \in Version /\ settled[h] \in Version
  BY <1>0 DEF InvalidateGroup, TypeOK
<1>5. \A h \in Groups : AtLeast(db[h], db[h]) /\ AtLeast(settled[h], settled[h])
  BY <1>1 DEF AtLeast, Version
<1>2. SettledIsCommitted'
  BY <1>0, <1>1, <1>5 DEF SettledIsCommitted
<1>3. FreshCache'
  <2> SUFFICES ASSUME NEW k \in DOMAIN entries' PROVE AtLeast(entries'[k], settled'[k[1]])
    BY DEF FreshCache
  <2>1. k \in DOMAIN entries /\ entries'[k] = entries[k] /\ k[1] # g
    BY <1>0, InvalidateType
  <2>2. k[1] \in Groups
    BY <1>0, <2>1 DEF TypeOK, Keys
  <2> QED
    BY <1>0, <1>1, <2>1, <2>2 DEF FreshCache
<1>4. \A p \in Procs : LoadIsFresh(p)'
  <2>1. epoch' >= epoch
    BY <1>0 DEF InvalidateGroup, TypeOK
  <2>2. \A h \in Groups : /\ AtLeast(settled'[h], settled[h]) /\ gen'[h] >= gen[h]
                          /\ settled'[h] = settled[h] \/ gen'[h] > gen[h]
    BY <1>0, <1>1, <1>5 DEF SettledIsCommitted
  <2> QED
    BY <2>1, <2>2, InvalidationOvertakes
<1> QED
  BY <1>2, <1>3, <1>4 DEF FreshnessInv, ReadsAcknowledgedWrites

\* A step that moves goroutine p only keeps the invariant when p's load is
\* fresh after it.
LEMMA LoadStep ==
    ASSUME FreshnessInv, NEW p \in Procs, UNCHANGED <<db, settled, epoch, gen, stale>>,
           \A q \in Procs \ {p} : proc'[q] = proc[q],
           TypeOK', FreshCache', LoadIsFresh(p)'
    PROVE  FreshnessInv'
<1>1. \A q \in Procs : LoadIsFresh(q)'
  BY OtherLoadsStayFresh
<1>2. SettledIsCommitted' /\ ReadsAcknowledgedWrites'
  BY DEF FreshnessInv, SettledIsCommitted, ReadsAcknowledgedWrites
<1> QED
  BY <1>1, <1>2 DEF FreshnessInv

\* Storing an entry leaves, of the other entries, some as they were.
LEMMA InsertShape ==
    ASSUME NEW k, NEW e, insertLocked(k, e)
    PROVE  \A j \in DOMAIN entries' : \/ j \in DOMAIN entries /\ entries'[j] = entries[j]
                                      \/ j = k /\ entries'[j] = e
<1> DEFINE added == [j \in DOMAIN entries \cup {k} |-> IF j = k THEN e ELSE entries[j]]
<1>1. PICK D : entries' = [j \in DOMAIN added \ D |-> added[j]]
  BY Zenon DEF insertLocked
<1>2. \A j \in DOMAIN entries' : j \in DOMAIN added /\ entries'[j] = added[j]
  BY <1>1
<1>3. \A j \in DOMAIN added : \/ j \in DOMAIN entries /\ added[j] = entries[j]
                              \/ j = k /\ added[j] = e
  OBVIOUS
<1> QED
  BY <1>2, <1>3

LEMMA CallIsFresh ==
    ASSUME FreshnessInv, NEW p \in Procs, NEW g \in Groups, NEW d, NEW now, Call(p, g, d, now),
           UNCHANGED <<db, entries, settled, epoch, gen, stale>>, TypeOK'
    PROVE  FreshnessInv'
<1>1. /\ proc'[p].group = g /\ proc'[p].floor = settled[g]
      /\ proc'[p].pc = (IF d = now THEN "get" ELSE "settings")
      /\ proc'[p].cached = (d = now)
      /\ \A q \in Procs \ {p} : proc'[q] = proc[q]
  BY DEF Call, FreshnessInv, TypeOK
<1>2. AtLeast(settled'[g], settled[g])
  BY DEF FreshnessInv, TypeOK, AtLeast, Version
<1>3. LoadIsFresh(p)'
  BY <1>1, <1>2 DEF LoadIsFresh
<1> QED
  BY <1>1, <1>3, LoadStep DEF FreshnessInv, FreshCache

\* Every step keeps the inductive invariant.
LEMMA FreshnessStep == FreshnessInv /\ [Next]_vars => FreshnessInv'
<1> SUFFICES ASSUME FreshnessInv, [Next]_vars PROVE FreshnessInv'
  OBVIOUS
<1>0. TypeOK /\ TypeOK'
  BY TypeStep DEF FreshnessInv
<1> USE DEF cacheVars
<1>1. ASSUME NEW p \in Procs, handleToday(p) PROVE FreshnessInv'
  BY <1>0, <1>1, CallIsFresh DEF handleToday
<1>2. ASSUME NEW p \in Procs, get(p) PROVE FreshnessInv'
  <2>0. LoadIsFresh(p) /\ proc[p].pc = "get"
    BY <1>2 DEF FreshnessInv, get
  <2>1. CASE Step(p, "capture") /\ UNCHANGED stale
    <3>1. /\ proc'[p] = [proc[p] EXCEPT !.pc = "capture"]
          /\ \A q \in Procs \ {p} : proc'[q] = proc[q]
      BY <1>0, <2>1 DEF Step, TypeOK
    <3>2. /\ proc'[p].group = proc[p].group /\ proc'[p].floor = proc[p].floor
          /\ proc'[p].pc = "capture" /\ proc'[p].cached = proc[p].cached
      BY <1>0, <3>1 DEF TypeOK, Local
    <3>3. LoadIsFresh(p)'
      BY <1>2, <2>0, <3>2 DEF LoadIsFresh, AtLeast, get
    <3>4. FreshCache'
      <4>1. /\ DOMAIN entries' \subseteq DOMAIN entries
            /\ \A k \in DOMAIN entries' : entries'[k] = entries[k]
        BY <1>2 DEF get, removeLocked
      <4> QED
        BY <1>2, <4>1 DEF get, FreshnessInv, FreshCache
    <3> QED
      BY <1>0, <1>2, <2>1, <3>1, <3>3, <3>4, LoadStep DEF get
  <2>2. CASE Answer(p, entries[Key(p)]) /\ Key(p) \in DOMAIN entries /\ UNCHANGED entries
    <3>1. proc'[p] = IdleLocal /\ \A q \in Procs \ {p} : proc'[q] = proc[q]
      BY <1>0, <2>2 DEF Answer, TypeOK
    <3>2. UNCHANGED stale
      <4>1. AtLeast(entries[Key(p)], settled[proc[p].group])
        BY <2>2 DEF FreshnessInv, FreshCache, Key
      <4>2. AtLeast(settled[proc[p].group], proc[p].floor)
        BY <2>0 DEF LoadIsFresh
      <4>3. AtLeast(entries[Key(p)], proc[p].floor)
        <5>1. entries[Key(p)].settings \in Nat /\ entries[Key(p)].week \in Nat
          BY <1>0, <2>2 DEF TypeOK, Entry
        <5>2. /\ settled[proc[p].group].settings \in Nat /\ settled[proc[p].group].week \in Nat
              /\ proc[p].floor.settings \in Nat /\ proc[p].floor.week \in Nat
          BY <1>0, LocalFields
        <5> QED
          BY <4>1, <4>2, <5>1, <5>2 DEF AtLeast
      <4> QED
        BY <2>2, <4>3 DEF Answer
    <3> QED
      BY <1>0, <1>2, <2>2, <3>1, <3>2, LoadStep, IdleIsFresh DEF get, FreshnessInv, FreshCache
  <2> QED
    BY <1>2, <2>1, <2>2 DEF get
<1>3. ASSUME NEW p \in Procs, Capture(p) PROVE FreshnessInv'
  <2>0. LoadIsFresh(p)
    BY DEF FreshnessInv
  <2>1. /\ proc'[p] = [proc[p] EXCEPT !.pc = "settings", !.epoch = epoch,
                                        !.gen = gen[proc[p].group]]
        /\ \A q \in Procs \ {p} : proc'[q] = proc[q]
    BY <1>0, <1>3 DEF Capture, TypeOK
  <2>2. /\ proc'[p].group = proc[p].group /\ proc'[p].floor = proc[p].floor
        /\ proc'[p].pc = "settings" /\ proc'[p].epoch = epoch
        /\ proc'[p].gen = gen[proc[p].group]
    BY <1>0, <2>1 DEF TypeOK, Local
  <2>3. LoadIsFresh(p)'
    BY <1>0, <1>3, <2>0, <2>2, LocalFields DEF LoadIsFresh, AtLeast, Capture
  <2> QED
    BY <1>0, <1>3, <2>1, <2>3, LoadStep DEF Capture, FreshnessInv, FreshCache
<1>4. ASSUME NEW p \in Procs, LoadSettings(p) PROVE FreshnessInv'
  <2>0. LoadIsFresh(p) /\ AtLeast(db[proc[p].group], settled[proc[p].group])
    BY <1>0, LocalFields DEF FreshnessInv, SettledIsCommitted
  <2>1. /\ proc'[p] = [proc[p] EXCEPT !.pc = "week", !.settings = db[proc[p].group].settings]
        /\ \A q \in Procs \ {p} : proc'[q] = proc[q]
    BY <1>0, <1>4 DEF LoadSettings, TypeOK
  <2>2. /\ proc'[p].group = proc[p].group /\ proc'[p].floor = proc[p].floor
        /\ proc'[p].pc = "week" /\ proc'[p].settings = db[proc[p].group].settings
        /\ proc'[p].epoch = proc[p].epoch /\ proc'[p].gen = proc[p].gen
        /\ proc'[p].cached = proc[p].cached
    BY <1>0, <2>1 DEF TypeOK, Local
  <2>3. LoadIsFresh(p)'
    BY <1>0, <1>4, <2>0, <2>2, LocalFields, SMTT(40) DEF LoadIsFresh, LoadIsCurrent, AtLeast, LoadSettings
  <2> QED
    BY <1>0, <1>4, <2>1, <2>3, LoadStep DEF LoadSettings, FreshnessInv, FreshCache
<1>5. ASSUME NEW p \in Procs, LoadWeek(p) PROVE FreshnessInv'
  <2>0. LoadIsFresh(p) /\ AtLeast(db[proc[p].group], settled[proc[p].group])
    BY <1>0, LocalFields DEF FreshnessInv, SettledIsCommitted
  <2>1. CASE proc[p].cached
    <3>1. /\ proc'[p] = [proc[p] EXCEPT !.pc = "store", !.week = db[proc[p].group].week]
          /\ \A q \in Procs \ {p} : proc'[q] = proc[q]
      BY <1>0, <1>5, <2>1 DEF LoadWeek, TypeOK
    <3>2. /\ proc'[p].group = proc[p].group /\ proc'[p].floor = proc[p].floor
          /\ proc'[p].pc = "store" /\ proc'[p].week = db[proc[p].group].week
          /\ proc'[p].settings = proc[p].settings
          /\ proc'[p].epoch = proc[p].epoch /\ proc'[p].gen = proc[p].gen
          /\ proc'[p].cached = proc[p].cached
      BY <1>0, <3>1 DEF TypeOK, Local
    <3>3. LoadIsFresh(p)'
      BY <1>0, <1>5, <2>0, <2>1, <3>2, LocalFields, SMTT(40)
         DEF LoadIsFresh, LoadIsCurrent, AtLeast, LoadWeek
    <3> QED
      BY <1>0, <1>5, <2>1, <3>1, <3>3, LoadStep DEF LoadWeek, FreshnessInv, FreshCache
  <2>2. CASE ~proc[p].cached
    <3>1. proc'[p] = IdleLocal /\ \A q \in Procs \ {p} : proc'[q] = proc[q]
      BY <1>0, <1>5, <2>2 DEF LoadWeek, Answer, TypeOK
    <3>2. AtLeast([settings |-> proc[p].settings, week |-> db[proc[p].group].week],
                  proc[p].floor)
      BY <1>0, <1>5, <2>0, LocalFields DEF LoadIsFresh, AtLeast, LoadWeek
    <3>3. UNCHANGED stale
      BY <1>5, <2>2, <3>2 DEF LoadWeek, Answer
    <3> QED
      BY <1>0, <1>5, <3>1, <3>3, LoadStep, IdleIsFresh DEF LoadWeek, FreshnessInv, FreshCache
  <2> QED
    BY <2>1, <2>2
<1>6. ASSUME NEW p \in Procs, LoadFails(p) PROVE FreshnessInv'
  <2>1. proc'[p] = IdleLocal /\ \A q \in Procs \ {p} : proc'[q] = proc[q]
    BY <1>0, <1>6 DEF LoadFails, TypeOK
  <2> QED
    BY <1>0, <1>6, <2>1, LoadStep, IdleIsFresh DEF LoadFails, FreshnessInv, FreshCache
<1>7. ASSUME NEW p \in Procs, store(p) PROVE FreshnessInv'
  <2>0. LoadIsFresh(p) /\ proc[p].pc = "store" /\ proc[p].cached
    BY <1>7 DEF FreshnessInv, store, LoadIsFresh
  <2>1. proc'[p] = IdleLocal /\ \A q \in Procs \ {p} : proc'[q] = proc[q]
    BY <1>0, <1>7 DEF store, Answer, TypeOK
  <2>2. UNCHANGED stale
    <3>1. AtLeast(proc[p], proc[p].floor)
      BY <2>0 DEF LoadIsFresh, AtLeast
    <3> QED
      BY <1>7, <3>1 DEF store, Answer
  <2>3. FreshCache'
    <3>1. CASE UNCHANGED entries
      BY <1>7, <3>1 DEF store, FreshnessInv, FreshCache
    <3>2. ASSUME NEW size, LoadIsCurrent(p),
                 insertLocked(Key(p), [settings |-> proc[p].settings, week |-> proc[p].week,
                    size |-> size, expiresAt |-> proc[p].now + 1, intact |-> TRUE])
          PROVE  FreshCache'
      <4> DEFINE e == [settings |-> proc[p].settings, week |-> proc[p].week,
                       size |-> size, expiresAt |-> proc[p].now + 1, intact |-> TRUE]
      <4>1. \A k \in DOMAIN entries' :
               (k \in DOMAIN entries /\ entries'[k] = entries[k]) \/ (k = Key(p) /\ entries'[k] = e)
        BY <3>2, InsertShape
      <4>2. AtLeast(e, settled[proc[p].group])
        BY <2>0, <3>2 DEF LoadIsFresh, AtLeast
      <4>3. Key(p)[1] = proc[p].group /\ UNCHANGED settled
        BY <1>7 DEF Key, store
      <4> QED
        BY <4>1, <4>2, <4>3 DEF FreshnessInv, FreshCache
    <3> QED
      BY <1>7, <3>1, <3>2 DEF store
  <2> QED
    BY <1>0, <1>7, <2>1, <2>2, <2>3, LoadStep, IdleIsFresh DEF store
<1>8. ASSUME NEW k \in Keys, CorruptEntry(k) PROVE FreshnessInv'
  <2>1. /\ DOMAIN entries' = DOMAIN entries
        /\ \A j \in DOMAIN entries : /\ entries'[j].settings = entries[j].settings
                                     /\ entries'[j].week = entries[j].week
    BY <1>0, <1>8 DEF CorruptEntry, TypeOK, Entry
  <2>2. FreshCache'
    BY <1>8, <2>1 DEF CorruptEntry, FreshnessInv, FreshCache, AtLeast
  <2> QED
    BY <1>0, <1>8, <2>2 DEF CorruptEntry, FreshnessInv, SettledIsCommitted,
       ReadsAcknowledgedWrites, LoadIsFresh, LoadIsCurrent, AtLeast
<1>9. ASSUME NEW w \in Writers,
             SaveAsset(w) \/ \E g \in Groups : SaveSettings(w, g) \/ SaveWeek(w, g)
      PROVE  FreshnessInv'
  <2>1. UNCHANGED <<entries, settled, epoch, gen, proc, stale>>
    BY <1>9 DEF SaveAsset, SaveSettings, SaveWeek
  <2>2. \A g \in Groups : AtLeast(db'[g], db[g]) /\ settled[g] \in Version
                          /\ db[g] \in Version /\ db'[g] \in Version
    <3>1. \A g \in Groups : db[g] \in Version /\ db'[g] \in Version /\ settled[g] \in Version
      BY <1>0 DEF TypeOK
    <3>2. CASE SaveAsset(w)
      BY <3>1, <3>2, VersionBump DEF SaveAsset
    <3>3. ASSUME NEW g \in Groups, SaveSettings(w, g) \/ SaveWeek(w, g)
          PROVE  \A h \in Groups : AtLeast(db'[h], db[h])
      <4>1. db' = [db EXCEPT ![g] = [db[g] EXCEPT !.settings = db[g].settings + 1]]
            \/ db' = [db EXCEPT ![g] = [db[g] EXCEPT !.week = db[g].week + 1]]
        BY <3>3 DEF SaveSettings, SaveWeek
      <4> QED
        BY <1>0, <3>1, <4>1, VersionBump DEF TypeOK
    <3> QED
      BY <1>9, <3>1, <3>2, <3>3
  <2>3. SettledIsCommitted'
    BY <2>1, <2>2, AtLeastTransitive DEF FreshnessInv, SettledIsCommitted
  <2> QED
    BY <1>0, <2>1, <2>3 DEF FreshnessInv, FreshCache, ReadsAcknowledgedWrites, LoadIsFresh,
       LoadIsCurrent, AtLeast
<1>10. ASSUME NEW w \in Writers, NEW g \in Groups, refreshTodayContent(w, g) PROVE FreshnessInv'
  BY <1>0, <1>10, InvalidateIsFresh DEF refreshTodayContent
<1>11. ASSUME NEW g \in Groups, handleClearTodayCache(g) PROVE FreshnessInv'
  BY <1>0, <1>11, InvalidateIsFresh DEF handleClearTodayCache
<1>12. ASSUME NEW w \in Writers, ClearAfterAsset(w) PROVE FreshnessInv'
  BY <1>0, <1>12, ClearIsFresh DEF ClearAfterAsset
<1>13. CASE MaintainerTick
  BY <1>0, <1>13, ClearIsFresh DEF MaintainerTick
<1>14. ASSUME NEW g \in Groups, prewarmTodayGroup(g) PROVE FreshnessInv'
  BY <1>0, <1>14, CallIsFresh DEF prewarmTodayGroup, Procs
<1>15. CASE MaintainerRefresh
  <2>1. Head(chan) \in Groups
    BY <1>0, <1>15 DEF MaintainerRefresh, TypeOK
  <2> QED
    BY <1>0, <1>15, <2>1, CallIsFresh DEF MaintainerRefresh, Procs
<1>16. CASE Midnight \/ activeStudyGroupIDs \/ ResetTimer \/ UNCHANGED vars
  <2>1. UNCHANGED <<db, entries, settled, epoch, gen, proc, stale>>
    BY <1>16 DEF Midnight, activeStudyGroupIDs, ResetTimer, vars
  <2> QED
    BY <1>0, <2>1 DEF FreshnessInv, SettledIsCommitted, FreshCache, ReadsAcknowledgedWrites,
       LoadIsFresh, LoadIsCurrent, AtLeast
<1> QED
  BY <1>1, <1>2, <1>3, <1>4, <1>5, <1>6, <1>7, <1>8, <1>9, <1>10, <1>11, <1>12, <1>13,
     <1>14, <1>15, <1>16 DEF Next, Load, Write, Maintenance

-----------------------------------------------------------------------------
(* The list of keys and its bytes.  Total and Without go through a list from  *)
(* its front, so what they return is proved for its first n keys, n rising.   *)

\* A set of natural numbers that is not empty has a least element.
LEMMA LeastNatural ==
    ASSUME NEW S \in SUBSET Nat, S # {}
    PROVE  \E m \in S : \A n \in S : m <= n
<1>1. \E m \in S : \A n \in S : <<n, m>> \notin OpToRel(<, Nat)
  BY NatLessThanWellFounded, WFMin
<1>2. \A m, n \in Nat : <<n, m>> \notin OpToRel(<, Nat) => m <= n
  BY DEF OpToRel
<1> QED
  BY <1>1, <1>2

\* What holds of 0, and of n + 1 with n, holds up to N.
LEMMA UpTo ==
    ASSUME NEW N \in Nat, NEW S, 0 \in S, \A n \in 0..(N - 1) : n \in S => n + 1 \in S
    PROVE  \A n \in 0..N : n \in S
<1> DEFINE D == {n \in 0..N : n \notin S}
<1> SUFFICES ASSUME D # {} PROVE FALSE
  OBVIOUS
<1>1. PICK m \in D : \A n \in D : m <= n
  <2>1. D \in SUBSET Nat
    OBVIOUS
  <2> HIDE DEF D
  <2> QED
    BY <2>1, LeastNatural
<1>2. m \in 1..N /\ m \notin S
  OBVIOUS
<1>3. m - 1 \in 0..(N - 1) /\ m - 1 \notin D
  <2>1. m - 1 \in 0..(N - 1) /\ ~(m <= m - 1)
    BY <1>2
  <2> HIDE DEF D
  <2> QED
    BY <1>1, <2>1
<1> QED
  BY <1>2, <1>3

\* A set of numbers up to N that is not empty has a greatest element.
LEMMA Greatest ==
    ASSUME NEW N \in Nat, NEW S \in SUBSET (0..N), S # {}
    PROVE  \E n \in S : \A m \in S : m <= n
<1> DEFINE D == {N - n : n \in S}
<1>1. D \in SUBSET Nat /\ D # {}
  <2>1. \A n \in S : N - n \in Nat
    OBVIOUS
  <2> QED
    BY <2>1
<1>2. PICK d \in D : \A e \in D : d <= e
  <2> HIDE DEF D
  <2> QED
    BY <1>1, LeastNatural
<1>3. PICK n \in S : d = N - n
  OBVIOUS
<1>4. \A m \in S : m <= n
  <2> TAKE m \in S
  <2>1. N - m \in D
    OBVIOUS
  <2>2. d <= N - m
    BY <1>2, <2>1
  <2> QED
    BY <1>3, <2>2
<1> QED
  BY <1>4

\* u counts the bytes of the first keys of q.
Counts(u, q, sz) ==
    /\ u \in [0..Len(q) -> Nat] /\ u[0] = 0
    /\ \A n \in 1..Len(q) : u[n] = u[n - 1] + sz[q[n]]

\* There is one way to count.
LEMMA CountsOnce ==
    ASSUME NEW K, NEW q \in Seq(K), NEW sz, NEW u, NEW v, Counts(u, q, sz), Counts(v, q, sz)
    PROVE  u = v
<1> DEFINE S == {n \in 0..Len(q) : u[n] = v[n]}
<1>1. Len(q) \in Nat /\ 0 \in S
  BY DEF Counts
<1>2. \A n \in 0..(Len(q) - 1) : n \in S => n + 1 \in S
  <2> TAKE n \in 0..(Len(q) - 1)
  <2>1. n + 1 \in 1..Len(q) /\ (n + 1) - 1 = n
    BY <1>1
  <2> QED
    BY <1>1, <2>1 DEF Counts
<1>3. \A n \in 0..Len(q) : n \in S
  <2> HIDE DEF S
  <2> QED
    BY <1>1, <1>2, UpTo
<1> QED
  BY <1>3 DEF Counts

\* Every list can be counted, and Total is the count of all its keys.
LEMMA TotalCounts ==
    ASSUME NEW K, NEW q \in Seq(K), NEW sz \in [K -> Nat]
    PROVE  \E u : Counts(u, q, sz) /\ Total(q, sz) = u[Len(q)]
<1> DEFINE P(u, m) == u \in [0..m -> Nat] /\ u[0] = 0 /\ \A n \in 1..m : u[n] = u[n - 1] + sz[q[n]]
<1> DEFINE S == {m \in 0..Len(q) : \E u : P(u, m)}
<1>0. Len(q) \in Nat /\ \A n \in 1..Len(q) : q[n] \in K /\ sz[q[n]] \in Nat
  OBVIOUS
<1>1. 0 \in S
  <2>1. P([n \in 0..0 |-> 0], 0)
    OBVIOUS
  <2>2. \E u : P(u, 0)
    BY <2>1
  <2> HIDE DEF P
  <2> QED
    BY <1>0, <2>2
<1>2. \A m \in 0..(Len(q) - 1) : m \in S => m + 1 \in S
  <2> SUFFICES ASSUME NEW m \in 0..(Len(q) - 1), m \in S PROVE m + 1 \in S
    OBVIOUS
  <2>0. PICK u : P(u, m)
    OBVIOUS
  <2> HIDE DEF S
  <2> DEFINE w == [n \in 0..(m + 1) |-> IF n <= m THEN u[n] ELSE u[m] + sz[q[m + 1]]]
  <2>1. m + 1 \in 1..Len(q) /\ sz[q[m + 1]] \in Nat /\ u[m] \in Nat
    <3>1. m \in Nat /\ m + 1 \in 1..Len(q)
      BY <1>0
    <3>2. u[m] \in Nat
      BY <2>0, <3>1
    <3> QED
      BY <1>0, <3>1, <3>2
  <2>2. w \in [0..(m + 1) -> Nat] /\ w[0] = 0
    BY <2>0, <2>1
  <2>3. \A n \in 1..(m + 1) : w[n] = w[n - 1] + sz[q[n]]
    <3> TAKE n \in 1..(m + 1)
    <3>1. CASE n <= m
      <4>1. n \in 1..m /\ w[n] = u[n] /\ w[n - 1] = u[n - 1]
        BY <3>1
      <4> QED
        BY <2>0, <4>1
    <3>2. CASE n = m + 1
      <4>1. w[n] = u[m] + sz[q[n]] /\ w[n - 1] = u[m]
        BY <3>2
      <4> QED
        BY <4>1
    <3> QED
      BY <3>1, <3>2
  <2>4. P(w, m + 1)
    BY <2>2, <2>3
  <2>5. m + 1 \in 0..Len(q)
    BY <1>0
  <2> QED
    BY <2>4, <2>5 DEF S
<1>3. PICK u : Counts(u, q, sz)
  <2>1. Len(q) \in S
    <3>1. \A n \in 0..Len(q) : n \in S
      <4> HIDE DEF S
      <4> QED
        BY <1>0, <1>1, <1>2, UpTo
    <3> HIDE DEF S
    <3> QED
      BY <1>0, <3>1
  <2> QED
    BY <2>1 DEF Counts
<1> DEFINE Rec(g) == [n \in 0..Len(q) |-> IF n = 0 THEN 0 ELSE g[n - 1] + sz[q[n]]]
<1>4. u = Rec(u)
  BY <1>0, <1>3 DEF Counts
<1> DEFINE f == CHOOSE g : g = Rec(g)
<1>5. f = Rec(f)
  BY <1>4
<1>6. Total(q, sz) = f[Len(q)]
  BY DEF Total
<1> HIDE DEF f
<1>7. f[0] = 0 /\ \A n \in 1..Len(q) : f[n] = f[n - 1] + sz[q[n]]
  BY <1>0, <1>5, SMTT(40)
<1>8. \A n \in 0..Len(q) : n \in {m \in 0..Len(q) : f[m] \in Nat}
  <2> DEFINE T == {n \in 0..Len(q) : f[n] \in Nat}
  <2>1. 0 \in T
    BY <1>0, <1>7
  <2>2. \A n \in 0..(Len(q) - 1) : n \in T => n + 1 \in T
    <3> SUFFICES ASSUME NEW n \in 0..(Len(q) - 1), f[n] \in Nat PROVE f[n + 1] \in Nat
      BY <1>0
    <3>1. n + 1 \in 1..Len(q) /\ (n + 1) - 1 = n
      BY <1>0
    <3>2. f[n + 1] = f[n] + sz[q[n + 1]]
      BY <1>7, <3>1
    <3> QED
      BY <1>0, <3>1, <3>2
  <2> HIDE DEF T
  <2>3. \A n \in 0..Len(q) : n \in T
    BY <1>0, <2>1, <2>2, UpTo
  <2> QED
    BY <2>3 DEF T
<1>9. Counts(f, q, sz)
  BY <1>5, <1>7, <1>8 DEF Counts
<1> QED
  BY <1>6, <1>9

\* So a count found otherwise is the total.
LEMMA TotalIs ==
    ASSUME NEW K, NEW q \in Seq(K), NEW sz \in [K -> Nat], NEW u, Counts(u, q, sz)
    PROVE  Total(q, sz) = u[Len(q)] /\ Total(q, sz) \in Nat
<1>1. PICK v : Counts(v, q, sz) /\ Total(q, sz) = v[Len(q)]
  BY TotalCounts
<1>2. u = v
  BY <1>1, CountsOnce
<1> QED
  BY <1>1, <1>2 DEF Counts

LEMMA TotalNat ==
    ASSUME NEW K, NEW q \in Seq(K), NEW sz \in [K -> Nat]
    PROVE  Total(q, sz) \in Nat
BY TotalCounts, TotalIs

\* The bytes of an empty list.
LEMMA TotalEmpty ==
    ASSUME NEW K, NEW sz \in [K -> Nat]
    PROVE  Total(<< >>, sz) = 0
<1>1. Counts([n \in 0..0 |-> 0], << >>, sz)
  BY DEF Counts
<1> QED
  BY <1>1, TotalIs, SMTT(40)

\* A list that consists of two has the bytes of both.
LEMMA TotalParts ==
    ASSUME NEW K, NEW q \in Seq(K), NEW sz \in [K -> Nat], NEW a \in Seq(K), NEW b \in Seq(K),
           Len(q) = Len(a) + Len(b), \A n \in 1..Len(a) : q[n] = a[n],
           \A n \in 1..Len(b) : q[Len(a) + n] = b[n]
    PROVE  Total(q, sz) = Total(a, sz) + Total(b, sz)
<1>1. PICK u : Counts(u, a, sz) /\ Total(a, sz) = u[Len(a)]
  BY TotalCounts
<1>2. PICK v : Counts(v, b, sz) /\ Total(b, sz) = v[Len(b)]
  BY TotalCounts
<1>3. PICK x \in Nat, y \in Nat : x = Len(a) /\ y = Len(b) /\ Len(q) = x + y
  BY SMTT(40)
<1>4. /\ \A n \in 0..x : u[n] \in Nat
      /\ u[0] = 0 /\ \A n \in 1..x : u[n] = u[n - 1] + sz[q[n]]
  BY <1>1, <1>3 DEF Counts
<1>5. /\ \A n \in 0..y : v[n] \in Nat
      /\ v[0] = 0 /\ \A n \in 1..y : v[n] = v[n - 1] + sz[q[x + n]] /\ sz[q[x + n]] \in Nat
  <2>1. \A n \in 1..y : b[n] = q[x + n] /\ b[n] \in K
    BY <1>3
  <2> QED
    BY <1>2, <1>3, <2>1, ZenonT(40) DEF Counts
<1> DEFINE w == [n \in 0..(x + y) |-> IF n <= x THEN u[n] ELSE u[x] + v[n - x]]
<1>6. w \in [0..(x + y) -> Nat] /\ w[0] = 0
  <2>1. \A n \in 0..(x + y) : n > x => n - x \in 0..y
    BY <1>3
  <2>2. x \in 0..x
    OBVIOUS
  <2> QED
    BY <1>4, <1>5, <2>1, <2>2, SMTT(40)
<1>7. ASSUME NEW n \in 1..(x + y) PROVE w[n] = w[n - 1] + sz[q[n]]
  <2>1. CASE n <= x
    <3>1. n \in 1..x /\ w[n] = u[n] /\ w[n - 1] = u[n - 1]
      BY <2>1
    <3> QED
      BY <1>4, <3>1
  <2>2. CASE n > x
    <3>1. PICK i \in 1..y : n = x + i
      <4>1. n - x \in 1..y /\ n = x + (n - x)
        BY <2>2
      <4> QED
        BY <4>1
    <3>2. w[n] = u[x] + v[i] /\ u[x] \in Nat /\ v[i - 1] \in Nat
      <4>1. n - x = i /\ x \in 0..x /\ i - 1 \in 0..y
        BY <3>1
      <4> QED
        BY <1>4, <1>5, <2>2, <4>1
    <3>3. w[n - 1] = u[x] + v[i - 1]
      <4>1. CASE i = 1
        <5>1. n - 1 = x /\ n - 1 \in 0..(x + y)
          BY <3>1, <4>1
        <5>2. w[n - 1] = u[x] /\ v[i - 1] = 0
          BY <1>5, <4>1, <5>1
        <5> QED
          BY <3>2, <5>2
      <4>2. CASE i > 1
        <5>1. n - 1 \in 0..(x + y) /\ n - 1 > x /\ (n - 1) - x = i - 1
          BY <3>1, <4>2
        <5> QED
          BY <5>1
      <4> QED
        BY <3>1, <4>1, <4>2
    <3> HIDE DEF w
    <3> QED
      BY <1>5, <3>1, <3>2, <3>3, SMTT(40)
  <2> QED
    BY <2>1, <2>2
<1>8. w[Len(q)] = u[Len(a)] + v[Len(b)]
  <2>1. CASE y = 0
    BY <1>3, <1>4, <1>5, <2>1
  <2>2. CASE y > 0
    <3>1. x + y > x /\ (x + y) - x = y
      BY <2>2
    <3> QED
      BY <1>3, <3>1
  <2> QED
    BY <2>1, <2>2
<1> HIDE DEF w
<1>9. Counts(w, q, sz)
  BY <1>3, <1>6, <1>7 DEF Counts
<1> QED
  BY <1>1, <1>2, <1>8, <1>9, TotalIs

\* The bytes of a list of one key.
LEMMA TotalOne ==
    ASSUME NEW K, NEW sz \in [K -> Nat], NEW k \in K
    PROVE  Total(<<k>>, sz) = sz[k]
<1> DEFINE w == [n \in 0..1 |-> IF n = 0 THEN 0 ELSE sz[k]]
<1>1. Counts(w, <<k>>, sz)
  BY DEF Counts
<1> QED
  BY <1>1, TotalIs

\* A key at the back adds its bytes.
LEMMA TotalAppend ==
    ASSUME NEW K, NEW q \in Seq(K), NEW sz \in [K -> Nat], NEW k \in K
    PROVE  Total(Append(q, k), sz) = Total(q, sz) + sz[k]
<1>1. /\ Append(q, k) \in Seq(K) /\ <<k>> \in Seq(K) /\ Len(Append(q, k)) = Len(q) + Len(<<k>>)
      /\ \A n \in 1..Len(q) : Append(q, k)[n] = q[n]
      /\ \A n \in 1..Len(<<k>>) : Append(q, k)[Len(q) + n] = <<k>>[n]
  OBVIOUS
<1>2. Total(Append(q, k), sz) = Total(q, sz) + Total(<<k>>, sz)
  BY <1>1, TotalParts
<1> QED
  BY <1>2, TotalOne

\* So does a key at the front.
LEMMA TotalFront ==
    ASSUME NEW K, NEW q \in Seq(K), NEW sz \in [K -> Nat], NEW k \in K
    PROVE  Total(<<k>> \o q, sz) = sz[k] + Total(q, sz)
<1>1. /\ <<k>> \o q \in Seq(K) /\ <<k>> \in Seq(K) /\ Len(<<k>> \o q) = Len(<<k>>) + Len(q)
      /\ \A n \in 1..Len(<<k>>) : (<<k>> \o q)[n] = <<k>>[n]
      /\ \A n \in 1..Len(q) : (<<k>> \o q)[Len(<<k>>) + n] = q[n]
  OBVIOUS
<1>2. Total(<<k>> \o q, sz) = Total(<<k>>, sz) + Total(q, sz)
  BY <1>1, TotalParts
<1> QED
  BY <1>2, TotalOne

\* A list cut in two has the bytes of both parts.
LEMMA TotalSplit ==
    ASSUME NEW K, NEW q \in Seq(K), NEW sz \in [K -> Nat], NEW m \in 0..Len(q)
    PROVE  Total(q, sz) = Total(SubSeq(q, 1, m), sz) + Total(SubSeq(q, m + 1, Len(q)), sz)
<1> DEFINE a == SubSeq(q, 1, m)
           b == SubSeq(q, m + 1, Len(q))
<1>1. /\ a \in Seq(K) /\ b \in Seq(K) /\ Len(a) = m /\ Len(b) = Len(q) - m /\ Len(q) \in Nat
      /\ \A n \in 1..m : a[n] = q[n]
      /\ \A n \in 1..(Len(q) - m) : b[n] = q[m + n]
  OBVIOUS
<1> HIDE DEF a, b
<1>2. /\ Len(q) = Len(a) + Len(b)
      /\ \A n \in 1..Len(a) : q[n] = a[n]
      /\ \A n \in 1..Len(b) : q[Len(a) + n] = b[n]
  BY <1>1
<1>3. Total(q, sz) = Total(a, sz) + Total(b, sz)
  BY <1>1, <1>2, TotalParts
<1> QED
  BY <1>3 DEF a, b

\* The bytes of a list depend on the sizes of its own keys.
LEMMA TotalSame ==
    ASSUME NEW K, NEW s \in [K -> Nat], NEW L, NEW t \in [L -> Nat], NEW q \in Seq(K), q \in Seq(L),
           \A i \in 1..Len(q) : t[q[i]] = s[q[i]]
    PROVE  Total(q, t) = Total(q, s)
<1>1. PICK u : Counts(u, q, s) /\ Total(q, s) = u[Len(q)]
  BY TotalCounts
<1>2. Counts(u, q, t)
  BY <1>1 DEF Counts
<1> QED
  BY <1>2, <1>1, TotalIs

\* f unlinks the keys in S among the first keys of q.
Keeps(f, q, S, K) ==
    /\ f \in [0..Len(q) -> Seq(K)] /\ f[0] = << >>
    /\ \A n \in 1..Len(q) : f[n] = IF q[n] \in S THEN f[n - 1] ELSE Append(f[n - 1], q[n])

\* Unlinking can be done with every list, and Without is what it leaves of all its keys.
LEMMA WithoutKeeps ==
    ASSUME NEW K, NEW q \in Seq(K), NEW S
    PROVE  \E f : Keeps(f, q, S, K) /\ Without(q, S) = f[Len(q)]
<1> DEFINE P(u, m) == /\ u \in [0..m -> Seq(K)] /\ u[0] = << >>
                      /\ \A n \in 1..m : u[n] = IF q[n] \in S THEN u[n - 1] ELSE Append(u[n - 1], q[n])
<1> DEFINE D == {m \in 0..Len(q) : \E u : P(u, m)}
<1>0. Len(q) \in Nat /\ \A n \in 1..Len(q) : q[n] \in K
  OBVIOUS
<1>1. 0 \in D
  <2>1. P([n \in 0..0 |-> << >>], 0)
    OBVIOUS
  <2>2. \E u : P(u, 0)
    BY <2>1
  <2> HIDE DEF P
  <2> QED
    BY <1>0, <2>2
<1>2. \A m \in 0..(Len(q) - 1) : m \in D => m + 1 \in D
  <2> SUFFICES ASSUME NEW m \in 0..(Len(q) - 1), m \in D PROVE m + 1 \in D
    OBVIOUS
  <2>0. PICK u : P(u, m)
    OBVIOUS
  <2> HIDE DEF D
  <2> DEFINE z == IF q[m + 1] \in S THEN u[m] ELSE Append(u[m], q[m + 1])
             w == [n \in 0..(m + 1) |-> IF n <= m THEN u[n] ELSE z]
  <2>1. z \in Seq(K)
    <3>1. m \in Nat /\ m + 1 \in 1..Len(q)
      BY <1>0
    <3>2. u[m] \in Seq(K) /\ q[m + 1] \in K
      BY <1>0, <2>0, <3>1
    <3> QED
      BY <3>2
  <2>2. w \in [0..(m + 1) -> Seq(K)] /\ w[0] = << >>
    <3> HIDE DEF z
    <3> QED
      BY <2>0, <2>1
  <2>3. \A n \in 1..(m + 1) : w[n] = IF q[n] \in S THEN w[n - 1] ELSE Append(w[n - 1], q[n])
    <3> TAKE n \in 1..(m + 1)
    <3>1. CASE n <= m
      <4>1. n \in 1..m /\ w[n] = u[n] /\ w[n - 1] = u[n - 1]
        BY <3>1
      <4> QED
        BY <2>0, <4>1
    <3>2. CASE n = m + 1
      <4>1. w[n] = z /\ w[n - 1] = u[m]
        BY <3>2
      <4> QED
        BY <3>2, <4>1
    <3> QED
      BY <3>1, <3>2
  <2>4. P(w, m + 1)
    BY <2>2, <2>3
  <2>5. m + 1 \in 0..Len(q)
    BY <1>0
  <2> QED
    BY <2>4, <2>5 DEF D
<1>3. PICK u : Keeps(u, q, S, K)
  <2>1. Len(q) \in D
    <3>1. \A n \in 0..Len(q) : n \in D
      <4> HIDE DEF D
      <4> QED
        BY <1>0, <1>1, <1>2, UpTo
    <3> HIDE DEF D
    <3> QED
      BY <1>0, <3>1
  <2> QED
    BY <2>1 DEF Keeps
<1> DEFINE Nth(g, n) == IF n = 0 THEN << >> ELSE IF q[n] \in S THEN g[n - 1] ELSE Append(g[n - 1], q[n])
           Rec(g) == [n \in 0..Len(q) |-> Nth(g, n)]
<1>4. u = Rec(u)
  <2>1. u = [n \in 0..Len(q) |-> u[n]]
    BY <1>3 DEF Keeps
  <2>2. \A n \in 0..Len(q) : n = 0 \/ n \in 1..Len(q)
    BY <1>0
  <2>3. \A n \in 0..Len(q) : u[n] = Nth(u, n)
    BY <1>0, <1>3, <2>2 DEF Keeps
  <2> HIDE DEF Nth
  <2> QED
    BY <2>1, <2>3
<1> DEFINE f == CHOOSE g : g = Rec(g)
<1>5. f = Rec(f)
  BY <1>4
<1>6. Without(q, S) = f[Len(q)]
  BY DEF Without
<1> HIDE DEF f
<1>7. f[0] = << >> /\ \A n \in 1..Len(q) : f[n] = IF q[n] \in S THEN f[n - 1] ELSE Append(f[n - 1], q[n])
  <2>1. \A n \in 0..Len(q) : f[n] = Nth(f, n)
    <3> HIDE DEF Nth
    <3> QED
      BY <1>5
  <2>2. 0 \in 0..Len(q) /\ \A n \in 1..Len(q) : n \in 0..Len(q) /\ n # 0
    BY <1>0
  <2>3. f[0] = << >>
    BY <2>1, <2>2
  <2> QED
    BY <2>1, <2>2, <2>3
<1>8. \A n \in 0..Len(q) : f[n] \in Seq(K)
  <2> DEFINE T == {n \in 0..Len(q) : f[n] \in Seq(K)}
  <2>1. 0 \in T
    <3>1. f[0] \in Seq(K)
      BY <1>7
    <3> QED
      BY <1>0, <3>1
  <2>2. \A n \in 0..(Len(q) - 1) : n \in T => n + 1 \in T
    <3> SUFFICES ASSUME NEW n \in 0..(Len(q) - 1), f[n] \in Seq(K) PROVE f[n + 1] \in Seq(K)
      BY <1>0
    <3>1. n + 1 \in 1..Len(q) /\ (n + 1) - 1 = n
      BY <1>0
    <3>2. f[n + 1] = IF q[n + 1] \in S THEN f[n] ELSE Append(f[n], q[n + 1])
      BY <1>7, <3>1
    <3> QED
      BY <1>0, <3>1, <3>2
  <2> HIDE DEF T
  <2>3. \A n \in 0..Len(q) : n \in T
    BY <1>0, <2>1, <2>2, UpTo
  <2> QED
    BY <2>3 DEF T
<1>9. Keeps(f, q, S, K)
  BY <1>5, <1>7, <1>8 DEF Keeps
<1> QED
  BY <1>6, <1>9

\* What is left holds the other keys, each once if the list held each once.
LEMMA WithoutIs ==
    ASSUME NEW K, NEW q \in Seq(K), IsInjective(q), NEW S
    PROVE  /\ Without(q, S) \in Seq(K) /\ IsInjective(Without(q, S))
           /\ ToSet(Without(q, S)) = ToSet(q) \ S /\ Len(Without(q, S)) <= Len(q)
<1>0. Len(q) \in Nat /\ \A n \in 1..Len(q) : q[n] \in K
  OBVIOUS
<1>1. PICK f : Keeps(f, q, S, K) /\ Without(q, S) = f[Len(q)]
  BY WithoutKeeps
<1> DEFINE Left(n) == {q[i] : i \in 1..n} \ S
           D == {n \in 0..Len(q) : IsInjective(f[n]) /\ ToSet(f[n]) = Left(n) /\ Len(f[n]) <= n}
<1>2. 0 \in D
  BY <1>0, <1>1 DEF Keeps, IsInjective, ToSet
<1>3. \A n \in 0..(Len(q) - 1) : n \in D => n + 1 \in D
  <2> SUFFICES ASSUME NEW n \in 0..(Len(q) - 1), n \in D PROVE n + 1 \in D
    OBVIOUS
  <2> DEFINE k == q[n + 1]
             s == f[n]
             t == f[n + 1]
  <2>1. n + 1 \in 1..Len(q) /\ (n + 1) - 1 = n /\ n + 1 \in 0..Len(q) /\ n \in Nat /\ k \in K
    BY <1>0
  <2>2. s \in Seq(K) /\ Len(s) \in Nat /\ t = IF k \in S THEN s ELSE Append(s, k)
    BY <1>1, <2>1 DEF Keeps
  <2>3. IsInjective(s) /\ ToSet(s) = Left(n) /\ Len(s) <= n
    OBVIOUS
  <2>4. Left(n + 1) = IF k \in S THEN Left(n) ELSE Left(n) \cup {k}
    <3>1. \A i \in 1..(n + 1) : i \in 1..n \/ i = n + 1
      BY <2>1
    <3>2. n + 1 \in 1..(n + 1) /\ \A i \in 1..n : i \in 1..(n + 1)
      BY <2>1
    <3> QED
      BY <3>1, <3>2
  <2>5. k \notin Left(n)
    <3>1. \A i \in 1..n : i \in 1..Len(q) /\ i # n + 1
      BY <1>0, <2>1
    <3>2. \A i \in 1..n : q[i] # k
      BY <1>0, <2>1, <3>1 DEF IsInjective
    <3> QED
      BY <3>2
  <2> HIDE DEF k, s, t, Left
  <2>6. IsInjective(t) /\ ToSet(t) = Left(n + 1) /\ Len(t) <= n + 1
    <3>1. CASE k \in S
      BY <2>1, <2>2, <2>3, <2>4, <3>1
    <3>2. CASE k \notin S
      <4>1. /\ Len(t) = Len(s) + 1 /\ t[Len(s) + 1] = k
            /\ \A i \in 1..Len(s) : t[i] = s[i]
            /\ DOMAIN t = 1..(Len(s) + 1) /\ DOMAIN s = 1..Len(s)
        BY <2>1, <2>2, <3>2
      <4>2. \A i \in 1..Len(s) : s[i] # k
        BY <2>3, <2>5, <4>1 DEF ToSet
      <4>3. ToSet(t) = ToSet(s) \cup {k}
        <5>1. \A i \in 1..(Len(s) + 1) : i \in 1..Len(s) \/ i = Len(s) + 1
          BY <2>2
        <5>2. Len(s) + 1 \in 1..(Len(s) + 1) /\ \A i \in 1..Len(s) : i \in 1..(Len(s) + 1)
          BY <2>2
        <5> QED
          BY <4>1, <5>1, <5>2 DEF ToSet
      <4>4. IsInjective(t)
        <5> SUFFICES ASSUME NEW i \in 1..(Len(s) + 1), NEW j \in 1..(Len(s) + 1), t[i] = t[j]
                     PROVE  i = j
          BY <4>1 DEF IsInjective
        <5>1. (i \in 1..Len(s) \/ i = Len(s) + 1) /\ (j \in 1..Len(s) \/ j = Len(s) + 1)
          BY <2>2
        <5> QED
          BY <2>3, <4>1, <4>2, <5>1 DEF IsInjective
      <4> QED
        <5>1. Len(t) <= n + 1
          BY <2>1, <2>2, <2>3, <4>1
        <5> QED
          BY <2>3, <2>4, <3>2, <4>3, <4>4, <5>1
    <3> QED
      BY <3>1, <3>2
  <2> QED
    BY <2>1, <2>6 DEF t
<1>4. Len(q) \in D
  <2>1. \A n \in 0..Len(q) : n \in D
    <3> HIDE DEF D
    <3> QED
      BY <1>0, <1>2, <1>3, UpTo
  <2> HIDE DEF D
  <2> QED
    BY <1>0, <2>1
<1>5. Left(Len(q)) = ToSet(q) \ S
  BY DEF ToSet
<1>6. f[Len(q)] \in Seq(K)
  BY <1>0, <1>1 DEF Keeps
<1> QED
  BY <1>1, <1>4, <1>5, <1>6

\* What is left and what was unlinked have the bytes of the list.
LEMMA WithoutSplits ==
    ASSUME NEW K, NEW q \in Seq(K), NEW sz \in [K -> Nat], NEW S, NEW R,
           \A i \in 1..Len(q) : q[i] \in S <=> q[i] \notin R
    PROVE  Total(q, sz) = Total(Without(q, S), sz) + Total(Without(q, R), sz)
<1>0. Len(q) \in Nat /\ \A n \in 1..Len(q) : q[n] \in K
  OBVIOUS
<1>1. PICK f : Keeps(f, q, S, K) /\ Without(q, S) = f[Len(q)]
  BY WithoutKeeps
<1>2. PICK g : Keeps(g, q, R, K) /\ Without(q, R) = g[Len(q)]
  BY WithoutKeeps
<1>3. PICK u : Counts(u, q, sz) /\ Total(q, sz) = u[Len(q)]
  BY TotalCounts
<1> DEFINE D == {n \in 0..Len(q) : u[n] = Total(f[n], sz) + Total(g[n], sz)}
<1>4. 0 \in D
  <2>1. f[0] = << >> /\ g[0] = << >> /\ u[0] = 0
    BY <1>1, <1>2, <1>3 DEF Keeps, Counts
  <2>2. Total(f[0], sz) = 0 /\ Total(g[0], sz) = 0
    BY <2>1, TotalEmpty
  <2> QED
    BY <1>0, <2>1, <2>2
<1>5. \A n \in 0..(Len(q) - 1) : n \in D => n + 1 \in D
  <2> SUFFICES ASSUME NEW n \in 0..(Len(q) - 1), u[n] = Total(f[n], sz) + Total(g[n], sz)
               PROVE  u[n + 1] = Total(f[n + 1], sz) + Total(g[n + 1], sz)
    BY <1>0
  <2> DEFINE k == q[n + 1]
  <2>1. n + 1 \in 1..Len(q) /\ (n + 1) - 1 = n /\ n \in 0..Len(q) /\ k \in K
    BY <1>0
  <2>2. u[n + 1] = u[n] + sz[k] /\ sz[k] \in Nat
    BY <1>3, <2>1 DEF Counts
  <2>3. f[n] \in Seq(K) /\ f[n + 1] = IF k \in S THEN f[n] ELSE Append(f[n], k)
    BY <1>1, <2>1 DEF Keeps
  <2>4. g[n] \in Seq(K) /\ g[n + 1] = IF k \in R THEN g[n] ELSE Append(g[n], k)
    BY <1>2, <2>1 DEF Keeps
  <2>5. k \in S <=> k \notin R
    BY <2>1
  <2>6. Total(f[n], sz) \in Nat /\ Total(g[n], sz) \in Nat
    BY <2>3, <2>4, TotalNat
  <2> HIDE DEF k
  <2>7. CASE k \in S
    <3>1. Total(Append(g[n], k), sz) = Total(g[n], sz) + sz[k]
      <4>1. k \in K /\ g[n] \in Seq(K)
        BY <2>1, <2>4
      <4> QED
        BY <4>1, TotalAppend
    <3> QED
      BY <2>2, <2>3, <2>4, <2>5, <2>6, <2>7, <3>1
  <2>8. CASE k \notin S
    <3>1. Total(Append(f[n], k), sz) = Total(f[n], sz) + sz[k]
      <4>1. k \in K /\ f[n] \in Seq(K)
        BY <2>1, <2>3
      <4> QED
        BY <4>1, TotalAppend
    <3> QED
      BY <2>2, <2>3, <2>4, <2>5, <2>6, <2>8, <3>1, SMTT(40)
  <2> QED
    BY <2>7, <2>8
<1>6. Len(q) \in D
  <2>1. \A n \in 0..Len(q) : n \in D
    <3> HIDE DEF D
    <3> QED
      BY <1>0, <1>4, <1>5, UpTo
  <2> HIDE DEF D
  <2> QED
    BY <1>0, <2>1
<1> QED
  BY <1>1, <1>2, <1>3, <1>6

\* Unlinking one key takes its bytes away.
LEMMA WithoutOne ==
    ASSUME NEW K, NEW q \in Seq(K), IsInjective(q), NEW sz \in [K -> Nat], NEW k \in ToSet(q)
    PROVE  Total(q, sz) = Total(Without(q, {k}), sz) + sz[k]
<1> DEFINE r == Without(q, ToSet(q) \ {k})
<1>1. r \in Seq(K) /\ IsInjective(r) /\ ToSet(r) = {k}
  <2>1. ToSet(q) \ (ToSet(q) \ {k}) = {k}
    OBVIOUS
  <2> QED
    BY <2>1, WithoutIs
<1>2. k \in K
  BY DEF ToSet
<1>3. Total(q, sz) = Total(Without(q, {k}), sz) + Total(r, sz)
  <2>1. \A i \in 1..Len(q) : q[i] \in {k} <=> q[i] \notin (ToSet(q) \ {k})
    BY DEF ToSet
  <2> HIDE DEF r
  <2> QED
    BY <2>1, WithoutSplits DEF r
<1> HIDE DEF r
<1>4. r = <<k>>
  <2>0. Len(r) \in Nat /\ DOMAIN r = 1..Len(r)
    BY <1>1
  <2>1. \A i \in 1..Len(r) : r[i] = k
    <3>1. \A i \in 1..Len(r) : r[i] \in ToSet(r)
      BY <2>0 DEF ToSet
    <3> QED
      BY <1>1, <3>1
  <2>2. Len(r) = 1
    <3>1. Len(r) \in Nat /\ DOMAIN r = 1..Len(r)
      BY <1>1
    <3>2. PICK i \in 1..Len(r) : r[i] = k
      BY <1>1, <3>1 DEF ToSet
    <3>3. Len(r) < 2
      <4> SUFFICES ASSUME Len(r) >= 2 PROVE FALSE
        BY <3>1
      <4>1. 1 \in 1..Len(r) /\ 2 \in 1..Len(r)
        BY <3>1
      <4>2. r[1] = k /\ r[2] = k
        BY <2>1, <4>1
      <4>3. \A a, b \in 1..Len(r) : r[a] = r[b] => a = b
        BY <1>1, <3>1 DEF IsInjective
      <4> QED
        BY <4>1, <4>2, <4>3
    <3> QED
      BY <3>1, <3>2, <3>3
  <2> QED
    BY <1>1, <2>1, <2>2
<1>5. Total(r, sz) = sz[k]
  BY <1>2, <1>4, TotalOne
<1> QED
  BY <1>3, <1>5

-----------------------------------------------------------------------------
(* The accounts of the cache                                                *)

\* CacheAccounting, with the list as a sequence that holds every cached key once.
AccountingInv ==
    /\ lru \in Seq(DOMAIN entries) /\ IsInjective(lru) /\ ToSet(lru) = DOMAIN entries
    /\ sizeBytes = Bytes(lru)
    /\ Len(lru) <= MaxEntries /\ sizeBytes <= MaxBytes

LEMMA SizingType ==
    ASSUME NEW f, \A k \in DOMAIN f : f[k] \in Entry
    PROVE  Sizing(f) \in [DOMAIN f -> Nat]
BY DEF Sizing, Entry

\* A list that holds every key once is as long as there are keys.
LEMMA InjectiveCount ==
    ASSUME NEW K, NEW q \in Seq(K), IsInjective(q), ToSet(q) = K
    PROVE  IsFiniteSet(K) /\ Cardinality(K) = Len(q)
<1>1. Len(q) \in Nat /\ DOMAIN q = 1..Len(q)
  OBVIOUS
<1>2. q \in [1..Len(q) -> K]
  BY <1>1
<1>3. \A k \in K : \E i \in 1..Len(q) : q[i] = k
  BY <1>1 DEF ToSet
<1>4. \A i, j \in 1..Len(q) : q[i] = q[j] => i = j
  BY <1>1 DEF IsInjective
<1>5. ExistsBijection(1..Len(q), K)
  <2>1. q \in Injection(1..Len(q), K) /\ q \in Surjection(1..Len(q), K)
    BY <1>1, <1>2, <1>3, <1>4 DEF Injection, IsInjective, Surjection
  <2> QED
    BY <2>1 DEF ExistsBijection, Bijection
<1> QED
  BY <1>1, <1>5, FS_CountingElements, FS_NatBijection

\* Unlinking the keys in S keeps the accounts when their bytes are taken off.
LEMMA UnlinkKeepsAccounts ==
    ASSUME AccountingInv, TypeOK, NEW S,
           entries' = [k \in DOMAIN entries \ S |-> entries[k]],
           lru' = Without(lru, S),
           sizeBytes' = Total(Without(lru, S), Sizing(entries))
    PROVE  AccountingInv'
<1> DEFINE K  == DOMAIN entries
           L  == K \ S
           sz == Sizing(entries)
<1>1. /\ lru \in Seq(K) /\ IsInjective(lru) /\ ToSet(lru) = K /\ Len(lru) \in Nat
      /\ Len(lru) <= MaxEntries /\ sizeBytes = Total(lru, sz) /\ sizeBytes <= MaxBytes
  BY DEF AccountingInv, Bytes
<1>2. sz \in [K -> Nat]
  BY SizingType DEF TypeOK
<1>3. DOMAIN entries' = L /\ \A k \in L : entries'[k] = entries[k] /\ k \in K
  OBVIOUS
<1> HIDE DEF K, L, sz
<1>4. /\ lru' \in Seq(K) /\ IsInjective(lru') /\ ToSet(lru') = K \ S /\ Len(lru') <= Len(lru)
  BY <1>1, WithoutIs
<1>5. Len(lru') \in Nat /\ DOMAIN lru' = 1..Len(lru')
  BY <1>4
<1>6. \A i \in 1..Len(lru') : lru'[i] \in L
  BY <1>4, <1>5 DEF ToSet, L
<1>7. lru' \in Seq(L)
  BY <1>4, <1>6
<1>8. sizeBytes' = Total(lru', Sizing(entries'))
  <2>1. Sizing(entries') \in [L -> Nat]
    BY <1>3, SizingType DEF TypeOK, K
  <2>2. \A k \in L : Sizing(entries')[k] = sz[k]
    BY <1>3 DEF Sizing, sz, K
  <2>3. \A i \in 1..Len(lru') : lru'[i] \in L /\ Sizing(entries')[lru'[i]] = sz[lru'[i]]
    BY <1>6, <2>2
  <2>4. Total(lru', Sizing(entries')) = Total(lru', sz)
    <3> DEFINE A == lru'
               B == Sizing(entries')
    <3>1. A \in Seq(K) /\ A \in Seq(L) /\ B \in [L -> Nat]
      BY <1>4, <1>7, <2>1
    <3>2. \A i \in 1..Len(A) : B[A[i]] = sz[A[i]]
      BY <2>3
    <3> HIDE DEF A, B
    <3>3. Total(A, B) = Total(A, sz)
      BY <1>2, <3>1, <3>2, TotalSame, ZenonT(40)
    <3> QED
      BY <3>3 DEF A, B
  <2> QED
    BY <2>4 DEF sz
<1>9. sizeBytes' <= MaxBytes
  <2> DEFINE R == K \ S
  <2>1. \A i \in 1..Len(lru) : lru[i] \in K
    BY <1>1
  <2>2. Total(lru, sz) = Total(Without(lru, S), sz) + Total(Without(lru, R), sz)
    <3>1. \A i \in 1..Len(lru) : lru[i] \in S <=> lru[i] \notin R
      BY <2>1
    <3> HIDE DEF R
    <3> QED
      BY <1>1, <1>2, <3>1, WithoutSplits
  <2>3. Without(lru, S) \in Seq(K) /\ Without(lru, R) \in Seq(K)
    BY <1>1, WithoutIs
  <2> HIDE DEF R
  <2>4. Total(Without(lru, S), sz) \in Nat /\ Total(Without(lru, R), sz) \in Nat
    BY <1>2, <2>3, TotalNat
  <2> QED
    BY <1>1, <2>2, <2>4, ConstantsAssumption DEF sz
<1>10. Len(lru') <= MaxEntries
  BY <1>1, <1>4, <1>5, ConstantsAssumption
<1> QED
  BY <1>3, <1>4, <1>7, <1>8, <1>9, <1>10 DEF AccountingInv, Bytes, L, K

LEMMA RemoveKeepsAccounts ==
    ASSUME AccountingInv, TypeOK, NEW k \in DOMAIN entries, removeLocked(k)
    PROVE  AccountingInv'
<1> DEFINE K  == DOMAIN entries
           sz == Sizing(entries)
<1>1. lru \in Seq(K) /\ IsInjective(lru) /\ k \in ToSet(lru) /\ sizeBytes = Total(lru, sz)
  BY DEF AccountingInv, Bytes
<1>2. sz \in [K -> Nat] /\ sz[k] = entries[k].size
  BY SizingType DEF TypeOK, Sizing
<1>3. Without(lru, {k}) \in Seq(K)
  BY <1>1, WithoutIs
<1> HIDE DEF sz
<1>4. Total(lru, sz) = Total(Without(lru, {k}), sz) + sz[k]
  BY <1>1, <1>2, WithoutOne
<1>5. Total(Without(lru, {k}), sz) \in Nat /\ sz[k] \in Nat
  BY <1>2, <1>3, TotalNat
<1>6. sizeBytes' = Total(Without(lru, {k}), sz)
  BY <1>1, <1>2, <1>4, <1>5 DEF removeLocked
<1> QED
  BY <1>6, UnlinkKeepsAccounts DEF removeLocked, sz

LEMMA InvalidateKeepsAccounts ==
    ASSUME AccountingInv, TypeOK, NEW g \in Groups, InvalidateGroup(g)
    PROVE  AccountingInv'
<1> DEFINE K  == DOMAIN entries
           S  == {k \in DOMAIN entries : k[1] = g}
           sz == Sizing(entries)
<1>1. lru \in Seq(K) /\ IsInjective(lru) /\ sizeBytes = Total(lru, sz)
  BY DEF AccountingInv, Bytes
<1>2. sz \in [K -> Nat]
  BY SizingType DEF TypeOK
<1>3. /\ entries' = [k \in K \ S |-> entries[k]] /\ lru' = Without(lru, S)
      /\ sizeBytes' = sizeBytes - Total(Without(lru, K \ S), sz)
  BY DEF InvalidateGroup, Bytes
<1>4. \A i \in 1..Len(lru) : lru[i] \in S <=> lru[i] \notin K \ S
  BY <1>1
<1> HIDE DEF S, sz, K
<1>5. Without(lru, S) \in Seq(K) /\ Without(lru, K \ S) \in Seq(K)
  BY <1>1, WithoutIs
<1>6. Total(Without(lru, S), sz) \in Nat /\ Total(Without(lru, K \ S), sz) \in Nat
  BY <1>2, <1>5, TotalNat
<1>7. Total(lru, sz) = Total(Without(lru, S), sz) + Total(Without(lru, K \ S), sz)
  BY <1>1, <1>2, <1>4, WithoutSplits
<1>8. sizeBytes' = Total(Without(lru, S), sz)
  BY <1>1, <1>3, <1>6, <1>7
<1> QED
  BY <1>3, <1>8, UnlinkKeepsAccounts DEF sz, K

\* A key moved or put to the front of a list is in it once.
LEMMA FrontOfList ==
    ASSUME NEW K, NEW q \in Seq(K), IsInjective(q), ToSet(q) = K, NEW k
    PROVE  LET r == <<k>> \o Without(q, {k}) IN
           /\ r \in Seq(K \cup {k}) /\ IsInjective(r) /\ ToSet(r) = K \cup {k}
           /\ k \in K => Len(r) <= Len(q)
<1> DEFINE w == Without(q, {k})
           r == <<k>> \o w
<1>1. w \in Seq(K) /\ IsInjective(w) /\ ToSet(w) = K \ {k}
  BY WithoutIs
<1> HIDE DEF w
<1>2. /\ r \in Seq(K \cup {k}) /\ Len(w) \in Nat /\ Len(r) = Len(w) + 1 /\ r[1] = k
      /\ DOMAIN r = 1..(Len(w) + 1) /\ DOMAIN w = 1..Len(w)
      /\ \A i \in 1..Len(w) : r[i + 1] = w[i]
  <2>1. w \in Seq(K \cup {k})
    BY <1>1
  <2> QED
    BY <1>1, <2>1
<1>3. \A i \in 1..(Len(w) + 1) : i = 1 \/ (i - 1 \in 1..Len(w) /\ r[i] = w[i - 1])
  <2> TAKE i \in 1..(Len(w) + 1)
  <2>1. CASE i > 1
    <3>1. i - 1 \in 1..Len(w) /\ (i - 1) + 1 = i
      BY <1>2, <2>1
    <3> HIDE DEF r
    <3> QED
      BY <1>2, <3>1
  <2> QED
    BY <1>2, <2>1
<1>4. \A i \in 1..Len(w) : w[i] # k /\ w[i] \in K
  BY <1>1, <1>2 DEF ToSet
<1> HIDE DEF r
<1>5. IsInjective(r)
  <2> SUFFICES ASSUME NEW i \in 1..(Len(w) + 1), NEW j \in 1..(Len(w) + 1), r[i] = r[j]
               PROVE  i = j
    BY <1>2 DEF IsInjective
  <2>1. CASE i = 1 \/ j = 1
    BY <1>2, <1>3, <1>4, <2>1
  <2>2. CASE i # 1 /\ j # 1
    <3>1. w[i - 1] = w[j - 1] /\ i - 1 \in 1..Len(w) /\ j - 1 \in 1..Len(w)
      BY <1>3, <2>2
    <3>2. i - 1 = j - 1
      BY <1>1, <1>2, <3>1 DEF IsInjective
    <3> QED
      BY <3>2
  <2> QED
    BY <2>1, <2>2
<1>6. ToSet(r) = K \cup {k}
  <2>1. \A i \in DOMAIN r : r[i] \in K \cup {k}
    BY <1>2, <1>3, <1>4
  <2>2. ASSUME NEW j \in K \cup {k} PROVE \E i \in DOMAIN r : r[i] = j
    <3>1. CASE j = k
      <4>1. 1 \in DOMAIN r
        BY <1>2
      <4> QED
        BY <1>2, <3>1, <4>1
    <3>2. CASE j # k
      <4>1. PICK i \in 1..Len(w) : w[i] = j
        BY <1>1, <1>2, <3>2 DEF ToSet
      <4>2. i + 1 \in DOMAIN r
        BY <1>2
      <4> QED
        BY <1>2, <4>1, <4>2
    <3> QED
      BY <3>1, <3>2
  <2> QED
    BY <2>1, <2>2 DEF ToSet
<1>7. ASSUME k \in K PROVE Len(r) <= Len(q)
  <2>1. Cardinality(K) = Len(q) /\ Len(q) \in Nat
    BY InjectiveCount
  <2>2. K \cup {k} = K
    BY <1>7
  <2>3. r \in Seq(K) /\ ToSet(r) = K
    BY <1>2, <1>6, <2>2
  <2>4. Cardinality(K) = Len(r)
    BY <1>5, <2>3, InjectiveCount
  <2> QED
    BY <2>1, <2>4
<1> QED
  BY <1>2, <1>5, <1>6, <1>7 DEF r, w

\* A hit moves its key to the front.
LEMMA HitKeepsAccounts ==
    ASSUME AccountingInv, TypeOK, NEW k \in DOMAIN entries,
           lru' = <<k>> \o Without(lru, {k}), UNCHANGED <<entries, sizeBytes>>
    PROVE  AccountingInv'
<1> DEFINE K  == DOMAIN entries
           sz == Sizing(entries)
           w  == Without(lru, {k})
<1>1. /\ lru \in Seq(K) /\ IsInjective(lru) /\ ToSet(lru) = K /\ sizeBytes = Total(lru, sz)
      /\ Len(lru) <= MaxEntries /\ sizeBytes <= MaxBytes
  BY DEF AccountingInv, Bytes
<1>2. sz \in [K -> Nat] /\ k \in K
  BY SizingType DEF TypeOK
<1>3. K \cup {k} = K
  OBVIOUS
<1> HIDE DEF K, sz, w
<1>4. lru' \in Seq(K) /\ IsInjective(lru') /\ ToSet(lru') = K /\ Len(lru') <= Len(lru)
  <2>1. /\ <<k>> \o w \in Seq(K \cup {k}) /\ IsInjective(<<k>> \o w) /\ ToSet(<<k>> \o w) = K \cup {k}
        /\ Len(<<k>> \o w) <= Len(lru)
    BY <1>1, <1>2, FrontOfList DEF w
  <2> QED
    BY <1>3, <2>1 DEF w
<1>5. w \in Seq(K) /\ Total(lru, sz) = Total(w, sz) + sz[k]
  BY <1>1, <1>2, WithoutIs, WithoutOne, SMTT(40) DEF w
<1>6. Total(lru', sz) = sz[k] + Total(w, sz)
  BY <1>2, <1>5, TotalFront DEF w
<1>7. Total(w, sz) \in Nat /\ sz[k] \in Nat
  BY <1>2, <1>5, TotalNat
<1>8. Total(lru', sz) = sizeBytes
  BY <1>1, <1>5, <1>6, <1>7
<1>9. Len(lru') <= MaxEntries
  <2>1. Len(lru') \in Nat /\ Len(lru) \in Nat /\ MaxEntries \in Nat
    BY <1>1, <1>4, ConstantsAssumption
  <2> QED
    BY <1>1, <1>4, <2>1
<1>10. sizeBytes' = Bytes(lru)'
  BY <1>8 DEF Bytes, sz
<1> QED
  BY <1>1, <1>4, <1>9, <1>10 DEF AccountingInv, K

LEMMA AccountingImplied == TypeOK /\ AccountingInv => CacheAccounting
BY InjectiveCount DEF AccountingInv, CacheAccounting

\* The eviction leaves as many entries as both limits allow, none if need be.
LEMMA EvictionFits ==
    ASSUME NEW K, NEW q \in Seq(K), NEW sz \in [K -> Nat]
    PROVE  LET n == KeptByEviction(q, Total(q, sz), sz) IN
           /\ n \in 0..Len(q) /\ n <= MaxEntries
           /\ Total(q, sz) - Total(SubSeq(q, n + 1, Len(q)), sz) <= MaxBytes
<1> DEFINE total == Total(q, sz)
           Fit(n) == n <= MaxEntries /\ total - Total(SubSeq(q, n + 1, Len(q)), sz) <= MaxBytes
           fits   == {n \in 0..Len(q) : Fit(n)}
<1>1. Len(q) \in Nat
  OBVIOUS
<1>2. 0 \in fits
  <2>1. 0 + 1 = 1 /\ SubSeq(q, 1, Len(q)) = q
    OBVIOUS
  <2>2. total \in Nat
    BY TotalNat
  <2>3. SubSeq(q, 0 + 1, Len(q)) = q
    BY <2>1, Zenon
  <2>4. Total(SubSeq(q, 0 + 1, Len(q)), sz) = total
    BY <2>3, Zenon
  <2>5. Fit(0)
    <3> HIDE DEF total
    <3> QED
      BY <2>2, <2>4, ConstantsAssumption
  <2> HIDE DEF Fit
  <2> QED
    BY <1>1, <2>5
<1>3. \E n \in fits : \A m \in fits : m <= n
  <2>1. fits \in SUBSET (0..Len(q)) /\ fits # {}
    BY <1>2
  <2> HIDE DEF fits
  <2> QED
    BY <1>1, <2>1, Greatest
<1>4. KeptByEviction(q, total, sz) = CHOOSE n \in fits : \A m \in fits : m <= n
  <2>1. fits # {}
    BY <1>2
  <2>2. KeptByEviction(q, total, sz) =
            IF fits = {} THEN 0 ELSE CHOOSE n \in fits : \A m \in fits : m <= n
    BY DEF KeptByEviction
  <2> HIDE DEF fits
  <2> QED
    BY <2>1, <2>2
<1>5. KeptByEviction(q, total, sz) \in fits
  <2> HIDE DEF fits, total
  <2> QED
    BY <1>3, <1>4
<1> QED
  BY <1>5

\* The keys that the eviction leaves are those it does not drop.
LEMMA CutApart ==
    ASSUME NEW K, NEW q \in Seq(K), IsInjective(q), NEW n \in 0..Len(q)
    PROVE  LET a == SubSeq(q, 1, n)
               b == SubSeq(q, n + 1, Len(q))
           IN  /\ a \in Seq(K) /\ b \in Seq(K) /\ Len(a) = n /\ IsInjective(a)
               /\ ToSet(a) = ToSet(q) \ ToSet(b)
<1> DEFINE a == SubSeq(q, 1, n)
           b == SubSeq(q, n + 1, Len(q))
<1>1. /\ a \in Seq(K) /\ b \in Seq(K) /\ Len(a) = n /\ Len(b) = Len(q) - n /\ Len(q) \in Nat
      /\ DOMAIN a = 1..n /\ DOMAIN b = 1..(Len(q) - n) /\ DOMAIN q = 1..Len(q)
      /\ \A i \in 1..n : a[i] = q[i]
      /\ \A i \in 1..(Len(q) - n) : b[i] = q[n + i]
  OBVIOUS
<1> HIDE DEF a, b
<1>2. \A i, j \in 1..Len(q) : q[i] = q[j] => i = j
  BY <1>1 DEF IsInjective
<1>3. IsInjective(a)
  BY <1>1, <1>2 DEF IsInjective
<1>4. \A i \in 1..n : i \in 1..Len(q) /\ q[i] \in ToSet(q) \ ToSet(b)
  <2> TAKE i \in 1..n
  <2>1. i \in 1..Len(q)
    BY <1>1
  <2>2. \A j \in 1..(Len(q) - n) : n + j \in 1..Len(q) /\ n + j # i
    BY <1>1
  <2>3. \A j \in 1..(Len(q) - n) : b[j] # q[i]
    BY <1>1, <1>2, <2>1, <2>2
  <2> QED
    BY <1>1, <2>1, <2>3 DEF ToSet
<1>5. \A i \in 1..Len(q) : q[i] \notin ToSet(b) => i \in 1..n
  <2> SUFFICES ASSUME NEW i \in 1..Len(q), i > n PROVE q[i] \in ToSet(b)
    BY <1>1
  <2>1. i - n \in 1..(Len(q) - n) /\ n + (i - n) = i
    BY <1>1
  <2>2. b[i - n] = q[i]
    BY <1>1, <2>1
  <2> QED
    BY <1>1, <2>1, <2>2 DEF ToSet
<1>6. ToSet(a) = ToSet(q) \ ToSet(b)
  <2>1. \A k \in ToSet(a) : k \in ToSet(q) \ ToSet(b)
    <3>1. \A k \in ToSet(a) : \E i \in 1..n : k = q[i]
      BY <1>1 DEF ToSet
    <3> QED
      BY <1>4, <3>1
  <2>2. \A k \in ToSet(q) \ ToSet(b) : k \in ToSet(a)
    <3>1. \A k \in ToSet(q) \ ToSet(b) : \E i \in 1..n : k = a[i]
      <4>1. \A k \in ToSet(q) : \E i \in 1..Len(q) : k = q[i]
        BY <1>1 DEF ToSet
      <4> QED
        BY <1>1, <1>5, <4>1
    <3> QED
      BY <1>1, <3>1 DEF ToSet
  <2> QED
    BY <2>1, <2>2
<1> QED
  BY <1>1, <1>3, <1>6 DEF a, b

\* The store of a new entry, in place of an older one of its key, keeps the accounts.
LEMMA InsertKeepsAccounts ==
    ASSUME AccountingInv, TypeOK, NEW k, NEW e \in Entry, insertLocked(k, e)
    PROVE  AccountingInv'
<1> DEFINE K       == DOMAIN entries
           A       == K \cup {k}
           added   == [j \in A |-> IF j = k THEN e ELSE entries[j]]
           old     == Sizing(entries)
           sz      == Sizing(added)
           w       == Without(lru, {k})
           r       == <<k>> \o w
           total   == sizeBytes - (IF k \in K THEN entries[k].size ELSE 0) + e.size
           n       == KeptByEviction(r, total, sz)
           left    == SubSeq(r, 1, n)
           dropped == SubSeq(r, n + 1, Len(r))
<1>1. lru \in Seq(K) /\ IsInjective(lru) /\ ToSet(lru) = K /\ sizeBytes = Total(lru, old)
  BY DEF AccountingInv, Bytes
<1>2. old \in [K -> Nat] /\ \A j \in K : old[j] = entries[j].size
  BY SizingType DEF TypeOK, Sizing
<1>3. /\ DOMAIN added = A /\ sz \in [A -> Nat] /\ sz[k] = e.size
      /\ \A j \in K \ {k} : j \in A /\ sz[j] = old[j]
  <2>1. DOMAIN added = A /\ \A j \in A : added[j] \in Entry
    BY DEF TypeOK
  <2>2. sz \in [A -> Nat]
    <3> HIDE DEF added
    <3> QED
      BY <2>1, SizingType
  <2>3. k \in A /\ \A j \in A : sz[j] = added[j].size
    BY <2>1 DEF Sizing
  <2> QED
    BY <1>2, <2>1, <2>2, <2>3
<1>4. /\ entries' = [j \in A \ ToSet(dropped) |-> added[j]] /\ lru' = left
      /\ sizeBytes' = total - Total(dropped, sz)
  BY <1>3 DEF insertLocked
<1>5. total = sizeBytes - (IF k \in K THEN old[k] ELSE 0) + sz[k]
  BY <1>2, <1>3
<1> HIDE DEF K, A, added, old, sz, w, n, total
<1>6. w \in Seq(K) /\ ToSet(w) = K \ {k} /\ Total(w, old) \in Nat
  BY <1>1, <1>2, WithoutIs, TotalNat DEF w
<1>7. Total(w, sz) = Total(w, old)
  <2>1. \A i \in 1..Len(w) : w[i] \in A /\ sz[w[i]] = old[w[i]]
    <3>1. \A i \in 1..Len(w) : w[i] \in K \ {k}
      BY <1>6 DEF ToSet
    <3> QED
      BY <1>3, <3>1
  <2>2. \A i \in 1..Len(w) : sz[w[i]] = old[w[i]]
    BY <2>1
  <2>3. old \in [K -> Nat] /\ sz \in [A -> Nat] /\ w \in Seq(K)
    BY <1>2, <1>3, <1>6
  <2>4. w \in Seq(A)
    <3>1. \A i \in 1..Len(w) : w[i] \in A
      BY <2>1
    <3> QED
      BY <2>3, <3>1
  <2> QED
    BY <2>2, <2>3, <2>4, TotalSame
<1>8. /\ r \in Seq(A) /\ IsInjective(r) /\ ToSet(r) = A /\ k \in A
  BY <1>1, FrontOfList DEF w, A
<1>9. total = Total(r, sz)
  <2>1. total = Total(w, old) + sz[k]
    <3>1. sz[k] \in Nat
      BY <1>3, <1>8
    <3>2. CASE k \in K
      <4>1. Total(lru, old) = Total(w, old) + old[k] /\ old[k] \in Nat
        BY <1>1, <1>2, <3>2, WithoutOne DEF w
      <4> QED
        BY <1>1, <1>5, <1>6, <3>1, <3>2, <4>1
    <3>3. CASE k \notin K
      <4>1. Total(lru, old) = Total(w, old) + Total(Without(lru, K), old)
        <5>1. \A i \in 1..Len(lru) : lru[i] \in {k} <=> lru[i] \notin K
          BY <1>1, <3>3
        <5> QED
          BY <1>1, <1>2, <5>1, WithoutSplits DEF w
      <4>2. Without(lru, K) = << >>
        <5> DEFINE z == Without(lru, K)
        <5>1. z \in Seq(K) /\ ToSet(z) = {}
          <6>1. z \in Seq(K) /\ ToSet(z) = ToSet(lru) \ K
            BY <1>1, WithoutIs
          <6> QED
            BY <1>1, <6>1
        <5> HIDE DEF z
        <5>2. DOMAIN z = 1..Len(z) /\ Len(z) \in Nat
          BY <5>1
        <5>3. Len(z) = 0
          <6> SUFFICES ASSUME Len(z) > 0 PROVE FALSE
            BY <5>2
          <6>1. 1 \in DOMAIN z
            BY <5>2
          <6>2. z[1] \in ToSet(z)
            BY <6>1 DEF ToSet
          <6> QED
            BY <5>1, <6>2
        <5>4. z = << >>
          BY <5>1, <5>3
        <5> QED
          BY <5>4 DEF z
      <4>3. Total(Without(lru, K), old) = 0
        BY <1>2, <4>2, TotalEmpty
      <4> QED
        BY <1>1, <1>5, <1>6, <3>1, <3>3, <4>1, <4>3
    <3> QED
      BY <3>2, <3>3
  <2>2. Total(r, sz) = sz[k] + Total(w, sz)
    <3>1. w \in Seq(A)
      BY <1>6 DEF A
    <3> QED
      BY <1>3, <1>8, <3>1, TotalFront
  <2>3. sz[k] \in Nat
    BY <1>3, <1>8
  <2> QED
    BY <1>6, <1>7, <2>1, <2>2, <2>3
<1> HIDE DEF r
<1>10. n \in 0..Len(r) /\ n <= MaxEntries /\ Total(r, sz) - Total(dropped, sz) <= MaxBytes
  BY <1>3, <1>8, <1>9, EvictionFits DEF n
<1>11. /\ left \in Seq(A) /\ dropped \in Seq(A) /\ Len(left) = n /\ IsInjective(left)
       /\ ToSet(left) = A \ ToSet(dropped)
  BY <1>8, <1>10, CutApart
<1>12. Total(r, sz) = Total(left, sz) + Total(dropped, sz)
  BY <1>3, <1>8, <1>10, TotalSplit
<1> HIDE DEF left, dropped
<1>13. Total(left, sz) \in Nat /\ Total(dropped, sz) \in Nat
  BY <1>3, <1>11, TotalNat
<1>14. sizeBytes' = Total(left, sz) /\ sizeBytes' <= MaxBytes
  BY <1>4, <1>9, <1>10, <1>12, <1>13
<1> DEFINE L == A \ ToSet(dropped)
           B == Sizing(entries')
<1>15. DOMAIN entries' = L /\ \A j \in L : entries'[j] = added[j] /\ j \in A
  BY <1>4
<1>16. B \in [L -> Nat] /\ \A j \in L : B[j] = sz[j]
  <2>1. \A j \in L : B[j] = sz[j]
    BY <1>3, <1>15 DEF Sizing, sz
  <2>2. B \in [L -> Nat]
    <3>1. B = [j \in L |-> B[j]]
      BY <1>15 DEF Sizing
    <3>2. \A j \in L : B[j] \in Nat
      BY <1>3, <1>15, <2>1
    <3> HIDE DEF B, L
    <3> QED
      BY <3>1, <3>2
  <2> QED
    BY <2>1, <2>2
<1> HIDE DEF L, B
<1>17. \A i \in 1..Len(left) : left[i] \in L
  <2>1. DOMAIN left = 1..Len(left)
    BY <1>11
  <2> QED
    BY <1>11, <2>1 DEF ToSet, L
<1>18. left \in Seq(L)
  BY <1>11, <1>17
<1>19. Total(left, B) = Total(left, sz)
  <2>1. \A i \in 1..Len(left) : B[left[i]] = sz[left[i]]
    BY <1>16, <1>17
  <2>2. sz \in [A -> Nat] /\ B \in [L -> Nat] /\ left \in Seq(A) /\ left \in Seq(L)
    BY <1>3, <1>11, <1>16, <1>18
  <2> QED
    BY <2>1, <2>2, TotalSame
<1>20. sizeBytes' = Bytes(lru)'
  BY <1>4, <1>14, <1>19 DEF Bytes, B
<1> QED
  BY <1>4, <1>10, <1>11, <1>14, <1>15, <1>18, <1>20 DEF AccountingInv, L

\* Every step keeps the accounts.
LEMMA AccountingStep == TypeOK /\ AccountingInv /\ [Next]_vars => AccountingInv'
<1> SUFFICES ASSUME TypeOK, AccountingInv, [Next]_vars PROVE AccountingInv'
  OBVIOUS
<1> USE DEF cacheVars
<1>1. ASSUME UNCHANGED <<entries, lru, sizeBytes>> PROVE AccountingInv'
  BY <1>1 DEF AccountingInv, Bytes
<1>2. ASSUME Clear PROVE AccountingInv'
  <2>1. entries' = << >> /\ lru' = << >> /\ sizeBytes' = 0 /\ DOMAIN entries' = {}
    BY <1>2 DEF Clear
  <2>2. Sizing(entries') \in [{} -> Nat]
    BY <2>1 DEF Sizing
  <2>3. Total(<< >>, Sizing(entries')) = 0
    BY <2>2, TotalEmpty
  <2>4. IsInjective(<< >>) /\ ToSet(<< >>) = {} /\ << >> \in Seq({}) /\ Len(<< >>) = 0
    BY DEF IsInjective, ToSet
  <2> QED
    BY <2>1, <2>3, <2>4, ConstantsAssumption DEF AccountingInv, Bytes
<1>3. ASSUME NEW p \in Procs, get(p) PROVE AccountingInv'
  <2>1. CASE Key(p) \in DOMAIN entries /\ removeLocked(Key(p))
    BY <2>1, RemoveKeepsAccounts
  <2>2. CASE Key(p) \in DOMAIN entries /\ lru' = <<Key(p)>> \o Without(lru, {Key(p)})
             /\ UNCHANGED <<entries, sizeBytes>>
    BY <2>2, HitKeepsAccounts
  <2> QED
    BY <1>1, <1>3, <2>1, <2>2 DEF get
<1>4. ASSUME NEW p \in Procs, store(p) PROVE AccountingInv'
  <2>1. ASSUME NEW s \in Sizes,
               insertLocked(Key(p), [settings |-> proc[p].settings, week |-> proc[p].week,
                  size |-> s, expiresAt |-> proc[p].now + 1, intact |-> TRUE])
        PROVE  AccountingInv'
    <3>1. [settings |-> proc[p].settings, week |-> proc[p].week,
           size |-> s, expiresAt |-> proc[p].now + 1, intact |-> TRUE] \in Entry
      BY ConstantsAssumption DEF TypeOK, Local, Entry, Days
    <3> QED
      BY <2>1, <3>1, InsertKeepsAccounts
  <2> QED
    BY <1>1, <1>4, <2>1 DEF store
<1>5. ASSUME NEW k \in Keys, CorruptEntry(k) PROVE AccountingInv'
  <2>1. DOMAIN entries' = DOMAIN entries /\ \A j \in DOMAIN entries : entries'[j].size = entries[j].size
    <3>1. k \in DOMAIN entries /\ entries[k] \in Entry /\ entries' = [entries EXCEPT ![k] = [entries[k] EXCEPT !.intact = FALSE]]
      BY <1>5 DEF CorruptEntry, TypeOK
    <3>2. [entries[k] EXCEPT !.intact = FALSE].size = entries[k].size
      BY <3>1 DEF Entry
    <3> QED
      BY <3>1, <3>2
  <2>2. Sizing(entries') = Sizing(entries)
    BY <2>1 DEF Sizing
  <2> QED
    BY <1>5, <2>1, <2>2 DEF CorruptEntry, AccountingInv, Bytes
<1>6. ASSUME NEW w \in Writers, Write(w) PROVE AccountingInv'
  <2>1. ASSUME NEW g \in Groups, refreshTodayContent(w, g) PROVE AccountingInv'
    BY <2>1, InvalidateKeepsAccounts DEF refreshTodayContent
  <2>2. CASE ClearAfterAsset(w)
    BY <1>2, <2>2 DEF ClearAfterAsset
  <2> QED
    BY <1>1, <1>6, <2>1, <2>2 DEF Write, SaveSettings, SaveWeek, SaveAsset
<1>7. ASSUME NEW g \in Groups, handleClearTodayCache(g) PROVE AccountingInv'
  BY <1>7, InvalidateKeepsAccounts DEF handleClearTodayCache
<1>8. CASE Maintenance
  <2>1. CASE MaintainerTick
    BY <1>2, <2>1 DEF MaintainerTick
  <2> QED
    BY <1>1, <1>8, <2>1 DEF Maintenance, activeStudyGroupIDs, ResetTimer, MaintainerRefresh,
       prewarmTodayGroup
<1>9. ASSUME NEW p \in Procs, handleToday(p) \/ Capture(p) \/ LoadSettings(p) \/ LoadWeek(p) \/ LoadFails(p)
      PROVE  AccountingInv'
  BY <1>1, <1>9 DEF handleToday, Capture, LoadSettings, LoadWeek, LoadFails
<1>10. CASE Midnight \/ UNCHANGED vars
  BY <1>1, <1>10 DEF Midnight, vars
<1> QED
  BY <1>3, <1>4, <1>5, <1>6, <1>7, <1>8, <1>9, <1>10 DEF Next, Load

LEMMA AccountingInit == Init => AccountingInv
<1> SUFFICES ASSUME Init PROVE AccountingInv
  OBVIOUS
<1>1. entries = << >> /\ lru = << >> /\ sizeBytes = 0 /\ DOMAIN entries = {}
  BY DEF Init
<1>2. Sizing(entries) \in [{} -> Nat]
  BY <1>1 DEF Sizing
<1>3. Total(<< >>, Sizing(entries)) = 0
  BY <1>2, TotalEmpty
<1>4. IsInjective(<< >>) /\ ToSet(<< >>) = {} /\ << >> \in Seq({}) /\ Len(<< >>) = 0
  BY DEF IsInjective, ToSet
<1> QED
  BY <1>1, <1>3, <1>4, ConstantsAssumption DEF AccountingInv, Bytes

-----------------------------------------------------------------------------
\* Type correctness of the cache, its callers and its worker.
THEOREM TypeCorrect == Spec => []TypeOK
<1>1. Init => TypeOK
  BY FreshnessInit DEF FreshnessInv
<1> QED
  BY <1>1, TypeStep, PTL DEF Spec

\* The cache never holds content older than the group's last invalidation: a
\* load that an invalidation overtook is not stored, a cached entry that it
\* concerns is unlinked (today_cache.go, store, InvalidateGroup and Clear).
THEOREM CacheIsFresh == Spec => []FreshCache
<1>1. FreshnessInv => FreshCache
  BY DEF FreshnessInv
<1> QED
  BY <1>1, FreshnessInit, FreshnessStep, PTL DEF Spec

\* Whatever the interleaving, todayContent answers with content at least as
\* new as every write that was invalidated before the call began.
THEOREM ReadYourWrites == Spec => []ReadsAcknowledgedWrites
<1>1. FreshnessInv => ReadsAcknowledgedWrites
  BY DEF FreshnessInv
<1> QED
  BY <1>1, FreshnessInit, FreshnessStep, PTL DEF Spec

\* Whichever goroutines load, store, hit, corrupt, invalidate or clear, in whatever order, the
\* list holds every cached key once, the byte count is that of the payloads, and neither limit
\* is exceeded when the mutex is free (today_cache.go, store and removeLocked).
THEOREM AccountsAreExact == Spec => []CacheAccounting
<1>1. Init => TypeOK /\ AccountingInv
  BY FreshnessInit, AccountingInit DEF FreshnessInv
<1>2. TypeOK /\ AccountingInv /\ [Next]_vars => (TypeOK /\ AccountingInv)'
  BY TypeStep, AccountingStep
<1> QED
  BY <1>1, <1>2, AccountingImplied, PTL DEF Spec
=============================================================================
