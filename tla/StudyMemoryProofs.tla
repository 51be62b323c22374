-------------------------- MODULE StudyMemoryProofs --------------------------
(***************************************************************************)
(* Proofs about playing positions and favourites, for any accounts, items, *)
(* acts, failures and numbers of requests.  MemoryInv is inductive: it     *)
(* says of every request what its answer may still do to what is stored;   *)
(* SettleInv, relative to it, says what ends every turning.                *)
(***************************************************************************)
EXTENDS StudyMemory, TLAPS

CallType ==
    [kind : {"put", "get"}, own : Users, item : Items \cup {0}, ver : Nat, got : [Items -> Nat],
     moved : BOOLEAN, cur : BOOLEAN, waits : {0, 1}, ph : {"sent", "ok", "err"}]

Values == [Owners -> [Items -> Nat]]

StateType ==
    /\ account \in Owners /\ frame \in Owners /\ told \subseteq Users
    /\ ready \in BOOLEAN /\ syncing \in BOOLEAN /\ failure \in BOOLEAN /\ loadFailed \in BOOLEAN
    /\ local \in Values /\ pending \in Values /\ server \in Values
    /\ mine \in Values /\ put \in Values
    /\ made \in Seq(Owners) /\ calls \in Seq(CallType)
    /\ overtaken \in BOOLEAN /\ revived \in BOOLEAN

\* n is no value, or one that was saved for account u.
Owned(n, u, saved) == n <= Len(saved) /\ (n # 0 => saved[n] = u)

\* What is stored for every account: the device and the server have its own values, what
\* waits is the last one saved here, and the server is not behind what it has got from here.
StoredInv ==
    \A u \in Owners, i \in Items :
        /\ Owned(local[u][i], u, made) /\ Owned(server[u][i], u, made) /\ Owned(mine[u][i], u, made)
        /\ pending[u][i] \in {0, mine[u][i]} /\ (u = None => pending[u][i] = 0)
        /\ put[u][i] <= mine[u][i] /\ put[u][i] <= server[u][i]
        /\ ~overtaken => local[u][i] >= mine[u][i]
        /\ u \in Users /\ mine[u][i] # 0 => pending[u][i] = mine[u][i] \/ put[u][i] = mine[u][i] \/ overtaken

\* What the requests depend on.
View == [account |-> account, pending |-> pending, mine |-> mine, put |-> put, made |-> made,
         overtaken |-> overtaken, revived |-> revived]

ViewType == [account : Owners, pending : Values, mine : Values, put : Values, made : Seq(Owners),
             overtaken : BOOLEAN, revived : BOOLEAN]

\* A worker's request carries a value saved here for its account; once it is answered the
\* server has that value or a later one, and until then none later, unless a worker that was
\* left went on.
PutFits(c, v) ==
    /\ c.item \in Items /\ 0 < c.ver /\ c.ver <= v.mine[c.own][c.item] /\ Owned(c.ver, c.own, v.made)
    /\ c.ph = "ok" => v.overtaken \/ c.ver <= v.put[c.own][c.item]
    /\ c.ph = "sent" => v.revived \/ c.ver >= v.put[c.own][c.item]
    /\ c.own = v.account => v.revived \/ c.cur

\* A poll that still counts has found nothing older than what was last saved here and does
\* not wait any more.
GetFits(c, v) ==
    /\ ~c.cur
    /\ \A i \in Items :
          /\ Owned(c.got[i], c.own, v.made)
          /\ c.ph = "ok" /\ v.pending[c.own][i] = 0 =>
                c.moved \/ v.overtaken \/ c.got[i] >= v.mine[c.own][i]

CallFits(c, v) ==
    /\ c.kind = "put" => PutFits(c, v)
    /\ c.kind = "get" => GetFits(c, v)
    /\ c.cur => c.own = v.account

\* There is one worker, and one request with a value of each account, unless a worker that
\* was left went on.
CallsFit(s, v) ==
    /\ \A k \in DOMAIN s : CallFits(s[k], v)
    /\ \A j, k \in DOMAIN s : s[j].cur /\ s[k].cur => j = k
    /\ \A j, k \in DOMAIN s :
          s[j].kind = "put" /\ s[k].kind = "put" /\ s[j].own = s[k].own => v.revived \/ j = k

MemoryInv ==
    /\ StateType
    /\ StoredInv
    /\ CallsFit(calls, View)
    /\ overtaken => revived

LEMMA ViewIs == StateType => View \in ViewType
BY DEF StateType, View, ViewType

-----------------------------------------------------------------------------
(* Lists of requests                                                        *)

\* Requests that are asked before a save do not count after it.
LEMMA MovedIs ==
    ASSUME NEW s \in Seq(CallType)
    PROVE  /\ Moved(s) \in Seq(CallType) /\ Len(Moved(s)) = Len(s)
           /\ \A k \in 1..Len(s) :
                /\ s[k].kind = "put" => Moved(s)[k] = s[k]
                /\ s[k].kind = "get" => /\ Moved(s)[k].kind = "get" /\ Moved(s)[k].moved
                                        /\ Moved(s)[k].own = s[k].own /\ Moved(s)[k].got = s[k].got
                                        /\ Moved(s)[k].cur = s[k].cur /\ Moved(s)[k].ph = s[k].ph
<1> DEFINE m == [k \in 1..Len(s) |-> IF s[k].kind = "get" THEN [s[k] EXCEPT !.moved = TRUE] ELSE s[k]]
<1>1. Moved(s) = m
  BY DEF Moved
<1>2. \A k \in 1..Len(s) : s[k] \in CallType /\ [s[k] EXCEPT !.moved = TRUE] \in CallType
  <2>1. \A k \in 1..Len(s) : s[k] \in CallType
    OBVIOUS
  <2>2. \A c \in CallType : [c EXCEPT !.moved = TRUE] \in CallType
    BY DEF CallType
  <2> QED
    BY <2>1, <2>2
<1>3. m \in Seq(CallType) /\ Len(m) = Len(s)
  <2>1. \A k \in 1..Len(s) : m[k] \in CallType
    BY <1>2
  <2> QED
    BY <2>1
<1>4. \A k \in 1..Len(s) : m[k] = IF s[k].kind = "get" THEN [s[k] EXCEPT !.moved = TRUE] ELSE s[k]
  OBVIOUS
<1> HIDE DEF m
<1>5. ASSUME NEW k \in 1..Len(s), s[k].kind = "get"
      PROVE  /\ m[k].kind = "get" /\ m[k].moved /\ m[k].own = s[k].own /\ m[k].got = s[k].got
             /\ m[k].cur = s[k].cur /\ m[k].ph = s[k].ph
  <2>1. m[k] = [s[k] EXCEPT !.moved = TRUE]
    BY <1>4, <1>5
  <2> QED
    BY <1>2, <1>5, <2>1 DEF CallType
<1>6. ASSUME NEW k \in 1..Len(s), s[k].kind = "put" PROVE m[k] = s[k]
  BY <1>4, <1>6
<1> QED
  BY <1>1, <1>3, <1>5, <1>6

LEMMA RemoveIs ==
    ASSUME NEW T, NEW s \in Seq(T), NEW k \in DOMAIN s
    PROVE  /\ RemoveAt(s, k) \in Seq(T) /\ Len(RemoveAt(s, k)) = Len(s) - 1
           /\ \A j \in 1..(Len(s) - 1) : RemoveAt(s, k)[j] = s[IF j < k THEN j ELSE j + 1]
<1>1. k \in 1..Len(s) /\ Len(s) \in Nat
  OBVIOUS
<1> DEFINE a == SubSeq(s, 1, k - 1)
           b == SubSeq(s, k + 1, Len(s))
<1>2. a \in Seq(T) /\ b \in Seq(T) /\ Len(a) = k - 1 /\ Len(b) = Len(s) - k
  BY <1>1
<1>3. /\ \A j \in 1..(k - 1) : a[j] = s[j]
      /\ \A j \in 1..(Len(s) - k) : b[j] = s[k + j]
  BY <1>1
<1> HIDE DEF a, b
<1>4. /\ a \o b \in Seq(T) /\ Len(a \o b) = Len(s) - 1
      /\ \A j \in 1..(Len(s) - 1) : (a \o b)[j] = IF j <= k - 1 THEN a[j] ELSE b[j - (k - 1)]
  BY <1>1, <1>2, SMTT(40)
<1>5. \A j \in 1..(Len(s) - 1) : (a \o b)[j] = s[IF j < k THEN j ELSE j + 1]
  <2> TAKE j \in 1..(Len(s) - 1)
  <2>1. CASE j < k
    <3>1. j \in 1..(k - 1) /\ j <= k - 1
      BY <1>1, <2>1
    <3> QED
      BY <1>3, <1>4, <2>1, <3>1
  <2>2. CASE ~(j < k)
    <3>1. ~(j <= k - 1) /\ j - (k - 1) \in 1..(Len(s) - k) /\ k + (j - (k - 1)) = j + 1
      BY <1>1, <2>2
    <3> QED
      BY <1>3, <1>4, <2>2, <3>1
  <2> QED
    BY <2>1, <2>2
<1> QED
  BY <1>4, <1>5 DEF RemoveAt, a, b

-----------------------------------------------------------------------------
(* What fits stays fitting                                                  *)

\* Some of the requests, in whatever order.
LEMMA PartFits ==
    ASSUME NEW v, NEW s \in Seq(CallType), NEW r \in Seq(CallType), CallsFit(s, v),
           NEW g \in [1..Len(r) -> 1..Len(s)],
           \A j \in 1..Len(r) : r[j] = s[g[j]],
           \A i, j \in 1..Len(r) : g[i] = g[j] => i = j
    PROVE  CallsFit(r, v)
<1>1. DOMAIN s = 1..Len(s) /\ DOMAIN r = 1..Len(r)
  OBVIOUS
<1>2. \A j \in 1..Len(r) : g[j] \in 1..Len(s)
  OBVIOUS
<1>3. /\ \A k \in 1..Len(s) : CallFits(s[k], v)
      /\ \A j, k \in 1..Len(s) : s[j].cur /\ s[k].cur => j = k
      /\ \A j, k \in 1..Len(s) :
            s[j].kind = "put" /\ s[k].kind = "put" /\ s[j].own = s[k].own => v.revived \/ j = k
  BY <1>1 DEF CallsFit
<1>4. \A j \in 1..Len(r) : CallFits(r[j], v)
  BY <1>2, <1>3
<1>5. \A i, j \in 1..Len(r) : r[i].cur /\ r[j].cur => i = j
  BY <1>2, <1>3
<1>6. \A i, j \in 1..Len(r) :
         r[i].kind = "put" /\ r[j].kind = "put" /\ r[i].own = r[j].own => v.revived \/ i = j
  BY <1>2, <1>3
<1> QED
  BY <1>1, <1>4, <1>5, <1>6 DEF CallsFit

\* A request taken out leaves the others.
LEMMA RemoveFits ==
    ASSUME NEW v, NEW s \in Seq(CallType), NEW k \in DOMAIN s, CallsFit(s, v)
    PROVE  RemoveAt(s, k) \in Seq(CallType) /\ CallsFit(RemoveAt(s, k), v)
<1> DEFINE r == RemoveAt(s, k)
           g == [j \in 1..(Len(s) - 1) |-> IF j < k THEN j ELSE j + 1]
<1>1. k \in 1..Len(s) /\ Len(s) \in Nat
  OBVIOUS
<1>2. /\ r \in Seq(CallType) /\ Len(r) = Len(s) - 1
      /\ \A j \in 1..(Len(s) - 1) : r[j] = s[IF j < k THEN j ELSE j + 1]
  BY RemoveIs
<1> HIDE DEF r
<1>3. /\ g \in [1..Len(r) -> 1..Len(s)]
      /\ \A j \in 1..Len(r) : g[j] = IF j < k THEN j ELSE j + 1
      /\ \A i, j \in 1..Len(r) : g[i] = g[j] => i = j
  BY <1>1, <1>2
<1> HIDE DEF g
<1>4. \A j \in 1..Len(r) : r[j] = s[g[j]]
  BY <1>2, <1>3
<1>5. CallsFit(r, v)
  BY <1>2, <1>3, <1>4, PartFits
<1> QED
  BY <1>2, <1>5 DEF r

\* Requests that change, or are seen otherwise, and are still of the same kind and account.
LEMMA ChangedFit ==
    ASSUME NEW v, NEW w, NEW s \in Seq(CallType), NEW t \in Seq(CallType), CallsFit(s, v),
           Len(t) = Len(s), v.revived => w.revived,
           \A k \in 1..Len(s) :
              /\ CallFits(t[k], w)
              /\ t[k].kind = s[k].kind /\ t[k].own = s[k].own /\ (t[k].cur => s[k].cur)
    PROVE  CallsFit(t, w)
<1>1. DOMAIN s = 1..Len(s) /\ DOMAIN t = 1..Len(s)
  OBVIOUS
<1>2. /\ \A j, k \in 1..Len(s) : s[j].cur /\ s[k].cur => j = k
      /\ \A j, k \in 1..Len(s) :
            s[j].kind = "put" /\ s[k].kind = "put" /\ s[j].own = s[k].own => v.revived \/ j = k
  BY <1>1 DEF CallsFit
<1>3. \A j, k \in 1..Len(s) : t[j].cur /\ t[k].cur => j = k
  BY <1>2
<1>4. \A j, k \in 1..Len(s) :
         t[j].kind = "put" /\ t[k].kind = "put" /\ t[j].own = t[k].own => w.revived \/ j = k
  BY <1>2
<1> QED
  BY <1>1, <1>3, <1>4 DEF CallsFit

\* Polls that are told of a save fit whatever waits.
LEMMA MovedFits ==
    ASSUME NEW v, NEW w, NEW s \in Seq(CallType), CallsFit(s, v),
           w.account = v.account, w.mine = v.mine, w.put = v.put, w.made = v.made,
           w.overtaken = v.overtaken, w.revived = v.revived
    PROVE  Moved(s) \in Seq(CallType) /\ CallsFit(Moved(s), w)
<1> DEFINE m == Moved(s)
<1>1. /\ m \in Seq(CallType) /\ Len(m) = Len(s) /\ DOMAIN s = 1..Len(s)
      /\ \A k \in 1..Len(s) :
                /\ s[k].kind = "put" => m[k] = s[k]
                /\ s[k].kind = "get" => /\ m[k].kind = "get" /\ m[k].moved
                                        /\ m[k].own = s[k].own /\ m[k].got = s[k].got
                                        /\ m[k].cur = s[k].cur /\ m[k].ph = s[k].ph
  BY MovedIs
<1>2. \A k \in 1..Len(s) : s[k].kind \in {"put", "get"}
  <2>1. \A k \in 1..Len(s) : s[k] \in CallType
    OBVIOUS
  <2> QED
    BY <2>1 DEF CallType
<1> HIDE DEF m
<1>3. \A k \in 1..Len(s) : CallFits(m[k], w)
  <2> TAKE k \in 1..Len(s)
  <2>0. CallFits(s[k], v)
    BY <1>1 DEF CallsFit
  <2>1. CASE s[k].kind = "put"
    <3>1. m[k] = s[k] /\ s[k].kind # "get"
      BY <1>1, <2>1
    <3>2. PutFits(s[k], v)
      BY <2>0, <2>1 DEF CallFits
    <3>3. PutFits(s[k], w)
      BY <3>2 DEF PutFits
    <3> QED
      BY <2>0, <3>1, <3>3 DEF CallFits
  <2>2. CASE s[k].kind = "get"
    <3>1. GetFits(s[k], v) /\ s[k].kind # "put"
      BY <2>0, <2>2 DEF CallFits
    <3>2. GetFits(m[k], w)
      BY <1>1, <2>2, <3>1 DEF GetFits
    <3> QED
      BY <1>1, <2>0, <2>2, <3>2 DEF CallFits
  <2> QED
    BY <1>2, <2>1, <2>2
<1>4. \A k \in 1..Len(s) : m[k].cur = s[k].cur /\ m[k].kind = s[k].kind /\ m[k].own = s[k].own
  BY <1>1, <1>2
<1>5. CallsFit(m, w)
  BY <1>1, <1>3, <1>4, ChangedFit, ZenonT(40)
<1> QED
  BY <1>1, <1>5 DEF m

\* A new request with which there is still one worker.
LEMMA AppendFits ==
    ASSUME NEW v, NEW s \in Seq(CallType), NEW c \in CallType, CallsFit(s, v), CallFits(c, v),
           c.cur => Works(s),
           c.kind = "put" => v.revived \/ \A k \in DOMAIN s : ~(s[k].kind = "put" /\ s[k].own = c.own)
    PROVE  Append(s, c) \in Seq(CallType) /\ CallsFit(Append(s, c), v)
<1> DEFINE t == Append(s, c)
<1>1. /\ t \in Seq(CallType) /\ DOMAIN s = 1..Len(s) /\ DOMAIN t = 1..(Len(s) + 1) /\ Len(s) \in Nat
      /\ t[Len(s) + 1] = c /\ \A k \in 1..Len(s) : t[k] = s[k]
  OBVIOUS
<1> HIDE DEF t
<1>2. /\ \A k \in 1..Len(s) : CallFits(s[k], v)
      /\ \A j, k \in 1..Len(s) : s[j].cur /\ s[k].cur => j = k
      /\ \A j, k \in 1..Len(s) :
            s[j].kind = "put" /\ s[k].kind = "put" /\ s[j].own = s[k].own => v.revived \/ j = k
      /\ c.cur => \A k \in 1..Len(s) : ~s[k].cur
      /\ c.kind = "put" => v.revived \/ \A k \in 1..Len(s) : ~(s[k].kind = "put" /\ s[k].own = c.own)
  BY <1>1 DEF CallsFit, Works
<1>3. \A k \in 1..(Len(s) + 1) : k \in 1..Len(s) \/ k = Len(s) + 1
  BY <1>1
<1>4. \A k \in 1..(Len(s) + 1) : CallFits(t[k], v)
  BY <1>1, <1>2, <1>3
<1>5. \A j, k \in 1..(Len(s) + 1) : t[j].cur /\ t[k].cur => j = k
  BY <1>1, <1>2, <1>3
<1>6. \A j, k \in 1..(Len(s) + 1) :
         t[j].kind = "put" /\ t[k].kind = "put" /\ t[j].own = t[k].own => v.revived \/ j = k
  BY <1>1, <1>2, <1>3
<1>7. CallsFit(t, v)
  BY <1>1, <1>4, <1>5, <1>6 DEF CallsFit
<1> QED
  BY <1>1, <1>7 DEF t

\* A poll that is sent has found nothing yet.
LEMMA GetIs ==
    ASSUME NEW v, NEW u \in Users
    PROVE  /\ Get(u) \in CallType /\ CallFits(Get(u), v)
           /\ ~Get(u).cur /\ Get(u).kind = "get" /\ Get(u).own = u
BY DEF Get, Zero, CallType, CallFits, GetFits, Owned

\* Polls that waited are sent.
LEMMA PollsFit ==
    ASSUME NEW v, NEW s \in Seq(CallType), NEW u \in Users, NEW n \in {0, 1}, CallsFit(s, v)
    PROVE  LET t == s \o [k \in 1..n |-> Get(u)] IN t \in Seq(CallType) /\ CallsFit(t, v)
<1> DEFINE c == Get(u)
<1>1. c \in CallType /\ CallFits(c, v) /\ ~c.cur /\ c.kind = "get"
  BY GetIs
<1> HIDE DEF c
<1>2. CASE n = 0
  <2>1. s \o [k \in 1..n |-> c] = s
    BY <1>2
  <2> QED
    BY <2>1 DEF c
<1>3. CASE n = 1
  <2>0. [k \in 1..n |-> c] = <<c>>
    BY <1>3
  <2>1. s \o <<c>> = Append(s, c)
    BY <1>1
  <2>2. Append(s, c) \in Seq(CallType) /\ CallsFit(Append(s, c), v)
    BY <1>1, AppendFits
  <2> QED
    BY <2>0, <2>1, <2>2 DEF c
<1> QED
  BY <1>2, <1>3

\* What a flush may send: values that wait for the account are the last saved here.
Ready(v) ==
    /\ v.account = account /\ account \in Users
    /\ \A i \in Items : v.pending[account][i] # 0 =>
          /\ v.pending[account][i] \in Nat /\ v.pending[account][i] = v.mine[account][i]
          /\ v.put[account][i] <= v.mine[account][i] /\ Owned(v.mine[account][i], account, v.made)

\* A value that waits makes a request that fits.
LEMMA PutIs ==
    ASSUME NEW v, Ready(v), NEW i \in Waiting(v.pending, account), NEW n \in {0, 1}
    PROVE  LET c == Put(i, v.pending[account][i], n) IN
           c \in CallType /\ CallFits(c, v) /\ c.cur /\ c.kind = "put" /\ c.own = account
<1>1. i \in Items /\ v.pending[account][i] # 0
  BY DEF Waiting
<1> DEFINE x == v.pending[account][i]
<1>2. /\ x \in Nat /\ 0 < x /\ x = v.mine[account][i] /\ v.put[account][i] <= x
      /\ Owned(x, account, v.made) /\ account \in Users /\ v.account = account
  BY <1>1 DEF Ready
<1> HIDE DEF x
<1> DEFINE c == Put(i, x, n)
<1>3. c \in CallType
  BY <1>1, <1>2 DEF Put, Zero, CallType
<1>4. /\ c.kind = "put" /\ c.own = account /\ c.item = i /\ c.ver = x /\ c.cur /\ c.ph = "sent"
  BY DEF Put
<1> HIDE DEF c
<1>5. PutFits(c, v)
  BY <1>1, <1>2, <1>4 DEF PutFits
<1>6. CallFits(c, v)
  BY <1>2, <1>4, <1>5 DEF CallFits
<1> QED
  BY <1>3, <1>4, <1>6 DEF c, x

\* A flush leaves requests that fit: a worker starts only where there is none.
LEMMA FlushFits ==
    ASSUME NEW v, Ready(v), NEW s \in Seq(CallType), CallsFit(s, v),
           NEW t \in BOOLEAN, NEW f \in BOOLEAN, NEW lf \in BOOLEAN, NEW n \in {0, 1},
           Flush(s, v.pending, t, f, lf, n)
    PROVE  /\ calls' \in Seq(CallType) /\ CallsFit(calls', v)
           /\ syncing' \in BOOLEAN /\ failure' \in BOOLEAN
<1>1. CASE ~Works(s)
  BY <1>1 DEF Flush
<1>2. CASE /\ Works(s)
           /\ failure' = (f /\ lf)
           /\ calls' = s \o [k \in 1..n |-> Get(account)] /\ syncing' = (n > 0)
  <2>1. account \in Users
    BY DEF Ready
  <2>2. syncing' \in BOOLEAN /\ failure' \in BOOLEAN
    BY <1>2
  <2>3. calls' \in Seq(CallType) /\ CallsFit(calls', v)
    BY <1>2, <2>1, PollsFit
  <2> QED
    BY <2>2, <2>3
<1>3. ASSUME Works(s), NEW i \in Waiting(v.pending, account),
             calls' = Append(s, Put(i, v.pending[account][i], n)), syncing' = TRUE, failure' = f
      PROVE  /\ calls' \in Seq(CallType) /\ CallsFit(calls', v)
             /\ syncing' \in BOOLEAN /\ failure' \in BOOLEAN
  <2> DEFINE c == Put(i, v.pending[account][i], n)
  <2>1. c \in CallType /\ CallFits(c, v) /\ c.cur /\ c.kind = "put" /\ c.own = account
    BY PutIs
  <2> HIDE DEF c
  <2>2. ASSUME NEW k \in DOMAIN s, s[k].kind = "put", s[k].own = c.own PROVE v.revived
    <3>1. PutFits(s[k], v) /\ ~s[k].cur
      BY <1>3, <2>2 DEF CallsFit, CallFits, Works
    <3> QED
      BY <2>1, <2>2, <3>1 DEF PutFits, Ready
  <2>3. c.kind = "put" => v.revived \/ \A k \in DOMAIN s : ~(s[k].kind = "put" /\ s[k].own = c.own)
    BY <2>2
  <2>4. Append(s, c) \in Seq(CallType) /\ CallsFit(Append(s, c), v)
    BY <1>3, <2>1, <2>3, AppendFits
  <2> QED
    BY <1>3, <2>4 DEF c
<1> QED
  BY <1>1, <1>2, <1>3 DEF Flush

\* Requests fit whatever was saved meanwhile: what is new waits.
LEMMA SavedFits ==
    ASSUME NEW v, NEW w, NEW s \in Seq(CallType), CallsFit(s, v),
           w.account = v.account, w.put = v.put, w.overtaken = v.overtaken, w.revived = v.revived,
           \A n \in Nat, u \in Users : Owned(n, u, v.made) => Owned(n, u, w.made),
           \A u \in Users, i \in Items :
              /\ v.mine[u][i] \in Nat /\ w.mine[u][i] \in Nat /\ v.mine[u][i] <= w.mine[u][i]
              /\ \/ w.mine[u][i] = v.mine[u][i] /\ w.pending[u][i] = v.pending[u][i]
                 \/ w.pending[u][i] # 0
    PROVE  CallsFit(s, w)
<1>1. \A k \in 1..Len(s) : s[k] \in CallType /\ CallFits(s[k], v)
  BY DEF CallsFit
<1>2. ASSUME NEW c \in CallType, CallFits(c, v) PROVE CallFits(c, w)
  <2>1. c.own \in Users /\ c.ver \in Nat /\ c.got \in [Items -> Nat]
    BY DEF CallType
  <2>2. ASSUME c.kind = "put" PROVE PutFits(c, w)
    <3>1. PutFits(c, v)
      BY <1>2, <2>2 DEF CallFits
    <3>2. c.item \in Items
      BY <3>1 DEF PutFits
    <3>3. Owned(c.ver, c.own, w.made) /\ c.ver <= w.mine[c.own][c.item]
      BY <2>1, <3>1, <3>2 DEF PutFits
    <3> QED
      BY <3>1, <3>3 DEF PutFits
  <2>3. ASSUME c.kind = "get" PROVE GetFits(c, w)
    <3>1. GetFits(c, v)
      BY <1>2, <2>3 DEF CallFits
    <3>2. ASSUME NEW i \in Items
          PROVE  /\ Owned(c.got[i], c.own, w.made)
                 /\ c.ph = "ok" /\ w.pending[c.own][i] = 0 =>
                       c.moved \/ w.overtaken \/ c.got[i] >= w.mine[c.own][i]
      <4>1. c.got[i] \in Nat
        BY <2>1
      <4>2. /\ Owned(c.got[i], c.own, v.made)
            /\ c.ph = "ok" /\ v.pending[c.own][i] = 0 =>
                  c.moved \/ v.overtaken \/ c.got[i] >= v.mine[c.own][i]
        BY <3>1 DEF GetFits
      <4> QED
        BY <2>1, <4>1, <4>2
    <3> QED
      BY <3>1, <3>2 DEF GetFits
  <2> QED
    BY <1>2, <2>2, <2>3 DEF CallFits
<1>3. \A k \in 1..Len(s) : CallFits(s[k], w)
  BY <1>1, <1>2
<1> QED
  BY <1>3, ChangedFit

-----------------------------------------------------------------------------
(* Every action keeps the invariant                                         *)

\* What waits for the account that is bound may be sent.
LEMMA ReadyNow ==
    ASSUME MemoryInv, account \in Users
    PROVE  Ready(View) /\ View.pending = pending
<1>1. \A i \in Items :
         /\ pending[account][i] \in Nat /\ pending[account][i] \in {0, mine[account][i]}
         /\ put[account][i] <= mine[account][i] /\ Owned(mine[account][i], account, made)
  BY DEF MemoryInv, StateType, StoredInv, Values, Owners
<1> QED
  BY <1>1 DEF Ready, View

LEMMA ReadyThen ==
    ASSUME StateType, StoredInv', account' = account, account \in Users,
           pending' \in Values, mine' \in Values, put' \in Values
    PROVE  Ready(View') /\ View'.pending = pending'
<1>1. \A i \in Items :
         /\ pending'[account][i] \in Nat /\ pending'[account][i] \in {0, mine'[account][i]}
         /\ put'[account][i] <= mine'[account][i] /\ Owned(mine'[account][i], account, made')
  BY DEF StoredInv, Values, Owners
<1> QED
  BY <1>1 DEF Ready, View

\* An action after which the requests fit what was stored before.
LEMMA OnlyCalls ==
    ASSUME MemoryInv, UNCHANGED <<local, pending, server, mine, put, made, overtaken, revived, account>>,
           calls' \in Seq(CallType), CallsFit(calls', View),
           ready' \in BOOLEAN, syncing' \in BOOLEAN, failure' \in BOOLEAN, loadFailed' \in BOOLEAN,
           frame' \in Owners, told' \subseteq Users
    PROVE  MemoryInv'
<1>1. View' = View
  BY DEF View
<1>2. StateType'
  BY DEF MemoryInv, StateType
<1>3. StoredInv'
  BY DEF MemoryInv, StoredInv
<1>4. CallsFit(calls', View')
  BY <1>1
<1> QED
  BY <1>2, <1>3, <1>4 DEF MemoryInv

LEMMA SyncKeeps == ASSUME None \notin Users, MemoryInv, Sync PROVE MemoryInv'
<1> USE DEF Sync
<1>1. account \in Users /\ StateType /\ CallsFit(calls, View) /\ calls \in Seq(CallType)
  BY DEF MemoryInv, StateType, Owners
<1>2. /\ ready \in BOOLEAN /\ syncing \in BOOLEAN /\ failure \in BOOLEAN /\ loadFailed \in BOOLEAN
      /\ frame \in Owners /\ told \subseteq Users
  BY <1>1 DEF StateType
<1>3. /\ UNCHANGED <<local, pending, server, mine, put, made, overtaken, revived, account>>
      /\ ready' = ready /\ loadFailed' = loadFailed /\ frame' = frame /\ told' = told
  BY DEF player, seen
<1>4. /\ calls' \in Seq(CallType) /\ CallsFit(calls', View)
      /\ syncing' \in BOOLEAN /\ failure' \in BOOLEAN
  <2>1. CASE ready /\ ~Works(calls)
    <3> DEFINE t == [k \in DOMAIN calls |-> IF calls[k].cur THEN [calls[k] EXCEPT !.waits = 1] ELSE calls[k]]
    <3>1. calls' = t /\ syncing' = syncing /\ failure' = failure
      BY <2>1
    <3>2. DOMAIN calls = 1..Len(calls) /\ \A k \in 1..Len(calls) : calls[k] \in CallType
      BY <1>1
    <3>3. ASSUME NEW c \in CallType
          PROVE  LET d == [c EXCEPT !.waits = 1] IN
                 /\ d \in CallType /\ d.kind = c.kind /\ d.own = c.own /\ d.cur = c.cur
                 /\ CallFits(c, View) => CallFits(d, View)
      <4> DEFINE d == [c EXCEPT !.waits = 1]
      <4>1. /\ d \in CallType /\ d.kind = c.kind /\ d.own = c.own /\ d.cur = c.cur
            /\ d.item = c.item /\ d.ver = c.ver /\ d.ph = c.ph /\ d.got = c.got /\ d.moved = c.moved
        BY DEF CallType
      <4> HIDE DEF d
      <4>2. CallFits(c, View) => CallFits(d, View)
        BY <4>1 DEF CallFits, PutFits, GetFits
      <4> QED
        BY <4>1, <4>2 DEF d
    <3>4. /\ t \in Seq(CallType) /\ Len(t) = Len(calls)
          /\ \A k \in 1..Len(calls) : t[k] = IF calls[k].cur THEN [calls[k] EXCEPT !.waits = 1] ELSE calls[k]
      <4>1. \A k \in 1..Len(calls) : t[k] \in CallType
        BY <3>2, <3>3
      <4> QED
        BY <3>2, <4>1
    <3> HIDE DEF t
    <3>5. \A k \in 1..Len(calls) :
              /\ CallFits(t[k], View)
              /\ t[k].kind = calls[k].kind /\ t[k].own = calls[k].own /\ (t[k].cur => calls[k].cur)
      <4>1. \A k \in 1..Len(calls) : CallFits(calls[k], View)
        BY <1>1, <3>2 DEF CallsFit
      <4> QED
        BY <3>2, <3>3, <3>4, <4>1
    <3>6. CallsFit(t, View)
      BY <1>1, <3>4, <3>5, ChangedFit
    <3> QED
      BY <1>2, <3>1, <3>4, <3>6
  <2>2. CASE ready /\ Works(calls)
    <3>1. Ready(View) /\ View.pending = pending
      BY <1>1, ReadyNow
    <3>2. Flush(calls, View.pending, syncing, failure, loadFailed, 1)
      BY <2>2, <3>1
    <3> HIDE DEF Sync
    <3> QED
      BY <1>1, <1>2, <3>1, <3>2, FlushFits
  <2>3. CASE ~ready
    <3>1. calls' = Append(calls, Get(account)) /\ syncing' = TRUE /\ failure' = failure
      BY <2>3
    <3>2. Get(account) \in CallType /\ CallFits(Get(account), View) /\ ~Get(account).cur
          /\ Get(account).kind = "get"
      BY <1>1, GetIs
    <3>3. Append(calls, Get(account)) \in Seq(CallType) /\ CallsFit(Append(calls, Get(account)), View)
      BY <1>1, <3>2, AppendFits
    <3> QED
      BY <1>2, <3>1, <3>3
  <2> QED
    BY <2>1, <2>2, <2>3
<1> HIDE DEF Sync
<1> QED
  BY <1>2, <1>3, <1>4, OnlyCalls

LEMMA OpenFrameKeeps == ASSUME MemoryInv, OpenFrame PROVE MemoryInv'
<1>1. /\ UNCHANGED <<local, pending, server, mine, put, made, overtaken, revived, account>>
      /\ ready' = ready /\ syncing' = syncing /\ failure' = failure /\ loadFailed' = loadFailed
      /\ told' = told /\ calls' = calls /\ frame' = account
  BY DEF OpenFrame, page, seen
<1>2. /\ ready \in BOOLEAN /\ syncing \in BOOLEAN /\ failure \in BOOLEAN /\ loadFailed \in BOOLEAN
      /\ account \in Owners /\ told \subseteq Users /\ calls \in Seq(CallType) /\ CallsFit(calls, View)
  BY DEF MemoryInv, StateType
<1> QED
  BY <1>1, <1>2, OnlyCalls

LEMMA LeftKeeps == ASSUME MemoryInv, NEW k \in DOMAIN calls, Left(k) PROVE MemoryInv'
<1>1. /\ UNCHANGED <<local, pending, server, mine, put, made, overtaken, revived, account>>
      /\ ready' = ready /\ syncing' = syncing /\ failure' = failure /\ loadFailed' = loadFailed
      /\ told' = told /\ calls' = RemoveAt(calls, k) /\ frame' = frame
  BY DEF Left, page, seen, player
<1>2. /\ ready \in BOOLEAN /\ syncing \in BOOLEAN /\ failure \in BOOLEAN /\ loadFailed \in BOOLEAN
      /\ frame \in Owners /\ told \subseteq Users /\ calls \in Seq(CallType) /\ CallsFit(calls, View)
  BY DEF MemoryInv, StateType
<1>3. RemoveAt(calls, k) \in Seq(CallType) /\ CallsFit(RemoveAt(calls, k), View)
  BY <1>2, RemoveFits
<1> QED
  BY <1>1, <1>2, <1>3, OnlyCalls

LEMMA FrameChangedKeeps == ASSUME None \notin Users, MemoryInv, studyFrameChanged PROVE MemoryInv'
<1>1. /\ UNCHANGED <<local, pending, server, mine, put, made, overtaken, revived, account>>
      /\ ready' = ready /\ loadFailed' = loadFailed /\ frame' = frame
  BY DEF studyFrameChanged, seen
<1>2. /\ ready \in BOOLEAN /\ syncing \in BOOLEAN /\ failure \in BOOLEAN /\ loadFailed \in BOOLEAN
      /\ frame \in Owners /\ told \subseteq Users /\ calls \in Seq(CallType) /\ CallsFit(calls, View)
  BY DEF MemoryInv, StateType
<1>3. Moved(calls) \in Seq(CallType) /\ CallsFit(Moved(calls), View)
  BY <1>2, MovedFits
<1>4. PICK u \in told :
          /\ told' = told \ {u}
          /\ IF u # account THEN UNCHANGED <<calls, syncing, failure>>
             ELSE IF ready THEN Flush(Moved(calls), pending, syncing, failure, loadFailed, 0)
             ELSE calls' = Moved(calls) /\ UNCHANGED <<syncing, failure>>
  BY DEF studyFrameChanged
<1>5. /\ calls' \in Seq(CallType) /\ CallsFit(calls', View)
      /\ syncing' \in BOOLEAN /\ failure' \in BOOLEAN
  <2>1. CASE u # account
    BY <1>2, <1>4, <2>1
  <2>2. CASE u = account /\ ready
    <3>1. Ready(View) /\ View.pending = pending
      BY <1>2, <2>2, ReadyNow
    <3>2. Flush(Moved(calls), View.pending, syncing, failure, loadFailed, 0)
      BY <1>4, <2>2, <3>1
    <3> QED
      BY <1>2, <1>3, <3>1, <3>2, FlushFits
  <2>3. CASE u = account /\ ~ready
    BY <1>2, <1>3, <1>4, <2>3
  <2> QED
    BY <2>1, <2>2, <2>3
<1>6. told' \subseteq Users
  BY <1>2, <1>4
<1> QED
  BY <1>1, <1>2, <1>5, <1>6, OnlyCalls

\* A value that is added leaves the accounts of the earlier ones.
LEMMA OwnedLonger ==
    ASSUME NEW s \in Seq(Owners), NEW u \in Owners
    PROVE  /\ Append(s, u) \in Seq(Owners) /\ Len(s) + 1 \in Nat \ {0}
           /\ \A x \in Owners, n \in Nat : Owned(n, x, s) => Owned(n, x, Append(s, u)) /\ n < Len(s) + 1
           /\ Owned(Len(s) + 1, u, Append(s, u))
<1>1. /\ Append(s, u) \in Seq(Owners) /\ Len(s) \in Nat /\ Len(Append(s, u)) = Len(s) + 1
      /\ Append(s, u)[Len(s) + 1] = u /\ \A k \in 1..Len(s) : Append(s, u)[k] = s[k]
  OBVIOUS
<1>2. ASSUME NEW x \in Owners, NEW n \in Nat, Owned(n, x, s)
      PROVE  Owned(n, x, Append(s, u)) /\ n < Len(s) + 1
  <2>1. n <= Len(s) /\ (n # 0 => s[n] = x)
    BY <1>2 DEF Owned
  <2>2. n # 0 => n \in 1..Len(s)
    BY <1>1, <2>1
  <2> QED
    BY <1>1, <2>1, <2>2 DEF Owned
<1>3. Owned(Len(s) + 1, u, Append(s, u))
  BY <1>1 DEF Owned
<1> QED
  BY <1>1, <1>2, <1>3

\* What is saved here is the last of its account, and waits unless it is the guest's.
LEMMA StoredKeeps ==
    ASSUME None \notin Users, MemoryInv, NEW u \in Owners, NEW i \in Items, Stored(u, i),
           server' = server, account' = account
    PROVE  /\ local' \in Values /\ pending' \in Values /\ mine' \in Values /\ put' \in Values
           /\ made' \in Seq(Owners) /\ overtaken' = overtaken /\ revived' = revived
           /\ StoredInv'
           /\ \A s \in Seq(CallType) : CallsFit(s, View) => CallsFit(s, View')
<1> DEFINE n == Len(made) + 1
<1>1. /\ local \in Values /\ pending \in Values /\ mine \in Values /\ put \in Values /\ server \in Values
      /\ made \in Seq(Owners) /\ StoredInv
  BY DEF MemoryInv, StateType
<1>2. /\ made' = Append(made, u)
      /\ local' = [local EXCEPT ![u][i] = n] /\ mine' = [mine EXCEPT ![u][i] = n]
      /\ pending' = IF u = None THEN pending ELSE [pending EXCEPT ![u][i] = n]
      /\ put' = put /\ overtaken' = overtaken /\ revived' = revived
  BY DEF Stored
<1>3. /\ made' \in Seq(Owners) /\ n \in Nat /\ n # 0
      /\ \A x \in Owners, m \in Nat : Owned(m, x, made) => Owned(m, x, made') /\ m < n
      /\ Owned(n, u, made')
  BY <1>1, <1>2, OwnedLonger
<1> HIDE DEF n
<1>5. /\ local' \in Values /\ pending' \in Values /\ mine' \in Values /\ put' \in Values
      /\ \A x \in Owners, j \in Items :
            /\ local'[x][j] = IF x = u /\ j = i THEN n ELSE local[x][j]
            /\ mine'[x][j] = IF x = u /\ j = i THEN n ELSE mine[x][j]
            /\ pending'[x][j] = IF x = u /\ j = i /\ u # None THEN n ELSE pending[x][j]
  <2>1. /\ local' \in Values
        /\ \A x \in Owners, j \in Items : local'[x][j] = IF x = u /\ j = i THEN n ELSE local[x][j]
    BY <1>1, <1>2, <1>3 DEF Values
  <2>2. /\ mine' \in Values
        /\ \A x \in Owners, j \in Items : mine'[x][j] = IF x = u /\ j = i THEN n ELSE mine[x][j]
    BY <1>1, <1>2, <1>3 DEF Values
  <2>3. /\ pending' \in Values
        /\ \A x \in Owners, j \in Items :
              pending'[x][j] = IF x = u /\ j = i /\ u # None THEN n ELSE pending[x][j]
    <3>1. CASE u = None
      BY <1>1, <1>2, <3>1
    <3>2. CASE u # None
      <4>1. pending' = [pending EXCEPT ![u][i] = n]
        BY <1>2, <3>2
      <4>2. /\ pending' \in Values
            /\ \A x \in Owners, j \in Items : pending'[x][j] = IF x = u /\ j = i THEN n ELSE pending[x][j]
        BY <1>1, <1>3, <4>1 DEF Values
      <4> QED
        BY <3>2, <4>2
    <3> QED
      BY <3>1, <3>2
  <2>4. put' \in Values
    BY <1>1, <1>2
  <2> QED
    BY <2>1, <2>2, <2>3, <2>4
<1>6. ASSUME NEW f \in Values, NEW x \in Owners, NEW j \in Items PROVE f[x][j] \in Nat
  BY DEF Values
<1>7. StoredInv'
  <2> SUFFICES ASSUME NEW x \in Owners, NEW j \in Items
               PROVE  /\ Owned(local'[x][j], x, made') /\ Owned(server'[x][j], x, made')
                      /\ Owned(mine'[x][j], x, made')
                      /\ pending'[x][j] \in {0, mine'[x][j]} /\ (x = None => pending'[x][j] = 0)
                      /\ put'[x][j] <= mine'[x][j] /\ put'[x][j] <= server'[x][j]
                      /\ ~overtaken' => local'[x][j] >= mine'[x][j]
                      /\ x \in Users /\ mine'[x][j] # 0 =>
                            pending'[x][j] = mine'[x][j] \/ put'[x][j] = mine'[x][j] \/ overtaken'
    BY DEF StoredInv
  <2>1. /\ Owned(local[x][j], x, made) /\ Owned(server[x][j], x, made) /\ Owned(mine[x][j], x, made)
        /\ pending[x][j] \in {0, mine[x][j]} /\ (x = None => pending[x][j] = 0)
        /\ put[x][j] <= mine[x][j] /\ put[x][j] <= server[x][j]
        /\ ~overtaken => local[x][j] >= mine[x][j]
        /\ x \in Users /\ mine[x][j] # 0 =>
              pending[x][j] = mine[x][j] \/ put[x][j] = mine[x][j] \/ overtaken
    BY <1>1 DEF StoredInv
  <2>2. /\ local[x][j] \in Nat /\ server[x][j] \in Nat /\ mine[x][j] \in Nat /\ put[x][j] \in Nat
        /\ pending[x][j] \in Nat
    BY <1>1, <1>6
  <2>3. /\ Owned(local[x][j], x, made') /\ Owned(server[x][j], x, made') /\ Owned(mine[x][j], x, made')
        /\ mine[x][j] < n
    BY <1>3, <2>1, <2>2
  <2>4. CASE x = u /\ j = i
    <3>1. local'[x][j] = n /\ mine'[x][j] = n /\ put'[x][j] = put[x][j]
          /\ pending'[x][j] = IF u # None THEN n ELSE pending[x][j]
      BY <1>2, <1>5, <2>4
    <3> QED
      BY <1>3, <2>1, <2>2, <2>3, <2>4, <3>1
  <2>5. CASE ~(x = u /\ j = i)
    <3>1. local'[x][j] = local[x][j] /\ mine'[x][j] = mine[x][j] /\ put'[x][j] = put[x][j]
          /\ pending'[x][j] = pending[x][j]
      BY <1>2, <1>5, <2>5
    <3> QED
      BY <1>2, <2>1, <2>3, <3>1
  <2> QED
    BY <2>4, <2>5
<1>8. ASSUME NEW s \in Seq(CallType), CallsFit(s, View) PROVE CallsFit(s, View')
  <2>1. /\ View'.account = View.account /\ View'.put = View.put /\ View'.overtaken = View.overtaken
        /\ View'.revived = View.revived /\ View.made = made /\ View'.made = made'
        /\ View.mine = mine /\ View'.mine = mine' /\ View.pending = pending /\ View'.pending = pending'
    BY <1>2 DEF View
  <2>2. \A m \in Nat, x \in Users : Owned(m, x, View.made) => Owned(m, x, View'.made)
    BY <1>3, <2>1 DEF Owners
  <2>3. ASSUME NEW x \in Users, NEW j \in Items
        PROVE  /\ View.mine[x][j] \in Nat /\ View'.mine[x][j] \in Nat /\ View.mine[x][j] <= View'.mine[x][j]
               /\ \/ View'.mine[x][j] = View.mine[x][j] /\ View'.pending[x][j] = View.pending[x][j]
                  \/ View'.pending[x][j] # 0
    <3>1. x \in Owners /\ x # None
      BY DEF Owners
    <3>2. mine[x][j] \in Nat /\ mine[x][j] < n
      <4>1. Owned(mine[x][j], x, made)
        BY <1>1, <3>1 DEF StoredInv
      <4> QED
        BY <1>1, <1>3, <1>6, <3>1, <4>1
    <3>3. CASE x = u /\ j = i
      <4>1. mine'[x][j] = n /\ pending'[x][j] = n
        BY <1>5, <3>1, <3>3
      <4> QED
        BY <1>3, <2>1, <3>2, <4>1
    <3>4. CASE ~(x = u /\ j = i)
      <4>1. mine'[x][j] = mine[x][j] /\ pending'[x][j] = pending[x][j]
        BY <1>5, <3>1, <3>4
      <4> QED
        BY <2>1, <3>2, <4>1
    <3> QED
      BY <3>3, <3>4
  <2> QED
    BY <1>8, <2>1, <2>2, <2>3, SavedFits
<1> QED
  BY <1>2, <1>3, <1>5, <1>7, <1>8

LEMMA SaveKeeps == ASSUME None \notin Users, MemoryInv, NEW i \in Items, Save(i) PROVE MemoryInv'
<1>1. /\ account \in Owners /\ ready \in BOOLEAN /\ syncing \in BOOLEAN /\ failure \in BOOLEAN
      /\ loadFailed \in BOOLEAN /\ frame \in Owners /\ told \subseteq Users /\ server \in Values
      /\ calls \in Seq(CallType) /\ CallsFit(calls, View) /\ StateType
      /\ overtaken \in BOOLEAN /\ revived \in BOOLEAN /\ (overtaken => revived)
  BY DEF MemoryInv, StateType
<1>2. /\ Stored(account, i) /\ server' = server /\ account' = account
      /\ ready' = ready /\ loadFailed' = loadFailed /\ frame' = frame /\ told' = told
  BY DEF Save, player
<1>3. /\ local' \in Values /\ pending' \in Values /\ mine' \in Values /\ put' \in Values
      /\ made' \in Seq(Owners) /\ overtaken' = overtaken /\ revived' = revived
      /\ StoredInv'
      /\ \A s \in Seq(CallType) : CallsFit(s, View) => CallsFit(s, View')
  BY <1>1, <1>2, StoredKeeps
<1>4. Moved(calls) \in Seq(CallType) /\ CallsFit(Moved(calls), View')
  <2>1. Moved(calls) \in Seq(CallType) /\ CallsFit(Moved(calls), View)
    BY <1>1, MovedFits
  <2> QED
    BY <1>3, <2>1
<1>5. /\ calls' \in Seq(CallType) /\ CallsFit(calls', View')
      /\ syncing' \in BOOLEAN /\ failure' \in BOOLEAN
  <2>1. CASE account = None
    <3>1. calls' = Moved(calls) /\ UNCHANGED <<syncing, failure>>
      BY <2>1 DEF Save
    <3> QED
      BY <1>1, <1>4, <3>1
  <2>2. CASE account # None
    <3>1. account \in Users
      BY <1>1, <2>2 DEF Owners
    <3>2. Ready(View') /\ View'.pending = pending'
      BY <1>1, <1>2, <1>3, <3>1, ReadyThen
    <3>3. Flush(Moved(calls), pending', syncing, failure, loadFailed, 0)
      BY <2>2 DEF Save
    <3>4. Flush(Moved(calls), View'.pending, syncing, failure, loadFailed, 0)
      BY <3>2, <3>3
    <3> QED
      BY <1>1, <1>4, <3>2, <3>4, FlushFits
  <2> QED
    BY <2>1, <2>2
<1>6. StateType'
  BY <1>1, <1>2, <1>3, <1>5 DEF StateType
<1> QED
  BY <1>1, <1>3, <1>5, <1>6 DEF MemoryInv

LEMMA FrameSaveKeeps == ASSUME None \notin Users, MemoryInv, NEW i \in Items, FrameSave(i) PROVE MemoryInv'
<1>1. /\ account \in Owners /\ ready \in BOOLEAN /\ syncing \in BOOLEAN /\ failure \in BOOLEAN
      /\ loadFailed \in BOOLEAN /\ frame \in Owners /\ told \subseteq Users /\ server \in Values
      /\ calls \in Seq(CallType) /\ CallsFit(calls, View) /\ StateType
      /\ overtaken \in BOOLEAN /\ revived \in BOOLEAN /\ (overtaken => revived)
  BY DEF MemoryInv, StateType
<1>2. /\ Stored(frame, i) /\ server' = server /\ account' = account /\ frame # None
      /\ ready' = ready /\ loadFailed' = loadFailed /\ syncing' = syncing /\ failure' = failure
      /\ frame' = frame /\ told' = told \cup {frame} /\ calls' = calls
  BY DEF FrameSave, page
<1>3. /\ local' \in Values /\ pending' \in Values /\ mine' \in Values /\ put' \in Values
      /\ made' \in Seq(Owners) /\ overtaken' = overtaken /\ revived' = revived
      /\ StoredInv'
      /\ \A s \in Seq(CallType) : CallsFit(s, View) => CallsFit(s, View')
  BY <1>1, <1>2, StoredKeeps
<1>4. told' \subseteq Users
  BY <1>1, <1>2 DEF Owners
<1>5. StateType'
  BY <1>1, <1>2, <1>3, <1>4 DEF StateType
<1>6. CallsFit(calls', View')
  BY <1>1, <1>2, <1>3
<1> QED
  BY <1>1, <1>3, <1>5, <1>6 DEF MemoryInv

LEMMA OtherDeviceKeeps ==
    ASSUME None \notin Users, MemoryInv, NEW u \in Users, NEW i \in Items, OtherDevice(u, i)
    PROVE  MemoryInv'
<1> DEFINE n == Len(made) + 1
<1>1. /\ local \in Values /\ pending \in Values /\ mine \in Values /\ put \in Values /\ server \in Values
      /\ made \in Seq(Owners) /\ calls \in Seq(CallType) /\ u \in Owners
      /\ StateType /\ StoredInv /\ CallsFit(calls, View) /\ (overtaken => revived)
  BY DEF MemoryInv, StateType, Owners
<1>2. /\ made' = Append(made, u) /\ server' = [server EXCEPT ![u][i] = n]
      /\ UNCHANGED <<account, ready, syncing, failure, loadFailed, frame, told>>
      /\ UNCHANGED <<local, pending, calls, mine, put, overtaken, revived>>
  BY DEF OtherDevice, page, player
<1>3. /\ made' \in Seq(Owners) /\ n \in Nat
      /\ \A x \in Owners, m \in Nat : Owned(m, x, made) => Owned(m, x, made') /\ m < n
      /\ Owned(n, u, made')
  BY <1>1, <1>2, OwnedLonger
<1> HIDE DEF n
<1>4. /\ server' \in Values
      /\ \A x \in Owners, j \in Items : server'[x][j] = IF x = u /\ j = i THEN n ELSE server[x][j]
  BY <1>1, <1>2, <1>3 DEF Values
<1>5. StateType'
  BY <1>1, <1>2, <1>3, <1>4 DEF StateType
<1>6. StoredInv'
  <2>1. ASSUME NEW x \in Owners, NEW j \in Items
        PROVE  /\ Owned(local[x][j], x, made') /\ Owned(server'[x][j], x, made')
               /\ Owned(mine[x][j], x, made') /\ put[x][j] <= server'[x][j]
    <3>1. /\ local[x][j] \in Nat /\ server[x][j] \in Nat /\ mine[x][j] \in Nat /\ put[x][j] \in Nat
      BY <1>1 DEF Values
    <3>2. /\ Owned(local[x][j], x, made) /\ Owned(server[x][j], x, made) /\ Owned(mine[x][j], x, made)
          /\ put[x][j] <= server[x][j] /\ put[x][j] <= mine[x][j]
      BY <1>1 DEF StoredInv
    <3>3. /\ Owned(local[x][j], x, made') /\ Owned(server[x][j], x, made') /\ Owned(mine[x][j], x, made')
          /\ mine[x][j] < n
      BY <1>3, <3>1, <3>2
    <3> QED
      BY <1>3, <1>4, <3>1, <3>2, <3>3
  <2> QED
    BY <1>1, <1>2, <2>1 DEF StoredInv
<1>7. CallsFit(calls, View')
  <2>1. /\ View'.account = View.account /\ View'.put = View.put /\ View'.overtaken = View.overtaken
        /\ View'.revived = View.revived /\ View.made = made /\ View'.made = made'
        /\ View.mine = mine /\ View'.mine = mine /\ View.pending = pending /\ View'.pending = pending
    BY <1>2 DEF View
  <2>2. \A m \in Nat, x \in Users : Owned(m, x, View.made) => Owned(m, x, View'.made)
    BY <1>3, <2>1 DEF Owners
  <2>3. \A x \in Users, j \in Items : mine[x][j] \in Nat
    BY <1>1 DEF Values, Owners
  <2>4. ASSUME NEW x \in Users, NEW j \in Items
        PROVE  /\ View.mine[x][j] \in Nat /\ View'.mine[x][j] \in Nat /\ View.mine[x][j] <= View'.mine[x][j]
               /\ \/ View'.mine[x][j] = View.mine[x][j] /\ View'.pending[x][j] = View.pending[x][j]
                  \/ View'.pending[x][j] # 0
    BY <2>1, <2>3
  <2> QED
    BY <1>1, <2>1, <2>2, <2>4, SavedFits
<1> QED
  BY <1>1, <1>2, <1>5, <1>6, <1>7 DEF MemoryInv

\* The worker of the account that is left is no worker any more: its requests go on, and
\* when the account comes back there may be two of them.
LEMMA BindKeeps ==
    ASSUME None \notin Users, MemoryInv, NEW u \in Owners, bindStudyAccount(u)
    PROVE  MemoryInv'
<1>1. /\ StateType /\ StoredInv /\ CallsFit(calls, View) /\ (overtaken => revived)
      /\ calls \in Seq(CallType)
  BY DEF MemoryInv, StateType
<1>2. /\ account' = u /\ ready' = (u = None) /\ failure' = FALSE /\ loadFailed' = FALSE /\ syncing' = (u # None)
      /\ calls' = IF u = None THEN Unbound(calls) ELSE Append(Unbound(calls), Get(u))
      /\ revived' = (revived \/ \E k \in DOMAIN calls : calls[k].kind = "put" /\ calls[k].own = u)
      /\ UNCHANGED <<local, pending, frame, told, server, made, mine, put, overtaken>>
  BY DEF bindStudyAccount, player
<1> DEFINE m == Moved(calls)
           b == Unbound(calls)
<1>3. /\ m \in Seq(CallType) /\ Len(m) = Len(calls) /\ CallsFit(m, View)
      /\ \A k \in 1..Len(calls) : m[k].kind = calls[k].kind /\ m[k].own = calls[k].own
  <2>1. \A k \in 1..Len(calls) : calls[k] \in CallType
    BY <1>1
  <2>2. \A k \in 1..Len(calls) : calls[k].kind \in {"put", "get"}
    BY <2>1 DEF CallType
  <2> QED
    BY <1>1, <2>2, MovedIs, MovedFits
<1>4. b = [k \in DOMAIN calls |-> [m[k] EXCEPT !.cur = FALSE]]
  BY DEF Unbound
<1> HIDE DEF m, b
<1>5. DOMAIN calls = 1..Len(calls) /\ DOMAIN m = 1..Len(calls) /\ \A k \in 1..Len(calls) : m[k] \in CallType
  BY <1>1, <1>3
<1>6. ASSUME NEW c \in CallType
      PROVE  LET d == [c EXCEPT !.cur = FALSE] IN
             /\ d \in CallType /\ d.kind = c.kind /\ d.own = c.own /\ ~d.cur
             /\ d.item = c.item /\ d.ver = c.ver /\ d.ph = c.ph /\ d.got = c.got /\ d.moved = c.moved
  BY DEF CallType
<1>7. /\ b \in Seq(CallType) /\ Len(b) = Len(calls)
      /\ \A k \in 1..Len(calls) : b[k] = [m[k] EXCEPT !.cur = FALSE]
  <2> DEFINE t == [k \in 1..Len(calls) |-> [m[k] EXCEPT !.cur = FALSE]]
  <2>1. \A k \in 1..Len(calls) : t[k] \in CallType
    BY <1>5, <1>6
  <2>2. b = t
    BY <1>4, <1>5
  <2>3. t \in Seq(CallType) /\ Len(t) = Len(calls)
    BY <1>1, <2>1
  <2> QED
    BY <2>2, <2>3
<1>8. \A k \in 1..Len(calls) :
         LET c == m[k]
             d == b[k] IN
         /\ d \in CallType /\ d.kind = c.kind /\ d.own = c.own /\ ~d.cur
         /\ d.item = c.item /\ d.ver = c.ver /\ d.ph = c.ph /\ d.got = c.got /\ d.moved = c.moved
  <2> TAKE k \in 1..Len(calls)
  <2> DEFINE c == m[k]
  <2>1. c \in CallType /\ b[k] = [c EXCEPT !.cur = FALSE]
    BY <1>5, <1>7
  <2> HIDE DEF c
  <2>2. LET d == [c EXCEPT !.cur = FALSE] IN
        /\ d \in CallType /\ d.kind = c.kind /\ d.own = c.own /\ ~d.cur
        /\ d.item = c.item /\ d.ver = c.ver /\ d.ph = c.ph /\ d.got = c.got /\ d.moved = c.moved
    BY <1>6, <2>1
  <2> QED
    BY <2>1, <2>2 DEF c
<1>9. /\ View'.account = u /\ View'.revived = revived' /\ View.revived = revived
      /\ View'.pending = View.pending /\ View'.mine = View.mine /\ View'.put = View.put
      /\ View'.made = View.made /\ View'.overtaken = View.overtaken
  BY <1>2 DEF View
<1>10. revived \in BOOLEAN /\ revived' \in BOOLEAN /\ (revived => revived')
  BY <1>1, <1>2 DEF StateType
<1>11. ASSUME NEW k \in 1..Len(calls) PROVE CallFits(b[k], View')
  <2>1. CallFits(m[k], View)
    BY <1>3, <1>5 DEF CallsFit
  <2>2. ASSUME b[k].kind = "put" PROVE PutFits(b[k], View')
    <3>1. PutFits(m[k], View)
      BY <1>8, <2>1, <2>2 DEF CallFits
    <3>2. b[k].own = u => revived'
      BY <1>2, <1>3, <1>5, <1>8, <2>2
    <3> QED
      BY <1>8, <1>9, <1>10, <3>1, <3>2 DEF PutFits
  <2>3. ASSUME b[k].kind = "get" PROVE GetFits(b[k], View')
    <3>1. GetFits(m[k], View)
      BY <1>8, <2>1, <2>3 DEF CallFits
    <3> QED
      BY <1>8, <1>9, <3>1 DEF GetFits
  <2> QED
    BY <1>8, <2>2, <2>3 DEF CallFits
<1>12. \A k \in 1..Len(calls) : b[k].kind = m[k].kind /\ b[k].own = m[k].own /\ (b[k].cur => m[k].cur)
  BY <1>8
<1>13. CallsFit(b, View')
  BY <1>3, <1>7, <1>9, <1>10, <1>11, <1>12, ChangedFit
<1>14. calls' \in Seq(CallType) /\ CallsFit(calls', View')
  <2>1. CASE u = None
    BY <1>2, <1>7, <1>13, <2>1 DEF b
  <2>2. CASE u # None
    <3>1. u \in Users
      BY <2>2 DEF Owners
    <3>2. Get(u) \in CallType /\ CallFits(Get(u), View') /\ ~Get(u).cur /\ Get(u).kind = "get"
      BY <3>1, GetIs
    <3>3. Append(b, Get(u)) \in Seq(CallType) /\ CallsFit(Append(b, Get(u)), View')
      BY <1>7, <1>13, <3>2, AppendFits
    <3> QED
      BY <1>2, <2>2, <3>3 DEF b
  <2> QED
    BY <2>1, <2>2
<1>15. StateType'
  BY <1>1, <1>2, <1>10, <1>14 DEF StateType
<1>16. StoredInv'
  BY <1>1, <1>2 DEF StoredInv
<1> QED
  BY <1>1, <1>2, <1>10, <1>14, <1>15, <1>16 DEF MemoryInv

\* The server stores or answers.
LEMMA ServeKeeps ==
    ASSUME MemoryInv, NEW k \in DOMAIN calls, Serve(k)
    PROVE  MemoryInv'
<1> DEFINE c == calls[k]
           d == calls'[k]
<1>1. /\ local \in Values /\ pending \in Values /\ mine \in Values /\ put \in Values /\ server \in Values
      /\ made \in Seq(Owners) /\ calls \in Seq(CallType)
      /\ StateType /\ StoredInv /\ CallsFit(calls, View) /\ (overtaken => revived)
      /\ overtaken \in BOOLEAN /\ revived \in BOOLEAN
  BY DEF MemoryInv, StateType
<1>2. /\ c \in CallType /\ k \in 1..Len(calls) /\ DOMAIN calls = 1..Len(calls) /\ c.ph = "sent"
      /\ c.own \in Owners /\ c.own \in Users
  <2>1. c \in CallType /\ k \in 1..Len(calls) /\ DOMAIN calls = 1..Len(calls)
    BY <1>1
  <2>2. c.own \in Users /\ c.ph = "sent"
    BY <2>1 DEF CallType, Serve
  <2> QED
    BY <2>1, <2>2 DEF Owners
<1>3. UNCHANGED <<account, ready, syncing, failure, loadFailed, frame, told, local, pending, made, mine, revived>>
  BY DEF Serve, page, player
<1>4. /\ calls' \in Seq(CallType) /\ Len(calls') = Len(calls)
      /\ \A j \in 1..Len(calls) : j # k => calls'[j] = calls[j]
      /\ d.kind = c.kind /\ d.own = c.own /\ d.cur = c.cur /\ d.item = c.item /\ d.ver = c.ver
      /\ d.moved = c.moved
      /\ \/ d.ph = "ok" /\ faults' = faults /\ d.got = IF c.kind = "get" THEN server[c.own] ELSE Zero
         \/ d.ph = "err" /\ d.got = c.got
  <2>1. CASE /\ faults' = faults
             /\ calls' = [calls EXCEPT ![k].ph = "ok", ![k].got = IF c.kind = "get" THEN server[c.own] ELSE Zero]
    <3> DEFINE g == IF c.kind = "get" THEN server[c.own] ELSE Zero
               e == [c EXCEPT !.ph = "ok", !.got = g]
    <3>1. g \in [Items -> Nat]
      BY <1>1, <1>2 DEF Values, Zero
    <3>2. calls' = [calls EXCEPT ![k] = e]
      BY <2>1
    <3> HIDE DEF g
    <3>3. /\ e \in CallType /\ e.kind = c.kind /\ e.own = c.own /\ e.cur = c.cur /\ e.item = c.item
          /\ e.ver = c.ver /\ e.moved = c.moved /\ e.ph = "ok" /\ e.got = g
      BY <1>2, <3>1 DEF CallType
    <3> HIDE DEF e
    <3>4. d = e
      BY <1>2, <3>2
    <3>5. /\ calls' \in Seq(CallType) /\ Len(calls') = Len(calls)
          /\ \A j \in 1..Len(calls) : j # k => calls'[j] = calls[j]
      BY <1>1, <1>2, <3>2, <3>3
    <3> QED
      BY <2>1, <3>3, <3>4, <3>5 DEF g
  <2>2. CASE calls' = [calls EXCEPT ![k].ph = "err"]
    <3> DEFINE e == [c EXCEPT !.ph = "err"]
    <3>1. calls' = [calls EXCEPT ![k] = e]
      BY <2>2
    <3>2. /\ e \in CallType /\ e.kind = c.kind /\ e.own = c.own /\ e.cur = c.cur /\ e.item = c.item
          /\ e.ver = c.ver /\ e.moved = c.moved /\ e.ph = "err" /\ e.got = c.got
      BY <1>2 DEF CallType
    <3> HIDE DEF e
    <3>3. d = e
      BY <1>2, <3>1
    <3> QED
      BY <1>1, <1>2, <3>1, <3>2, <3>3
  <2> QED
    BY <2>1, <2>2 DEF Serve
<1> HIDE DEF c, d
<1>5. CallFits(c, View)
  BY <1>1 DEF CallsFit, c
<1>6. c.kind \in {"put", "get"}
  BY <1>2 DEF CallType
<1>7. ASSUME UNCHANGED <<server, put, overtaken>>, c.kind = "put" => d.ph = "err"
      PROVE  MemoryInv'
  <2>1. View' = View
    BY <1>3, <1>7 DEF View
  <2>2. CallFits(d, View)
    <3>1. ASSUME c.kind = "put" PROVE PutFits(d, View)
      BY <1>4, <1>5, <1>7, <3>1 DEF CallFits, PutFits
    <3>2. ASSUME c.kind = "get" PROVE GetFits(d, View)
      <4>1. GetFits(c, View)
        BY <1>5, <3>2 DEF CallFits
      <4>2. CASE d.ph = "err"
        BY <1>4, <4>1, <4>2 DEF GetFits
      <4>3. CASE d.ph = "ok"
        <5>1. d.got = server[c.own]
          BY <1>4, <3>2, <4>3
        <5>2. ASSUME NEW i \in Items
              PROVE  /\ Owned(server[c.own][i], c.own, made)
                     /\ pending[c.own][i] = 0 => overtaken \/ server[c.own][i] >= mine[c.own][i]
          <6>1. /\ Owned(server[c.own][i], c.own, made) /\ put[c.own][i] <= server[c.own][i]
                /\ mine[c.own][i] # 0 =>
                      pending[c.own][i] = mine[c.own][i] \/ put[c.own][i] = mine[c.own][i] \/ overtaken
            BY <1>1, <1>2 DEF StoredInv
          <6>2. server[c.own][i] \in Nat /\ mine[c.own][i] \in Nat
            BY <1>1, <1>2 DEF Values
          <6> QED
            BY <6>1, <6>2
        <5> QED
          BY <1>4, <4>1, <5>1, <5>2 DEF GetFits, View
      <4> QED
        BY <1>4, <4>2, <4>3
    <3>3. d.cur => d.own = View.account
      BY <1>4, <1>5 DEF CallFits
    <3> QED
      BY <1>4, <3>1, <3>2, <3>3 DEF CallFits
  <2>3. \A j \in 1..Len(calls) :
           /\ CallFits(calls'[j], View)
           /\ calls'[j].kind = calls[j].kind /\ calls'[j].own = calls[j].own
           /\ (calls'[j].cur => calls[j].cur)
    <3> TAKE j \in 1..Len(calls)
    <3>1. CASE j = k
      BY <1>4, <2>2, <3>1 DEF c, d
    <3>2. CASE j # k
      BY <1>1, <1>2, <1>4, <3>2 DEF CallsFit
    <3> QED
      BY <3>1, <3>2
  <2>4. CallsFit(calls', View)
    BY <1>1, <1>4, <2>3, ChangedFit
  <2>5. StateType'
    BY <1>1, <1>3, <1>4, <1>7 DEF StateType
  <2>6. StoredInv'
    BY <1>1, <1>3, <1>7 DEF StoredInv
  <2> QED
    BY <1>1, <1>3, <1>7, <2>1, <2>4, <2>5, <2>6 DEF MemoryInv
<1>8. ASSUME c.kind = "put",
             server' = [server EXCEPT ![c.own][c.item] = c.ver], put' = [put EXCEPT ![c.own][c.item] = c.ver],
             overtaken' = (overtaken \/ c.ver < put[c.own][c.item])
      PROVE  MemoryInv'
  <2>1. PutFits(c, View) /\ c.ver \in Nat
    BY <1>2, <1>5, <1>8 DEF CallFits, CallType
  <2>2. /\ c.item \in Items /\ 0 < c.ver /\ c.ver <= mine[c.own][c.item] /\ Owned(c.ver, c.own, made)
        /\ revived \/ c.ver >= put[c.own][c.item]
    BY <1>2, <2>1 DEF PutFits, View
  <2>3. /\ server' \in Values /\ put' \in Values
        /\ \A x \in Owners, j \in Items :
              /\ server'[x][j] = IF x = c.own /\ j = c.item THEN c.ver ELSE server[x][j]
              /\ put'[x][j] = IF x = c.own /\ j = c.item THEN c.ver ELSE put[x][j]
    BY <1>1, <1>2, <1>8, <2>1, <2>2 DEF Values
  <2>4. \A x \in Owners, j \in Items :
           /\ local[x][j] \in Nat /\ server[x][j] \in Nat /\ mine[x][j] \in Nat /\ put[x][j] \in Nat
           /\ pending[x][j] \in Nat
    BY <1>1 DEF Values
  <2>5. overtaken' \in BOOLEAN /\ (overtaken => overtaken') /\ (overtaken' => revived')
    <3>1. put[c.own][c.item] \in Nat
      BY <1>2, <2>2, <2>4
    <3> QED
      BY <1>1, <1>3, <1>8, <2>1, <2>2, <3>1
  <2>6. StoredInv'
    <3> SUFFICES ASSUME NEW x \in Owners, NEW j \in Items
                 PROVE  /\ Owned(local[x][j], x, made) /\ Owned(server'[x][j], x, made)
                        /\ Owned(mine[x][j], x, made)
                        /\ pending[x][j] \in {0, mine[x][j]} /\ (x = None => pending[x][j] = 0)
                        /\ put'[x][j] <= mine[x][j] /\ put'[x][j] <= server'[x][j]
                        /\ ~overtaken' => local[x][j] >= mine[x][j]
                        /\ x \in Users /\ mine[x][j] # 0 =>
                              pending[x][j] = mine[x][j] \/ put'[x][j] = mine[x][j] \/ overtaken'
      BY <1>3 DEF StoredInv
    <3>1. /\ Owned(local[x][j], x, made) /\ Owned(server[x][j], x, made) /\ Owned(mine[x][j], x, made)
          /\ pending[x][j] \in {0, mine[x][j]} /\ (x = None => pending[x][j] = 0)
          /\ put[x][j] <= mine[x][j] /\ put[x][j] <= server[x][j]
          /\ ~overtaken => local[x][j] >= mine[x][j]
          /\ x \in Users /\ mine[x][j] # 0 =>
                pending[x][j] = mine[x][j] \/ put[x][j] = mine[x][j] \/ overtaken
      BY <1>1 DEF StoredInv
    <3>2. CASE x = c.own /\ j = c.item
      <4>1. server'[x][j] = c.ver /\ put'[x][j] = c.ver
        BY <2>3, <3>2
      <4>2. mine[x][j] \in Nat /\ put[x][j] \in Nat /\ local[x][j] \in Nat
        BY <2>4
      <4>3. c.ver <= mine[x][j] /\ Owned(c.ver, x, made) /\ (c.ver < put[x][j] => overtaken')
        BY <1>8, <2>2, <3>2
      <4>4. x \in Users /\ mine[x][j] # 0 => pending[x][j] = mine[x][j] \/ c.ver = mine[x][j] \/ overtaken'
        BY <2>1, <2>5, <3>1, <4>2, <4>3
      <4> QED
        BY <2>1, <2>5, <3>1, <4>1, <4>2, <4>3, <4>4
    <3>3. CASE ~(x = c.own /\ j = c.item)
      <4>1. server'[x][j] = server[x][j] /\ put'[x][j] = put[x][j]
        BY <2>3, <3>3
      <4> QED
        BY <2>5, <3>1, <4>1
    <3> QED
      BY <3>2, <3>3
  <2>7. /\ View.account = account /\ View'.account = account /\ View.put = put /\ View'.put = put'
        /\ View.mine = mine /\ View'.mine = mine /\ View.pending = pending /\ View'.pending = pending
        /\ View.made = made /\ View'.made = made /\ View.revived = revived /\ View'.revived = revived
        /\ View.overtaken = overtaken /\ View'.overtaken = overtaken'
    BY <1>3 DEF View
  <2>8. CallFits(d, View')
    <3>1. put'[c.own][c.item] = c.ver
      BY <1>2, <2>2, <2>3
    <3>2. PutFits(d, View')
      BY <1>4, <2>1, <2>2, <2>7, <3>1 DEF PutFits
    <3>3. d.cur => d.own = View'.account
      BY <1>4, <1>5, <2>7 DEF CallFits
    <3> QED
      BY <1>4, <1>8, <3>2, <3>3 DEF CallFits
  <2>9. ASSUME NEW j \in 1..Len(calls), j # k PROVE CallFits(calls[j], View')
    <3> DEFINE e == calls[j]
    <3>1. e \in CallType /\ CallFits(e, View)
      BY <1>1, <1>2 DEF CallsFit
    <3>2. e.own \in Users /\ e.own \in Owners /\ e.ver \in Nat
      BY <3>1 DEF CallType, Owners
    <3>3. e.kind = "put" => revived \/ e.own # c.own
      BY <1>1, <1>2, <1>8, <2>7, <2>9 DEF CallsFit, c
    <3> HIDE DEF e
    <3>4. ASSUME e.kind = "put" PROVE PutFits(e, View')
      <4>1. PutFits(e, View)
        BY <3>1, <3>4 DEF CallFits
      <4>2. e.item \in Items
        BY <4>1 DEF PutFits
      <4>3. put[e.own][e.item] \in Nat
        BY <2>4, <3>2, <4>2
      <4>4. e.ph = "ok" => overtaken' \/ e.ver <= put'[e.own][e.item]
        <5>1. e.ph = "ok" => overtaken \/ e.ver <= put[e.own][e.item]
          BY <2>7, <4>1 DEF PutFits
        <5>2. CASE e.own = c.own /\ e.item = c.item
          <6>1. put'[e.own][e.item] = c.ver
            BY <2>3, <3>2, <4>2, <5>2
          <6>2. put[c.own][c.item] = put[e.own][e.item]
            BY <5>2
          <6>3. c.ver < put[e.own][e.item] => overtaken'
            BY <1>8, <6>2
          <6> QED
            BY <2>1, <2>5, <3>2, <4>3, <5>1, <6>1, <6>3
        <5>3. CASE ~(e.own = c.own /\ e.item = c.item)
          <6>1. put'[e.own][e.item] = put[e.own][e.item]
            BY <2>3, <3>2, <4>2, <5>3
          <6> QED
            BY <2>5, <5>1, <6>1
        <5> QED
          BY <5>2, <5>3
      <4>5. e.ph = "sent" => revived \/ e.ver >= put'[e.own][e.item]
        <5>1. e.ph = "sent" => revived \/ e.ver >= put[e.own][e.item]
          BY <2>7, <4>1 DEF PutFits
        <5>2. CASE e.own = c.own
          BY <3>3, <3>4, <5>2
        <5>3. CASE e.own # c.own
          <6>1. put'[e.own][e.item] = put[e.own][e.item]
            BY <2>3, <3>2, <4>2, <5>3
          <6> QED
            BY <5>1, <6>1
        <5> QED
          BY <5>2, <5>3
      <4> QED
        BY <2>7, <4>1, <4>4, <4>5 DEF PutFits
    <3>5. ASSUME e.kind = "get" PROVE GetFits(e, View')
      <4>1. GetFits(e, View)
        BY <3>1, <3>5 DEF CallFits
      <4> QED
        BY <2>5, <2>7, <4>1 DEF GetFits
    <3>6. CallFits(e, View')
      BY <2>7, <3>1, <3>4, <3>5 DEF CallFits
    <3> QED
      BY <3>6 DEF e
  <2>10. \A j \in 1..Len(calls) :
           /\ CallFits(calls'[j], View')
           /\ calls'[j].kind = calls[j].kind /\ calls'[j].own = calls[j].own
           /\ (calls'[j].cur => calls[j].cur)
    <3> TAKE j \in 1..Len(calls)
    <3>1. CASE j = k
      BY <1>4, <2>8, <3>1 DEF c, d
    <3>2. CASE j # k
      BY <1>4, <2>9, <3>2
    <3> QED
      BY <3>1, <3>2
  <2>11. CallsFit(calls', View')
    BY <1>1, <1>4, <2>7, <2>10, ChangedFit
  <2>12. StateType'
    BY <1>1, <1>3, <1>4, <2>3, <2>5 DEF StateType
  <2> QED
    BY <2>5, <2>6, <2>11, <2>12 DEF MemoryInv
<1>9. CASE c.kind = "get"
  <2>1. UNCHANGED <<server, put, overtaken>>
    BY <1>9 DEF Serve, c
  <2> QED
    BY <1>7, <1>9, <2>1
<1>10. CASE c.kind = "put"
  <2>1. \/ /\ server' = [server EXCEPT ![c.own][c.item] = c.ver] /\ put' = [put EXCEPT ![c.own][c.item] = c.ver]
           /\ overtaken' = (overtaken \/ c.ver < put[c.own][c.item])
        \/ faults' # faults /\ UNCHANGED <<server, put, overtaken>>
    BY <1>10 DEF Serve, c
  <2> QED
    BY <1>4, <1>7, <1>8, <1>10, <2>1
<1> QED
  BY <1>6, <1>9, <1>10

\* The worker's answer: what waits is taken off only when it is what the server has got.
LEMMA PutDoneKeeps ==
    ASSUME None \notin Users, MemoryInv, NEW k \in DOMAIN calls, PutDone(k)
    PROVE  MemoryInv'
<1> DEFINE c  == calls[k]
           P  == IF c.ph = "ok" /\ Sent(c) THEN [pending EXCEPT ![account][c.item] = 0] ELSE pending
           cs == IF P # pending THEN Moved(calls) ELSE calls
<1>1. /\ local \in Values /\ pending \in Values /\ mine \in Values /\ put \in Values /\ server \in Values
      /\ made \in Seq(Owners) /\ calls \in Seq(CallType)
      /\ StateType /\ StoredInv /\ CallsFit(calls, View) /\ (overtaken => revived)
      /\ syncing \in BOOLEAN /\ failure \in BOOLEAN /\ loadFailed \in BOOLEAN
  BY DEF MemoryInv, StateType
<1>2. /\ k \in 1..Len(calls) /\ DOMAIN calls = 1..Len(calls) /\ c \in CallType /\ CallFits(c, View)
  BY <1>1 DEF CallsFit
<1>3. /\ c.kind = "put" /\ c.own = account /\ pending' = P
      /\ \/ \E i \in Waiting(P, account) :
               /\ c.ph = "ok" /\ calls' = [cs EXCEPT ![k].item = i, ![k].ver = P[account][i], ![k].ph = "sent"]
               /\ UNCHANGED <<syncing, failure>>
         \/ /\ calls' = RemoveAt(cs, k) \o [n \in 1..c.waits |-> Get(account)] /\ syncing' = (c.waits > 0)
            /\ failure' = (c.ph = "err" \/ (failure /\ loadFailed))
      /\ UNCHANGED <<account, ready, loadFailed, local, frame, told, server, made, mine, put, overtaken, revived>>
  BY DEF PutDone, Ignored, player, seen
<1> HIDE DEF c
<1>4. account \in Users /\ account \in Owners /\ c.waits \in {0, 1} /\ c.ver \in Nat
  BY <1>2, <1>3 DEF CallType, Owners
<1>5. PutFits(c, View)
  BY <1>2, <1>3 DEF CallFits
<1>6. \A x \in Owners, j \in Items : mine[x][j] \in Nat /\ put[x][j] \in Nat /\ pending[x][j] \in Nat
  BY <1>1 DEF Values
<1>7. pending' \in Values /\ StoredInv'
  <2>0. /\ local' = local /\ server' = server /\ mine' = mine /\ put' = put /\ made' = made
        /\ overtaken' = overtaken
    BY <1>3
  <2>1. CASE P = pending
    <3>1. pending' = pending
      BY <1>3, <2>1
    <3> QED
      BY <1>1, <2>0, <3>1 DEF StoredInv
  <2>2. CASE P # pending
    <3>1. /\ c.ph = "ok" /\ pending[account][c.item] = c.ver
          /\ pending' = [pending EXCEPT ![account][c.item] = 0]
      BY <1>3, <2>2 DEF Sent
    <3>2. /\ c.item \in Items /\ 0 < c.ver /\ (overtaken \/ c.ver <= put[account][c.item])
      BY <1>3, <1>5, <3>1 DEF PutFits, View
    <3>3. /\ pending' \in Values
          /\ \A x \in Owners, j \in Items :
                pending'[x][j] = IF x = account /\ j = c.item THEN 0 ELSE pending[x][j]
      BY <1>1, <1>4, <3>1, <3>2 DEF Values
    <3>4. overtaken \/ put[account][c.item] = mine[account][c.item]
      <4>1. /\ pending[account][c.item] \in {0, mine[account][c.item]}
            /\ put[account][c.item] <= mine[account][c.item]
        BY <1>1, <1>4, <3>2 DEF StoredInv
      <4>2. mine[account][c.item] \in Nat /\ put[account][c.item] \in Nat
        BY <1>4, <1>6, <3>2
      <4> QED
        BY <1>4, <3>1, <3>2, <4>1, <4>2
    <3>5. ASSUME NEW x \in Owners, NEW j \in Items
          PROVE  /\ pending'[x][j] \in {0, mine[x][j]} /\ (x = None => pending'[x][j] = 0)
                 /\ x \in Users /\ mine[x][j] # 0 =>
                       pending'[x][j] = mine[x][j] \/ put[x][j] = mine[x][j] \/ overtaken
      BY <1>1, <3>3, <3>4 DEF StoredInv
    <3> HIDE DEF P
    <3> QED
      BY <1>1, <2>0, <3>3, <3>5 DEF StoredInv
  <2> QED
    BY <2>1, <2>2
<1>8. /\ cs \in Seq(CallType) /\ Len(cs) = Len(calls) /\ CallsFit(cs, View') /\ cs[k] = c
  <2>1. /\ View'.account = View.account /\ View'.mine = View.mine /\ View'.put = View.put
        /\ View'.made = View.made /\ View'.overtaken = View.overtaken /\ View'.revived = View.revived
    BY <1>3 DEF View
  <2>2. CASE P # pending
    <3>1. Moved(calls) \in Seq(CallType) /\ CallsFit(Moved(calls), View')
      BY <1>1, <2>1, MovedFits
    <3>2. Len(Moved(calls)) = Len(calls) /\ Moved(calls)[k] = c
      BY <1>1, <1>2, <1>3, MovedIs DEF c
    <3> QED
      BY <2>2, <3>1, <3>2
  <2>3. CASE P = pending
    <3>1. View' = View
      BY <1>3, <2>3 DEF View
    <3> QED
      BY <1>1, <2>3, <3>1 DEF c
  <2> QED
    BY <2>2, <2>3
<1>9. Ready(View') /\ View'.pending = P
  <2>1. Ready(View') /\ View'.pending = pending'
    BY <1>1, <1>3, <1>4, <1>7, ReadyThen
  <2> QED
    BY <1>3, <2>1
<1> HIDE DEF P, cs
<1>10. /\ calls' \in Seq(CallType) /\ CallsFit(calls', View')
       /\ syncing' \in BOOLEAN /\ failure' \in BOOLEAN
  <2>1. ASSUME NEW i \in Waiting(P, account),
               calls' = [cs EXCEPT ![k].item = i, ![k].ver = P[account][i], ![k].ph = "sent"],
               UNCHANGED <<syncing, failure>>
        PROVE  /\ calls' \in Seq(CallType) /\ CallsFit(calls', View')
               /\ syncing' \in BOOLEAN /\ failure' \in BOOLEAN
    <3> DEFINE x == P[account][i]
               d == [c EXCEPT !.item = i, !.ver = x, !.ph = "sent"]
    <3>1. /\ i \in Items /\ x \in Nat /\ 0 < x /\ x <= View'.mine[account][i]
          /\ Owned(x, account, View'.made) /\ View'.put[account][i] <= x
      <4>1. i \in Items /\ x # 0
        BY <2>1 DEF Waiting
      <4>2. /\ x \in Nat /\ x = View'.mine[account][i] /\ View'.put[account][i] <= View'.mine[account][i]
            /\ Owned(View'.mine[account][i], account, View'.made)
        BY <1>9, <4>1 DEF Ready
      <4> QED
        BY <4>1, <4>2
    <3> HIDE DEF x
    <3>2. /\ d \in CallType /\ d.kind = c.kind /\ d.own = c.own /\ d.cur = c.cur
          /\ d.item = i /\ d.ver = x /\ d.ph = "sent"
      BY <1>2, <3>1 DEF CallType
    <3>3. k \in DOMAIN cs /\ calls' = [cs EXCEPT ![k] = d]
      <4>1. k \in DOMAIN cs
        BY <1>2, <1>8
      <4> QED
        BY <1>8, <2>1, <4>1 DEF x
    <3> HIDE DEF d
    <3>4. /\ calls' \in Seq(CallType) /\ Len(calls') = Len(cs) /\ calls'[k] = d
          /\ \A j \in 1..Len(cs) : j # k => calls'[j] = cs[j]
      BY <1>8, <3>2, <3>3
    <3>5. CallFits(c, View')
      BY <1>8, <3>3 DEF CallsFit
    <3>6. PutFits(d, View')
      <4>1. PutFits(c, View')
        BY <1>3, <3>5 DEF CallFits
      <4> QED
        BY <1>3, <3>1, <3>2, <4>1 DEF PutFits
    <3>7. CallFits(d, View')
      BY <1>3, <3>2, <3>5, <3>6 DEF CallFits
    <3>8. \A j \in 1..Len(cs) :
             /\ CallFits(calls'[j], View')
             /\ calls'[j].kind = cs[j].kind /\ calls'[j].own = cs[j].own /\ (calls'[j].cur => cs[j].cur)
      <4> TAKE j \in 1..Len(cs)
      <4>1. CASE j = k
        BY <1>8, <3>2, <3>4, <3>7, <4>1
      <4>2. CASE j # k
        BY <1>8, <3>4, <4>2 DEF CallsFit
      <4> QED
        BY <4>1, <4>2
    <3>9. CallsFit(calls', View')
      BY <1>8, <3>4, <3>8, ChangedFit
    <3> QED
      BY <1>1, <2>1, <3>4, <3>9
  <2>2. ASSUME calls' = RemoveAt(cs, k) \o [n \in 1..c.waits |-> Get(account)], syncing' = (c.waits > 0),
               failure' = (c.ph = "err" \/ (failure /\ loadFailed))
        PROVE  /\ calls' \in Seq(CallType) /\ CallsFit(calls', View')
               /\ syncing' \in BOOLEAN /\ failure' \in BOOLEAN
    <3>1. k \in DOMAIN cs
      BY <1>2, <1>8
    <3>2. RemoveAt(cs, k) \in Seq(CallType) /\ CallsFit(RemoveAt(cs, k), View')
      BY <1>8, <3>1, RemoveFits
    <3>3. calls' \in Seq(CallType) /\ CallsFit(calls', View')
      BY <1>4, <2>2, <3>2, PollsFit
    <3>4. syncing' \in BOOLEAN
      BY <2>2
    <3>5. failure' \in BOOLEAN
      BY <2>2
    <3> QED
      BY <3>3, <3>4, <3>5
  <2> QED
    BY <1>3, <2>1, <2>2
<1>11. StateType'
  BY <1>1, <1>3, <1>7, <1>10 DEF StateType
<1> QED
  BY <1>1, <1>3, <1>7, <1>10, <1>11 DEF MemoryInv

\* The answer of a poll: what still waits stays, and what was found replaces the rest.
LEMMA GetDoneKeeps ==
    ASSUME None \notin Users, MemoryInv, NEW k \in DOMAIN calls, GetDone(k)
    PROVE  MemoryInv'
<1> DEFINE c    == calls[k]
           uses == c.ph = "ok" /\ Unmoved(c)
           rest == IF uses THEN Moved(RemoveAt(calls, k)) ELSE RemoveAt(calls, k)
           F    == c.ph = "err" \/ (Waiting(pending, account) # {} /\ failure)
<1>1. /\ local \in Values /\ pending \in Values /\ mine \in Values /\ put \in Values /\ server \in Values
      /\ made \in Seq(Owners) /\ calls \in Seq(CallType)
      /\ StateType /\ StoredInv /\ CallsFit(calls, View) /\ (overtaken => revived)
      /\ syncing \in BOOLEAN /\ failure \in BOOLEAN /\ loadFailed \in BOOLEAN
  BY DEF MemoryInv, StateType
<1>2. /\ k \in 1..Len(calls) /\ c \in CallType /\ CallFits(c, View)
  BY <1>1 DEF CallsFit
<1>3. /\ c.kind = "get" /\ c.own = account
      /\ loadFailed' = (c.ph = "err") /\ ready' = TRUE
      /\ local' = IF uses THEN [local EXCEPT ![account] = Merged(c)] ELSE local
      /\ Flush(rest, pending, FALSE, F, loadFailed', 0)
      /\ UNCHANGED <<account, pending, frame, told, server, made, mine, put, overtaken, revived>>
  BY DEF GetDone, Ignored, player, seen
<1>4. /\ rest \in Seq(CallType) /\ CallsFit(rest, View)
  <2>1. RemoveAt(calls, k) \in Seq(CallType) /\ CallsFit(RemoveAt(calls, k), View)
    BY <1>1, RemoveFits
  <2>2. Moved(RemoveAt(calls, k)) \in Seq(CallType) /\ CallsFit(Moved(RemoveAt(calls, k)), View)
    BY <2>1, MovedFits
  <2> QED
    BY <2>1, <2>2
<1> HIDE DEF c, rest
<1>5. account \in Users /\ account \in Owners /\ c.got \in [Items -> Nat]
  BY <1>2, <1>3 DEF CallType, Owners
<1>6. /\ calls' \in Seq(CallType) /\ CallsFit(calls', View)
      /\ syncing' \in BOOLEAN /\ failure' \in BOOLEAN
  <2>1. Ready(View) /\ View.pending = pending
    BY <1>5, ReadyNow
  <2>2. F \in BOOLEAN
    OBVIOUS
  <2>3. loadFailed' \in BOOLEAN
    BY <1>3
  <2> HIDE DEF F
  <2>4. Flush(rest, View.pending, FALSE, F, loadFailed', 0)
    BY <1>3, <2>1
  <2>5. FALSE \in BOOLEAN /\ 0 \in {0, 1}
    OBVIOUS
  <2> QED
    BY <1>4, <2>1, <2>2, <2>3, <2>4, <2>5, FlushFits
<1>7. local' \in Values /\ StoredInv'
  <2>1. CASE ~uses
    BY <1>1, <1>3, <2>1 DEF StoredInv
  <2>2. CASE uses
    <3> DEFINE m == Merged(c)
    <3>1. local' = [local EXCEPT ![account] = m]
      BY <1>3, <2>2
    <3>2. m \in [Items -> Nat] /\ \A i \in Items : m[i] = IF pending[account][i] # 0 THEN pending[account][i] ELSE c.got[i]
      BY <1>1, <1>5 DEF Merged, Values
    <3> HIDE DEF m
    <3>3. local' \in Values /\ \A x \in Owners : local'[x] = IF x = account THEN m ELSE local[x]
      BY <1>1, <1>5, <3>1, <3>2 DEF Values
    <3>4. ASSUME NEW i \in Items
          PROVE  Owned(m[i], account, made) /\ (~overtaken => m[i] >= mine[account][i])
      <4>1. /\ pending[account][i] \in {0, mine[account][i]} /\ Owned(mine[account][i], account, made)
            /\ mine[account][i] \in Nat
        BY <1>1, <1>5 DEF StoredInv, Values
      <4>2. /\ Owned(c.got[i], account, made)
            /\ pending[account][i] = 0 => overtaken \/ c.got[i] >= mine[account][i]
        BY <1>2, <1>3, <2>2 DEF CallFits, GetFits, View, Unmoved
      <4> QED
        BY <3>2, <4>1, <4>2
    <3> QED
      BY <1>1, <1>3, <3>3, <3>4 DEF StoredInv
  <2> QED
    BY <2>1, <2>2
<1>8. View' = View
  BY <1>3 DEF View
<1>9. StateType'
  <2>1. loadFailed' \in BOOLEAN /\ ready' \in BOOLEAN
    BY <1>3
  <2> QED
    BY <1>1, <1>3, <1>6, <1>7, <2>1 DEF StateType
<1>10. CallsFit(calls', View')
  BY <1>6, <1>8
<1>11. overtaken' => revived'
  BY <1>1, <1>3
<1> QED
  BY <1>7, <1>9, <1>10, <1>11 DEF MemoryInv

LEMMA InitFits == Init => MemoryInv
<1> SUFFICES ASSUME Init PROVE MemoryInv
  OBVIOUS
<1>1. /\ local \in Values /\ pending \in Values /\ mine \in Values /\ put \in Values /\ server \in Values
      /\ \A u \in Owners, i \in Items :
            /\ local[u][i] = 0 /\ pending[u][i] = 0 /\ mine[u][i] = 0 /\ put[u][i] = 0 /\ server[u][i] = 0
  BY DEF Init, Zero, Values
<1>2. made = <<>> /\ calls = <<>> /\ account = None /\ frame = None /\ None \in Owners /\ told = {}
      /\ ready = TRUE /\ syncing = FALSE /\ failure = FALSE /\ loadFailed = FALSE
      /\ overtaken = FALSE /\ revived = FALSE
  BY DEF Init, Owners
<1>3. StateType
  <2>1. made \in Seq(Owners) /\ calls \in Seq(CallType)
    BY <1>2
  <2> QED
    BY <1>1, <1>2, <2>1 DEF StateType
<1>4. StoredInv
  BY <1>1, <1>2 DEF StoredInv, Owned
<1>5. CallsFit(calls, View)
  BY <1>2 DEF CallsFit
<1> QED
  BY <1>2, <1>3, <1>4, <1>5 DEF MemoryInv

LEMMA NextFits == ASSUME None \notin Users PROVE MemoryInv /\ [Next]_vars => MemoryInv'
<1> SUFFICES ASSUME MemoryInv, [Next]_vars PROVE MemoryInv'
  OBVIOUS
<1>1. CASE Sync
  BY <1>1, SyncKeeps
<1>2. CASE OpenFrame
  BY <1>2, OpenFrameKeeps
<1>3. CASE studyFrameChanged
  BY <1>3, FrameChangedKeeps
<1>4. ASSUME NEW u \in Owners, bindStudyAccount(u) PROVE MemoryInv'
  BY <1>4, BindKeeps
<1>5. ASSUME NEW i \in Items, Save(i) PROVE MemoryInv'
  BY <1>5, SaveKeeps
<1>6. ASSUME NEW i \in Items, FrameSave(i) PROVE MemoryInv'
  BY <1>6, FrameSaveKeeps
<1>7. ASSUME NEW i \in Items, NEW u \in Users, OtherDevice(u, i) PROVE MemoryInv'
  BY <1>7, OtherDeviceKeeps
<1>8. ASSUME NEW k \in DOMAIN calls, Serve(k) PROVE MemoryInv'
  BY <1>8, ServeKeeps
<1>9. ASSUME NEW k \in DOMAIN calls, PutDone(k) PROVE MemoryInv'
  BY <1>9, PutDoneKeeps
<1>10. ASSUME NEW k \in DOMAIN calls, GetDone(k) PROVE MemoryInv'
  BY <1>10, GetDoneKeeps
<1>11. ASSUME NEW k \in DOMAIN calls, Left(k) PROVE MemoryInv'
  BY <1>11, LeftKeeps
<1>12. CASE UNCHANGED vars
  <2>1. /\ UNCHANGED <<local, pending, server, mine, put, made, overtaken, revived, account>>
        /\ calls' = calls /\ ready' = ready /\ syncing' = syncing /\ failure' = failure
        /\ loadFailed' = loadFailed /\ frame' = frame /\ told' = told
    BY <1>12 DEF vars, page, player, seen
  <2>2. /\ calls \in Seq(CallType) /\ CallsFit(calls, View)
        /\ ready \in BOOLEAN /\ syncing \in BOOLEAN /\ failure \in BOOLEAN /\ loadFailed \in BOOLEAN
        /\ frame \in Owners /\ told \subseteq Users
    BY DEF MemoryInv, StateType
  <2> QED
    BY <2>1, <2>2, OnlyCalls
<1> QED
  BY <1>1, <1>2, <1>3, <1>4, <1>5, <1>6, <1>7, <1>8, <1>9, <1>10, <1>11, <1>12 DEF Next

LEMMA MemoryStays == ASSUME None \notin Users PROVE Spec => []MemoryInv
<1>1. MemoryInv /\ [Next]_vars => MemoryInv'
  BY NextFits
<1> QED
  BY <1>1, InitFits, PTL DEF Spec

\* In every state the memory has its types, what waits was saved on this device for the
\* account it waits for, and every value has a number (study-memory.js, localPending).
THEOREM MemoryTypes == ASSUME None \notin Users PROVE Spec => []TypeOK
<1>1. MemoryInv => TypeOK
  <2> SUFFICES ASSUME MemoryInv PROVE TypeOK
    OBVIOUS
  <2>1. StateType /\ StoredInv
    BY DEF MemoryInv
  <2>2. ASSUME NEW u \in Owners, NEW i \in Items
        PROVE  {local[u][i], server[u][i]} \subseteq 0..Len(made) /\ pending[u][i] \in {0, mine[u][i]}
    <3>1. local[u][i] \in Nat /\ server[u][i] \in Nat /\ Len(made) \in Nat
      BY <2>1 DEF StateType, Values
    <3>2. local[u][i] <= Len(made) /\ server[u][i] <= Len(made) /\ pending[u][i] \in {0, mine[u][i]}
      BY <2>1 DEF StoredInv, Owned
    <3> QED
      BY <3>1, <3>2
  <2>3. \A k \in DOMAIN calls : calls[k].own \in Users /\ calls[k].item \in Items \cup {0}
    <3>1. \A k \in DOMAIN calls : calls[k] \in CallType
      BY <2>1 DEF StateType
    <3> QED
      BY <3>1 DEF CallType
  <2>4. account \in Owners /\ frame \in Owners /\ {ready, syncing, failure, loadFailed} \subseteq BOOLEAN
    BY <2>1 DEF StateType
  <2> QED
    BY <2>2, <2>3, <2>4 DEF TypeOK
<1> QED
  BY <1>1, MemoryStays, PTL

\* What is remembered for an account was saved by that account and is never taken back by a
\* late poll, or by one of an account that was left (the comparison of revisions in
\* syncStudyMemory).
THEOREM MemoryIsOfAccount == ASSUME None \notin Users PROVE Spec => []MemoryOfAccount
<1>1. MemoryInv => MemoryOfAccount
  BY DEF MemoryInv, StoredInv, Owned, MemoryOfAccount
<1> QED
  BY <1>1, MemoryStays, PTL

\* What was saved here has reached the server or waits to be sent, in the order it was saved
\* in, unless a worker of before a sign-out went on after it (flushStudyMemory).
THEOREM NothingStaysUnsent == ASSUME None \notin Users PROVE Spec => []NothingUnsent
<1>1. MemoryInv => NothingUnsent
  BY DEF MemoryInv, StoredInv, NothingUnsent, Owners
<1> QED
  BY <1>1, MemoryStays, PTL

-----------------------------------------------------------------------------
(* With nothing under way nothing turns                                     *)

\* A request of account u is under way, or a poll of it.
Has(s, u)   == \E k \in DOMAIN s : s[k].own = u
Polls(s, u) == \E k \in DOMAIN s : s[k].own = u /\ s[k].kind = "get"

\* What keeps the memory from coming to rest has a request of the account that is bound, or a
\* message of the frame, that will end it.
SettleInv ==
    /\ ~ready => account # None /\ Polls(calls, account)
    /\ syncing => Has(calls, account)
    /\ account # None /\ Waiting(pending, account) # {} /\ ~failure => account \in told \/ Has(calls, account)

\* Requests that change and stay of the same kind and account.
LEMMA SameCalls ==
    ASSUME NEW s \in Seq(CallType), NEW t \in Seq(CallType), Len(t) = Len(s), NEW u,
           \A k \in 1..Len(s) : t[k].kind = s[k].kind /\ t[k].own = s[k].own
    PROVE  (Has(s, u) => Has(t, u)) /\ (Polls(s, u) => Polls(t, u))
<1>1. DOMAIN s = 1..Len(s) /\ DOMAIN t = 1..Len(s)
  OBVIOUS
<1> QED
  BY <1>1 DEF Has, Polls

LEMMA MovedSame ==
    ASSUME NEW s \in Seq(CallType), NEW u
    PROVE  (Has(s, u) => Has(Moved(s), u)) /\ (Polls(s, u) => Polls(Moved(s), u))
<1>1. \A k \in 1..Len(s) : s[k] \in CallType
  OBVIOUS
<1>2. \A k \in 1..Len(s) : s[k].kind \in {"put", "get"}
  BY <1>1 DEF CallType
<1>3. \A k \in 1..Len(s) : Moved(s)[k].kind = s[k].kind /\ Moved(s)[k].own = s[k].own
  BY <1>2, MovedIs
<1>4. Moved(s) \in Seq(CallType) /\ Len(Moved(s)) = Len(s)
  BY MovedIs
<1> QED
  BY <1>3, <1>4, SameCalls

LEMMA AppendHas ==
    ASSUME NEW s \in Seq(CallType), NEW c \in CallType, NEW u
    PROVE  /\ Has(s, u) \/ c.own = u => Has(Append(s, c), u)
           /\ Polls(s, u) \/ (c.own = u /\ c.kind = "get") => Polls(Append(s, c), u)
<1> DEFINE t == Append(s, c)
<1>1. /\ DOMAIN s = 1..Len(s) /\ DOMAIN t = 1..(Len(s) + 1) /\ Len(s) \in Nat
      /\ t[Len(s) + 1] = c /\ \A k \in 1..Len(s) : t[k] = s[k]
  OBVIOUS
<1> HIDE DEF t
<1>2. Len(s) + 1 \in DOMAIN t /\ \A k \in DOMAIN s : k \in DOMAIN t /\ t[k] = s[k]
  BY <1>1
<1>3. /\ Has(s, u) \/ c.own = u => Has(t, u)
      /\ Polls(s, u) \/ (c.own = u /\ c.kind = "get") => Polls(t, u)
  BY <1>1, <1>2 DEF Has, Polls
<1> QED
  BY <1>3 DEF t

\* Taking a request out leaves the others; k is none of those that are meant.
LEMMA RemoveHas ==
    ASSUME NEW s \in Seq(CallType), NEW k \in DOMAIN s, NEW u
    PROVE  /\ s[k].own # u /\ Has(s, u) => Has(RemoveAt(s, k), u)
           /\ s[k].own # u \/ s[k].kind # "get" => (Polls(s, u) => Polls(RemoveAt(s, k), u))
<1> DEFINE r == RemoveAt(s, k)
<1>1. k \in 1..Len(s) /\ Len(s) \in Nat /\ DOMAIN s = 1..Len(s)
  OBVIOUS
<1>2. /\ r \in Seq(CallType) /\ Len(r) = Len(s) - 1
      /\ \A j \in 1..(Len(s) - 1) : r[j] = s[IF j < k THEN j ELSE j + 1]
  BY RemoveIs
<1> HIDE DEF r
<1>3. ASSUME NEW j \in 1..Len(s), j # k PROVE \E n \in DOMAIN r : r[n] = s[j]
  <2>1. CASE j < k
    <3>1. j \in 1..(Len(s) - 1) /\ j \in DOMAIN r
      BY <1>1, <1>2, <2>1
    <3> QED
      BY <1>2, <2>1, <3>1
  <2>2. CASE ~(j < k)
    <3>1. j - 1 \in 1..(Len(s) - 1) /\ j - 1 \in DOMAIN r /\ ~(j - 1 < k) /\ (j - 1) + 1 = j
      BY <1>1, <1>2, <1>3, <2>2
    <3> QED
      BY <1>2, <3>1
  <2> QED
    BY <2>1, <2>2
<1>4. ASSUME s[k].own # u, Has(s, u) PROVE Has(r, u)
  BY <1>1, <1>3, <1>4 DEF Has
<1>5. ASSUME s[k].own # u \/ s[k].kind # "get", Polls(s, u) PROVE Polls(r, u)
  BY <1>1, <1>3, <1>5 DEF Polls
<1> QED
  BY <1>4, <1>5 DEF r

\* Polls that are sent after the others.
LEMMA MoreHas ==
    ASSUME NEW s \in Seq(CallType), NEW u \in Users, NEW n \in {0, 1}
    PROVE  LET t == s \o [k \in 1..n |-> Get(u)] IN
           /\ Has(s, u) \/ n > 0 => Has(t, u)
           /\ Polls(s, u) => Polls(t, u)
<1> DEFINE c == Get(u)
<1>1. c \in CallType /\ c.own = u /\ c.kind = "get"
  BY GetIs
<1> HIDE DEF c
<1>2. CASE n = 0
  <2>1. s \o [k \in 1..n |-> c] = s
    BY <1>2
  <2> QED
    BY <1>2, <2>1 DEF c
<1>3. CASE n = 1
  <2>0. [k \in 1..n |-> c] = <<c>>
    BY <1>3
  <2>1. s \o <<c>> = Append(s, c)
    BY <1>1
  <2>2. Has(Append(s, c), u) /\ (Polls(s, u) => Polls(Append(s, c), u))
    BY <1>1, AppendHas
  <2> QED
    BY <2>0, <2>1, <2>2 DEF c
<1> QED
  BY <1>2, <1>3

\* After a flush what turns or waits has a request.
LEMMA FlushSettles ==
    ASSUME NEW v, Ready(v), NEW s \in Seq(CallType), CallsFit(s, v), NEW t, NEW f, NEW lf,
           NEW n \in {0, 1}, Flush(s, v.pending, t, f, lf, n)
    PROVE  /\ Polls(s, account) => Polls(calls', account)
           /\ syncing' => Has(calls', account)
           /\ Waiting(v.pending, account) # {} => Has(calls', account)
<1>0. account \in Users
  BY DEF Ready
<1>1. CASE ~Works(s)
  <2>1. PICK k \in DOMAIN s : s[k].cur
    BY <1>1 DEF Works
  <2>2. s[k].own = account
    BY <2>1 DEF CallsFit, CallFits, Ready
  <2>3. Has(s, account)
    BY <2>2 DEF Has
  <2> QED
    BY <1>1, <2>3 DEF Flush
<1>2. CASE /\ Works(s) /\ Waiting(v.pending, account) = {}
           /\ calls' = s \o [k \in 1..n |-> Get(account)] /\ syncing' = (n > 0)
  BY <1>0, <1>2, MoreHas
<1>3. ASSUME Works(s), NEW i \in Waiting(v.pending, account),
             calls' = Append(s, Put(i, v.pending[account][i], n))
      PROVE  Has(calls', account) /\ (Polls(s, account) => Polls(calls', account))
  <2> DEFINE c == Put(i, v.pending[account][i], n)
  <2>1. c \in CallType /\ c.own = account
    BY PutIs
  <2> HIDE DEF c
  <2>2. Has(Append(s, c), account) /\ (Polls(s, account) => Polls(Append(s, c), account))
    BY <2>1, AppendHas
  <2> QED
    BY <1>3, <2>2 DEF c
<1> QED
  BY <1>1, <1>2, <1>3 DEF Flush

\* An action that leaves the requests of the account and what waits for it.
LEMMA SettledStays ==
    ASSUME SettleInv, account' = account, ready' = ready, syncing' = syncing, failure' = failure,
           Has(calls, account) => Has(calls', account), Polls(calls, account) => Polls(calls', account),
           Waiting(pending', account) \subseteq Waiting(pending, account),
           account \in told => account \in told'
    PROVE  SettleInv'
BY DEF SettleInv

\* An action that flushes.
LEMMA SettledByFlush ==
    ASSUME SettleInv, account' = account, account \in Users, ready' = ready \/ ready' = TRUE,
           NEW s, Polls(calls, account) => Polls(s, account) \/ ready',
           Polls(s, account) => Polls(calls', account),
           syncing' => Has(calls', account),
           Waiting(pending', account) # {} => Has(calls', account)
    PROVE  SettleInv'
BY DEF SettleInv

LEMMA SyncSettlesNext == ASSUME None \notin Users, MemoryInv, SettleInv, Sync PROVE SettleInv'
<1>1. account \in Users /\ CallsFit(calls, View) /\ calls \in Seq(CallType)
  BY DEF MemoryInv, StateType, Owners, Sync
<1>2. account' = account /\ ready' = ready /\ pending' = pending /\ told' = told
  BY DEF Sync, player
<1>3. CASE ready /\ ~Works(calls)
  <2> DEFINE t == [k \in DOMAIN calls |-> IF calls[k].cur THEN [calls[k] EXCEPT !.waits = 1] ELSE calls[k]]
  <2>1. calls' = t /\ syncing' = syncing /\ failure' = failure
    BY <1>3 DEF Sync
  <2>2. DOMAIN calls = 1..Len(calls) /\ DOMAIN t = DOMAIN calls /\ \A k \in DOMAIN calls : calls[k] \in CallType
    BY <1>1
  <2>3. \A c \in CallType : LET d == [c EXCEPT !.waits = 1] IN d.kind = c.kind /\ d.own = c.own
    BY DEF CallType
  <2>4. \A k \in DOMAIN calls : t[k].kind = calls[k].kind /\ t[k].own = calls[k].own
    BY <2>2, <2>3
  <2> HIDE DEF t
  <2>5. (Has(calls, account) => Has(t, account)) /\ (Polls(calls, account) => Polls(t, account))
    BY <2>2, <2>4 DEF Has, Polls
  <2> QED
    BY <1>2, <2>1, <2>5, SettledStays
<1>4. CASE ready /\ Works(calls)
  <2>1. Ready(View) /\ View.pending = pending
    BY <1>1, ReadyNow
  <2>2. Flush(calls, View.pending, syncing, failure, loadFailed, 1)
    BY <1>4, <2>1 DEF Sync
  <2>3. /\ Polls(calls, account) => Polls(calls', account)
        /\ syncing' => Has(calls', account)
        /\ Waiting(pending, account) # {} => Has(calls', account)
    BY <1>1, <2>1, <2>2, FlushSettles
  <2> QED
    BY <1>1, <1>2, <2>3, SettledByFlush
<1>5. CASE ~ready
  <2>1. calls' = Append(calls, Get(account))
    BY <1>5 DEF Sync
  <2>2. Get(account) \in CallType /\ Get(account).own = account /\ Get(account).kind = "get"
    BY <1>1, GetIs
  <2>3. Has(calls', account) /\ Polls(calls', account)
    BY <1>1, <2>1, <2>2, AppendHas
  <2> QED
    BY <1>1, <1>2, <2>3, SettledByFlush
<1> QED
  BY <1>3, <1>4, <1>5

LEMMA FrameChangedSettles == ASSUME MemoryInv, SettleInv, studyFrameChanged PROVE SettleInv'
<1>1. calls \in Seq(CallType) /\ CallsFit(calls, View) /\ told \subseteq Users
  BY DEF MemoryInv, StateType
<1>2. account' = account /\ ready' = ready /\ pending' = pending
  BY DEF studyFrameChanged
<1>3. PICK u \in told :
          /\ told' = told \ {u}
          /\ IF u # account THEN UNCHANGED <<calls, syncing, failure>>
             ELSE IF ready THEN Flush(Moved(calls), pending, syncing, failure, loadFailed, 0)
             ELSE calls' = Moved(calls) /\ UNCHANGED <<syncing, failure>>
  BY DEF studyFrameChanged
<1>4. /\ Moved(calls) \in Seq(CallType) /\ CallsFit(Moved(calls), View)
      /\ Has(calls, account) => Has(Moved(calls), account)
      /\ Polls(calls, account) => Polls(Moved(calls), account)
  BY <1>1, MovedFits, MovedSame
<1>5. CASE u # account
  BY <1>2, <1>3, <1>5, SettledStays
<1>6. CASE u = account /\ ready
  <2>1. Ready(View) /\ View.pending = pending /\ account \in Users
    BY <1>1, <1>6, ReadyNow
  <2>2. Flush(Moved(calls), View.pending, syncing, failure, loadFailed, 0)
    BY <1>3, <1>6, <2>1
  <2>3. /\ Polls(Moved(calls), account) => Polls(calls', account)
        /\ syncing' => Has(calls', account)
        /\ Waiting(pending, account) # {} => Has(calls', account)
    BY <1>4, <2>1, <2>2, FlushSettles
  <2> QED
    BY <1>2, <1>4, <2>1, <2>3, SettledByFlush
<1>7. CASE u = account /\ ~ready
  <2>1. calls' = Moved(calls) /\ syncing' = syncing /\ account \in Users
    BY <1>1, <1>3, <1>7
  <2>2. Polls(calls', account)
    BY <1>4, <1>7, <2>1 DEF SettleInv
  <2>3. Has(calls', account)
    BY <2>2 DEF Polls, Has
  <2> QED
    BY <1>2, <2>1, <2>2, <2>3, SettledByFlush
<1> QED
  BY <1>5, <1>6, <1>7

LEMMA SaveSettles == ASSUME None \notin Users, MemoryInv, SettleInv, NEW i \in Items, Save(i) PROVE SettleInv'
<1>1. calls \in Seq(CallType) /\ CallsFit(calls, View) /\ account \in Owners /\ StateType
  BY DEF MemoryInv, StateType
<1>2. account' = account /\ ready' = ready /\ ready /\ server' = server /\ Stored(account, i)
  BY DEF Save
<1>3. /\ Moved(calls) \in Seq(CallType) /\ CallsFit(Moved(calls), View)
      /\ Has(calls, account) => Has(Moved(calls), account)
      /\ Polls(calls, account) => Polls(Moved(calls), account)
  BY <1>1, MovedFits, MovedSame
<1>4. CASE account = None
  <2>1. calls' = Moved(calls) /\ syncing' = syncing
    BY <1>4 DEF Save
  <2> QED
    BY <1>2, <1>3, <1>4, <2>1 DEF SettleInv
<1>5. CASE account # None
  <2>1. account \in Users
    BY <1>1, <1>5 DEF Owners
  <2>2. /\ pending' \in Values /\ mine' \in Values /\ put' \in Values /\ StoredInv'
        /\ CallsFit(Moved(calls), View')
    BY <1>1, <1>2, <1>3, StoredKeeps
  <2>3. Ready(View') /\ View'.pending = pending'
    BY <1>1, <1>2, <2>1, <2>2, ReadyThen
  <2>4. Flush(Moved(calls), pending', syncing, failure, loadFailed, 0)
    BY <1>5 DEF Save
  <2>5. Flush(Moved(calls), View'.pending, syncing, failure, loadFailed, 0)
    BY <2>3, <2>4
  <2>6. /\ Polls(Moved(calls), account) => Polls(calls', account)
        /\ syncing' => Has(calls', account)
        /\ Waiting(pending', account) # {} => Has(calls', account)
    BY <1>3, <2>2, <2>3, <2>5, FlushSettles
  <2> QED
    BY <1>2, <1>3, <2>1, <2>6, SettledByFlush
<1> QED
  BY <1>4, <1>5

LEMMA FrameSaveSettles ==
    ASSUME None \notin Users, MemoryInv, SettleInv, NEW i \in Items, FrameSave(i)
    PROVE  SettleInv'
<1>1. pending \in Values /\ account \in Owners /\ frame \in Owners
  BY DEF MemoryInv, StateType
<1>2. /\ account' = account /\ ready' = ready /\ syncing' = syncing /\ failure' = failure /\ calls' = calls
      /\ frame # None /\ told' = told \cup {frame}
      /\ pending' = [pending EXCEPT ![frame][i] = Len(made) + 1]
  BY DEF FrameSave, Stored, page
<1>3. CASE frame = account
  BY <1>2, <1>3 DEF SettleInv
<1>4. CASE frame # account
  <2>1. pending'[account] = pending[account]
    BY <1>1, <1>2, <1>4 DEF Values
  <2>2. Waiting(pending', account) = Waiting(pending, account)
    BY <2>1 DEF Waiting
  <2> QED
    BY <1>2, <2>2, SettledStays
<1> QED
  BY <1>3, <1>4

LEMMA BindSettles ==
    ASSUME None \notin Users, MemoryInv, NEW u \in Owners, bindStudyAccount(u)
    PROVE  SettleInv'
<1>1. /\ account' = u /\ ready' = (u = None) /\ syncing' = (u # None)
      /\ calls' = IF u = None THEN Unbound(calls) ELSE Append(Unbound(calls), Get(u))
  BY DEF bindStudyAccount
<1>2. CASE u = None
  BY <1>1, <1>2 DEF SettleInv
<1>3. CASE u # None
  <2>1. Get(u).own = u /\ Get(u).kind = "get"
    BY DEF Get
  <2>2. calls' = Append(Unbound(calls), Get(u))
    BY <1>1, <1>3
  <2>3. Unbound(calls) \in Seq(CallType) /\ Get(u) \in CallType
    <3>1. u \in Users /\ calls \in Seq(CallType)
      BY <1>3 DEF Owners, MemoryInv, StateType
    <3>2. Moved(calls) \in Seq(CallType) /\ Len(Moved(calls)) = Len(calls)
      BY <3>1, MovedIs
    <3>3. \A k \in 1..Len(calls) : Moved(calls)[k] \in CallType
      BY <3>2
    <3>4. \A c \in CallType : [c EXCEPT !.cur = FALSE] \in CallType
      BY DEF CallType
    <3>5. \A k \in 1..Len(calls) : [Moved(calls)[k] EXCEPT !.cur = FALSE] \in CallType
      BY <3>3, <3>4
    <3>6. Unbound(calls) = [k \in 1..Len(calls) |-> [Moved(calls)[k] EXCEPT !.cur = FALSE]]
      BY <3>1 DEF Unbound
    <3>7. Unbound(calls) \in Seq(CallType)
      BY <3>1, <3>5, <3>6
    <3> QED
      BY <3>1, <3>7, GetIs
  <2>4. Has(calls', u) /\ Polls(calls', u)
    BY <2>1, <2>2, <2>3, AppendHas
  <2> QED
    BY <1>1, <1>3, <2>4 DEF SettleInv
<1> QED
  BY <1>2, <1>3

LEMMA ServeSettles == ASSUME MemoryInv, SettleInv, NEW k \in DOMAIN calls, Serve(k) PROVE SettleInv'
<1>1. calls \in Seq(CallType) /\ \A j \in DOMAIN calls : calls[j] \in CallType
  BY DEF MemoryInv, StateType
<1>2. /\ account' = account /\ ready' = ready /\ syncing' = syncing /\ failure' = failure
      /\ pending' = pending /\ told' = told
  BY DEF Serve, page, player
<1>3. \E x : calls' = [calls EXCEPT ![k].ph = "ok", ![k].got = x] \/ calls' = [calls EXCEPT ![k].ph = x]
  BY DEF Serve
<1>4. DOMAIN calls' = DOMAIN calls /\ \A j \in DOMAIN calls : calls'[j].own = calls[j].own /\ calls'[j].kind = calls[j].kind
  <2>1. PICK x : calls' = [calls EXCEPT ![k].ph = "ok", ![k].got = x] \/ calls' = [calls EXCEPT ![k].ph = x]
    BY <1>3
  <2>2. CASE calls' = [calls EXCEPT ![k].ph = "ok", ![k].got = x]
    <3> DEFINE d == [calls[k] EXCEPT !.ph = "ok", !.got = x]
    <3>1. calls' = [calls EXCEPT ![k] = d]
      BY <2>2
    <3>2. d.own = calls[k].own /\ d.kind = calls[k].kind
      BY <1>1 DEF CallType
    <3> HIDE DEF d
    <3> QED
      BY <1>1, <3>1, <3>2
  <2>3. CASE calls' = [calls EXCEPT ![k].ph = x]
    <3> DEFINE d == [calls[k] EXCEPT !.ph = x]
    <3>1. calls' = [calls EXCEPT ![k] = d]
      BY <2>3
    <3>2. d.own = calls[k].own /\ d.kind = calls[k].kind
      BY <1>1 DEF CallType
    <3> HIDE DEF d
    <3> QED
      BY <1>1, <3>1, <3>2
  <2> QED
    BY <2>1, <2>2, <2>3
<1>5. (Has(calls, account) => Has(calls', account)) /\ (Polls(calls, account) => Polls(calls', account))
  BY <1>4 DEF Has, Polls
<1> QED
  BY <1>2, <1>5, SettledStays

LEMMA PutDoneSettles ==
    ASSUME MemoryInv, SettleInv, NEW k \in DOMAIN calls, PutDone(k)
    PROVE  SettleInv'
<1> DEFINE c  == calls[k]
           P  == IF c.ph = "ok" /\ Sent(c) THEN [pending EXCEPT ![account][c.item] = 0] ELSE pending
           cs == IF P # pending THEN Moved(calls) ELSE calls
<1>1. /\ calls \in Seq(CallType) /\ c \in CallType /\ k \in 1..Len(calls)
  BY DEF MemoryInv, StateType
<1>2. /\ c.kind = "put" /\ c.own = account /\ pending' = P
      /\ \/ \E i \in Waiting(P, account) :
               /\ c.ph = "ok" /\ calls' = [cs EXCEPT ![k].item = i, ![k].ver = P[account][i], ![k].ph = "sent"]
               /\ UNCHANGED <<syncing, failure>>
         \/ /\ c.ph = "err" \/ Waiting(P, account) = {}
            /\ calls' = RemoveAt(cs, k) \o [n \in 1..c.waits |-> Get(account)] /\ syncing' = (c.waits > 0)
            /\ failure' = (c.ph = "err" \/ (failure /\ loadFailed))
      /\ account' = account /\ ready' = ready
  BY DEF PutDone, Ignored
<1>3. /\ cs \in Seq(CallType) /\ Len(cs) = Len(calls) /\ cs[k] = c
      /\ Polls(calls, account) => Polls(cs, account)
  <2>1. Len(Moved(calls)) = Len(calls) /\ Moved(calls) \in Seq(CallType) /\ Moved(calls)[k] = c
        /\ (Polls(calls, account) => Polls(Moved(calls), account))
    BY <1>1, <1>2, MovedIs, MovedSame
  <2> QED
    BY <1>1, <2>1
<1> HIDE DEF c, P, cs
<1>4. account \in Users /\ c.waits \in {0, 1}
  BY <1>1, <1>2 DEF CallType
<1>5. k \in DOMAIN cs
  BY <1>1, <1>3
<1>6. ASSUME NEW i \in Waiting(P, account),
             calls' = [cs EXCEPT ![k].item = i, ![k].ver = P[account][i], ![k].ph = "sent"]
      PROVE  Has(calls', account) /\ (Polls(cs, account) => Polls(calls', account))
  <2> DEFINE x == P[account][i]
             d == [c EXCEPT !.item = i, !.ver = x, !.ph = "sent"]
  <2>1. calls' = [cs EXCEPT ![k] = d]
    BY <1>3, <1>5, <1>6
  <2> HIDE DEF x
  <2>2. d.own = account
    BY <1>1, <1>2 DEF CallType
  <2> HIDE DEF d
  <2>3. DOMAIN calls' = DOMAIN cs /\ calls'[k] = d /\ \A j \in DOMAIN cs : j # k => calls'[j] = cs[j]
    BY <1>3, <1>5, <2>1
  <2>4. Has(calls', account)
    BY <1>5, <2>2, <2>3 DEF Has
  <2>5. Polls(cs, account) => Polls(calls', account)
    BY <1>2, <1>3, <2>3 DEF Polls
  <2> QED
    BY <2>4, <2>5
<1>7. CASE \E i \in Waiting(P, account) :
              calls' = [cs EXCEPT ![k].item = i, ![k].ver = P[account][i], ![k].ph = "sent"]
  <2>1. Has(calls', account) /\ (Polls(cs, account) => Polls(calls', account))
    BY <1>6, <1>7
  <2> QED
    BY <1>2, <1>3, <1>4, <2>1, SettledByFlush
<1>8. CASE /\ c.ph = "err" \/ Waiting(P, account) = {}
           /\ calls' = RemoveAt(cs, k) \o [n \in 1..c.waits |-> Get(account)] /\ syncing' = (c.waits > 0)
           /\ failure' = (c.ph = "err" \/ (failure /\ loadFailed))
  <2>1. RemoveAt(cs, k) \in Seq(CallType) /\ (Polls(cs, account) => Polls(RemoveAt(cs, k), account))
    BY <1>2, <1>3, <1>5, RemoveIs, RemoveHas
  <2>2. (c.waits > 0 => Has(calls', account)) /\ (Polls(cs, account) => Polls(calls', account))
    BY <1>4, <1>8, <2>1, MoreHas
  <2>3. ~failure' => Waiting(pending', account) = {}
    BY <1>2, <1>8
  <2>4. ~ready => account # None /\ Polls(calls', account)
    BY <1>3, <2>2 DEF SettleInv
  <2> QED
    BY <1>2, <1>8, <2>2, <2>3, <2>4 DEF SettleInv
<1> QED
  BY <1>2, <1>7, <1>8

LEMMA GetDoneSettles ==
    ASSUME MemoryInv, SettleInv, NEW k \in DOMAIN calls, GetDone(k)
    PROVE  SettleInv'
<1> DEFINE c    == calls[k]
           uses == c.ph = "ok" /\ Unmoved(c)
           rest == IF uses THEN Moved(RemoveAt(calls, k)) ELSE RemoveAt(calls, k)
           F    == c.ph = "err" \/ (Waiting(pending, account) # {} /\ failure)
<1>1. calls \in Seq(CallType) /\ CallsFit(calls, View) /\ c \in CallType
  BY DEF MemoryInv, StateType
<1>2. /\ c.own = account /\ ready' = TRUE /\ account' = account /\ pending' = pending
      /\ Flush(rest, pending, FALSE, F, loadFailed', 0)
  BY DEF GetDone, Ignored
<1>3. rest \in Seq(CallType) /\ CallsFit(rest, View)
  <2>1. RemoveAt(calls, k) \in Seq(CallType) /\ CallsFit(RemoveAt(calls, k), View)
    BY <1>1, RemoveFits
  <2>2. Moved(RemoveAt(calls, k)) \in Seq(CallType) /\ CallsFit(Moved(RemoveAt(calls, k)), View)
    BY <2>1, MovedFits
  <2> QED
    BY <2>1, <2>2
<1> HIDE DEF c, rest, F
<1>4. account \in Users
  BY <1>1, <1>2 DEF CallType
<1>5. Ready(View) /\ View.pending = pending
  BY <1>4, ReadyNow
<1>6. Flush(rest, View.pending, FALSE, F, loadFailed', 0)
  BY <1>2, <1>5
<1>7. /\ syncing' => Has(calls', account)
      /\ Waiting(pending, account) # {} => Has(calls', account)
  BY <1>3, <1>5, <1>6, FlushSettles
<1> QED
  BY <1>2, <1>7 DEF SettleInv

LEMMA LeftSettles == ASSUME MemoryInv, SettleInv, NEW k \in DOMAIN calls, Left(k) PROVE SettleInv'
<1>1. calls \in Seq(CallType)
  BY DEF MemoryInv, StateType
<1>2. /\ account' = account /\ ready' = ready /\ syncing' = syncing /\ failure' = failure
      /\ pending' = pending /\ told' = told /\ calls' = RemoveAt(calls, k) /\ calls[k].own # account
  BY DEF Left, page, player, Ignored
<1>3. (Has(calls, account) => Has(calls', account)) /\ (Polls(calls, account) => Polls(calls', account))
  BY <1>1, <1>2, RemoveHas
<1> QED
  BY <1>2, <1>3, SettledStays

LEMMA NextSettles == ASSUME None \notin Users PROVE MemoryInv /\ SettleInv /\ [Next]_vars => SettleInv'
<1> SUFFICES ASSUME MemoryInv, SettleInv, [Next]_vars PROVE SettleInv'
  OBVIOUS
<1>1. CASE Sync
  BY <1>1, SyncSettlesNext
<1>2. CASE OpenFrame
  BY <1>2, SettledStays DEF OpenFrame, page
<1>3. CASE studyFrameChanged
  BY <1>3, FrameChangedSettles
<1>4. ASSUME NEW u \in Owners, bindStudyAccount(u) PROVE SettleInv'
  BY <1>4, BindSettles
<1>5. ASSUME NEW i \in Items, Save(i) PROVE SettleInv'
  BY <1>5, SaveSettles
<1>6. ASSUME NEW i \in Items, FrameSave(i) PROVE SettleInv'
  BY <1>6, FrameSaveSettles
<1>7. ASSUME NEW i \in Items, NEW u \in Users, OtherDevice(u, i) PROVE SettleInv'
  BY <1>7, SettledStays DEF OtherDevice, page, player
<1>8. ASSUME NEW k \in DOMAIN calls, Serve(k) PROVE SettleInv'
  BY <1>8, ServeSettles
<1>9. ASSUME NEW k \in DOMAIN calls, PutDone(k) PROVE SettleInv'
  BY <1>9, PutDoneSettles
<1>10. ASSUME NEW k \in DOMAIN calls, GetDone(k) PROVE SettleInv'
  BY <1>10, GetDoneSettles
<1>11. ASSUME NEW k \in DOMAIN calls, Left(k) PROVE SettleInv'
  BY <1>11, LeftSettles
<1>12. CASE UNCHANGED vars
  BY <1>12, SettledStays DEF vars, page, player
<1> QED
  BY <1>1, <1>2, <1>3, <1>4, <1>5, <1>6, <1>7, <1>8, <1>9, <1>10, <1>11, <1>12 DEF Next

\* When no request is under way and no message of the frame waits, the memory can be used,
\* nothing turns, and what still waits is shown as not yet synchronised, whatever failed and
\* whoever signed in and out on the way (the finally blocks of study-memory.js).
THEOREM MemorySettles == ASSUME None \notin Users PROVE Spec => []SyncSettles
<1>1. Init => SettleInv
  BY DEF Init, SettleInv
<1>2. MemoryInv /\ SettleInv /\ [Next]_vars => SettleInv'
  BY NextSettles
<1>3. SettleInv => SyncSettles
  BY DEF SettleInv, SyncSettles, Has, Polls
<1> QED
  BY <1>1, <1>2, <1>3, MemoryStays, PTL DEF Spec
=============================================================================
