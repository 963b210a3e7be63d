-------------------------- MODULE VictimSyncProofs --------------------------
(* Proofs about victim synchronization, for any edges, keys, victims, cache  *)
(* limit, number of syncsets and of losses: the inductive invariant, why the *)
(* steps that send, lose, remove and receive keep it, and what follows.      *)
(*                                                                           *)
(* The library's induction theorems cannot be applied by the provers at      *)
(* hand, so what the recursive function of ClearContinuous computes is       *)
(* proved by descent to the least number at which it would fail.             *)
EXTENDS VictimSync, FiniteSetTheorems, TLAPS

-----------------------------------------------------------------------------
(* Least and greatest numbers *)

\* A set of naturals that is not empty has a least element.
LEMMA LeastNatural ==
  ASSUME NEW S \in SUBSET Nat, S # {}
  PROVE  \E x \in S : \A y \in S : x <= y
  <1> DEFINE R == OpToRel(<, Nat)
  <1>1. IsWellFoundedOn(R, Nat)
    BY NatLessThanWellFounded, Zenon
  <1> HIDE DEF R
  <1>2. PICK x \in S : \A y \in S : ~ (<<y, x>> \in R)
    BY <1>1, WFMin, Zenon
  <1>3. \A y \in S : ~ (y < x)
    BY <1>2, Zenon DEF R, OpToRel
  <1> QED
    BY <1>3

\* Max is the greatest element of a bounded set of naturals.
LEMMA MaxOfBounded ==
  ASSUME NEW S \in SUBSET Nat, S # {}, NEW b \in Nat, \A x \in S : x <= b
  PROVE  Max(S) \in S /\ \A y \in S : y <= Max(S)
  <1> DEFINE T == {j \in Nat : b - j \in S}
  <1>1. PICK x \in S : TRUE
    BY Zenon
  <1>2. b - x \in T
    <2>1. b - x \in Nat /\ b - (b - x) = x
      BY <1>1
    <2> QED
      BY <2>1
  <1>3. PICK j \in T : \A i \in T : j <= i
    BY <1>2, LeastNatural, Zenon
  <1>4. \A y \in S : y <= b - j
    <2> TAKE y \in S
    <2>1. b - y \in Nat /\ b - (b - y) = y
      OBVIOUS
    <2>2. b - y \in T
      BY <2>1
    <2>3. j <= b - y /\ j \in Nat
      BY <2>2, <1>3, Zenon
    <2> HIDE DEF T
    <2> QED
      BY <2>1, <2>3
  <1>5. b - j \in S /\ \A y \in S : b - j >= y
    BY <1>3, <1>4
  <1> HIDE DEF T
  <1>6. Max(S) \in S /\ \A y \in S : Max(S) >= y
    BY <1>5, Zenon DEF Max
  <1> QED
    BY <1>6

\* The syncsets after `seqnum' up to the last continuous one are all cached.
LEMMA LastContinuousReached ==
  ASSUME NEW m, NEW q \in Nat, NEW b \in Nat, q <= b,
         CachedSeqnums(m) \in SUBSET Nat,
         \A i \in CachedSeqnums(m) : i <= b
  PROVE  LET last == LastContinuous(m, q)
         IN /\ last \in Nat
            /\ q <= last /\ last <= b
            /\ (q + 1) .. last \subseteq CachedSeqnums(m)
  <1> DEFINE S == {i \in {q} \cup CachedSeqnums(m) :
                     /\ i >= q
                     /\ (q + 1) .. i \subseteq CachedSeqnums(m)}
  <1>1. q \in S
    OBVIOUS
  <1>2. S \in SUBSET Nat /\ \A x \in S : x <= b
    OBVIOUS
  <1>3. Max(S) \in S
    BY <1>1, <1>2, MaxOfBounded, Zenon
  <1>4. Max(S) = LastContinuous(m, q)
    BY DEF LastContinuous
  <1> HIDE DEF S
  <1> QED
    BY <1>2, <1>3, <1>4 DEF S

-----------------------------------------------------------------------------
(* What compress() wrote, recover() reads *)

\* The victims v are the ones that were sent, up to removals in rm.
Agrees(v, sent, rm) ==
  \A k \in Keys : v[k] = sent[k] \/ (k \in rm /\ v[k] = Absent)

\* The syncset x was compressed from the victims that h has at its sequence
\* number, a compressed one against those sent just before.
Faithful(x, h) ==
  /\ x.seqnum + 1 \in 1 .. Len(h)
  /\ h[x.seqnum + 1] \in Victims
  /\ x.form.complete \in BOOLEAN
  /\ x.form.complete =>
       \E p \in Victims \cup {NULL} : x.form \in Forms(h[x.seqnum + 1], p)
  /\ ~x.form.complete =>
       /\ x.seqnum \in 1 .. Len(h)
       /\ h[x.seqnum] \in Victims
       /\ x.form \in Forms(h[x.seqnum + 1], h[x.seqnum])

\* What a syncset lists of a victim.
LEMMA EntriesFields ==
  ASSUME NEW cur, NEW S, NEW d
  PROVE  LET x == Entries(cur, S, d)
         IN /\ DOMAIN x = S
            /\ \A k \in S : /\ x[k].info = cur[k]
                            /\ x[k].dedup <=> k \in d
  <1>1. DOMAIN Entries(cur, S, d) = S
    BY DEF Entries
  <1>2. ASSUME NEW k \in S
        PROVE  Entries(cur, S, d)[k].info = cur[k]
    BY DEF Entries
  <1>3. ASSUME NEW k \in S
        PROVE  Entries(cur, S, d)[k].dedup <=> k \in d
    BY Zenon DEF Entries
  <1> QED
    BY <1>1, <1>2, <1>3

\* A complete syncset replaces whatever was tracked before.
LEMMA RecoverComplete ==
  ASSUME NEW cur \in Victims, NEW p, NEW form \in Forms(cur, p), form.complete,
         NEW base
  PROVE  Recover(form, base) = cur
  <1>1. form.victims = Entries(cur, Keys, {})
    BY DEF Forms
  <1>2. /\ DOMAIN form.victims = Keys
        /\ \A k \in Keys : /\ form.victims[k].info = cur[k]
                           /\ form.victims[k].dedup <=> k \in {}
    BY <1>1, EntriesFields
  <1>3. Recover(form, base) = [k \in Keys |-> cur[k]]
    BY <1>2 DEF Recover
  <1> QED
    BY <1>3 DEF Victims

\* A compressed syncset turns the victims sent before into those sent with it,
\* except for victims removed meanwhile.
LEMMA RecoverCompressed ==
  ASSUME NEW cur \in Victims, NEW p \in Victims, NEW form \in Forms(cur, p),
         ~form.complete,
         NEW base \in Victims, NEW rm, Agrees(base, p, rm)
  PROVE  Recover(form, base) \in Victims /\ Agrees(Recover(form, base), cur, rm)
  <1>1. PICK listed \in SUBSET Keys, d \in SUBSET Keys :
          /\ form.victims = Entries(cur, listed, d)
          /\ Changed(cur, p) \subseteq listed
          /\ d \subseteq Kept(cur, p)
    <2>1. CASE form.victims = Entries(cur, Keys, {})
      BY <2>1 DEF Changed, Kept
    <2>2. CASE \E d \in SUBSET (Changed(cur, p) \cap Kept(cur, p)) :
                 form.victims = Entries(cur, Changed(cur, p), d)
      BY <2>2 DEF Changed, Kept
    <2>3. p # NULL
      BY NullAssumption DEF Victims
    <2> QED
      BY <2>1, <2>2, <2>3 DEF Forms
  <1>2. /\ DOMAIN form.victims = listed
        /\ \A k \in listed : /\ form.victims[k].info = cur[k]
                             /\ form.victims[k].dedup <=> k \in d
    BY <1>1, EntriesFields
  <1>3. Recover(form, base) =
          [k \in Keys |-> IF k \notin listed \/ (k \in d /\ base[k] = Absent)
                          THEN base[k] ELSE cur[k]]
    BY <1>2 DEF Recover
  <1>4. Recover(form, base) \in Victims
    BY <1>3 DEF Victims
  <1>5. ASSUME NEW k \in Keys
        PROVE  \/ Recover(form, base)[k] = cur[k]
               \/ k \in rm /\ Recover(form, base)[k] = Absent
    <2>1. CASE k \notin listed
      <3>1. cur[k] = p[k]
        BY <1>1, <2>1 DEF Changed
      <3> QED
        BY <3>1, <2>1, <1>3 DEF Agrees
    <2>2. CASE k \in d /\ base[k] = Absent
      <3>1. p[k] # Absent
        BY <1>1, <2>2 DEF Kept
      <3> QED
        BY <3>1, <2>2, <1>3 DEF Agrees
    <2> QED
      BY <2>1, <2>2, <1>3
  <1> QED
    BY <1>4, <1>5 DEF Agrees

-----------------------------------------------------------------------------
(* The cached syncsets that follow without a gap *)

\* f is the recursive function of ClearContinuous on q .. last.
Recovers(f, m, q, base, last) ==
  f = [i \in q .. last |-> IF i = q THEN base
                           ELSE Recover(CachedAt(m, i).form, f[i - 1])]

\* The recursive function of ClearContinuous exists on every interval.
LEMMA RecoveredExists ==
  ASSUME NEW m, NEW q \in Nat, NEW base, NEW last \in Nat, q <= last
  PROVE  \E f : Recovers(f, m, q, base, last)
  <1> DEFINE Fits(f, j) ==
               f = [i \in q .. (q + j) |->
                      IF i = q THEN base
                      ELSE Recover(CachedAt(m, i).form, f[i - 1])]
             T == {j \in Nat : ~ \E f : Fits(f, j)}
  <1>1. ASSUME T # {} PROVE FALSE
    <2>1. PICK j \in T : \A i \in T : j <= i
      BY <1>1, LeastNatural, Zenon
    <2>2. j # 0
      <3> DEFINE f == [i \in q .. q |-> base]
      <3>1. Fits(f, 0)
        OBVIOUS
      <3> QED
        BY <3>1, <2>1, Zenon
    <2>3. j - 1 \in Nat /\ j - 1 \notin T
      BY <2>1, <2>2, SMTT(30)
    <2>4. PICK f : Fits(f, j - 1)
      BY <2>3
    <2> DEFINE g == [i \in q .. (q + j) |->
                       IF i = q + j
                       THEN Recover(CachedAt(m, i).form, f[i - 1])
                       ELSE f[i]]
    <2>5. Fits(g, j)
      <3>1. ASSUME NEW i \in q .. (q + j)
            PROVE  g[i] = IF i = q THEN base
                          ELSE Recover(CachedAt(m, i).form, g[i - 1])
        <4>1. CASE i = q + j
          <5>1. i # q /\ i - 1 \in q .. (q + j) /\ i - 1 # q + j
            BY <4>1, <2>2, <2>1
          <5>2. g[i - 1] = f[i - 1]
            BY <5>1
          <5> QED
            BY <4>1, <5>1, <5>2
        <4>2. CASE i # q + j
          <5>1. i \in q .. (q + (j - 1))
            BY <4>2, <2>1
          <5>2. g[i] = f[i]
            BY <4>2
          <5>3. i # q => i - 1 \in q .. (q + j) /\ i - 1 # q + j
            BY <5>1, <2>1
          <5>4. i # q => g[i - 1] = f[i - 1]
            BY <5>3
          <5>5. f[i] = IF i = q THEN base
                       ELSE Recover(CachedAt(m, i).form, f[i - 1])
            BY <5>1, <2>4
          <5> HIDE DEF g
          <5> QED
            BY <5>2, <5>4, <5>5
        <4> QED
          BY <4>1, <4>2
      <3>2. g = [i \in q .. (q + j) |-> g[i]]
        OBVIOUS
      <3> HIDE DEF g
      <3> QED
        BY <3>1, <3>2, Zenon
    <2> HIDE DEF g, Fits
    <2> QED
      BY <2>1, <2>5
  <1>2. last - q \in Nat /\ q + (last - q) = last
    OBVIOUS
  <1>3. PICK f : Fits(f, last - q)
    BY <1>1, <1>2, Zenon
  <1>4. Recovers(f, m, q, base, last)
    BY <1>2, <1>3 DEF Recovers
  <1> QED
    BY <1>4

\* ClearContinuous turns the victims sent with `synced' into those sent with
\* the last syncset that follows it in the cache without a gap.
LEMMA ClearContinuousSent ==
  ASSUME NEW m, NEW h, Len(h) \in Nat,
         NEW q \in Nat, q < Len(h), h[q + 1] \in Victims,
         NEW base \in Victims, NEW rm, Agrees(base, h[q + 1], rm),
         \A x \in m.cached : x.seqnum \in Nat /\ x.seqnum < Len(h),
         \A x \in m.cached : x.seqnum > q => Faithful(x, h) /\ ~x.form.complete
  PROVE  LET last == LastContinuous(m, q)
             new == ClearContinuous(m, q, base)
         IN /\ last \in Nat /\ q <= last /\ last < Len(h)
            /\ h[last + 1] \in Victims
            /\ new \in Victims
            /\ Agrees(new, h[last + 1], rm)
  <1> DEFINE last == LastContinuous(m, q)
  <1>1. /\ last \in Nat /\ q <= last /\ last <= Len(h) - 1
        /\ (q + 1) .. last \subseteq CachedSeqnums(m)
    <2>1. CachedSeqnums(m) \in SUBSET Nat
          /\ \A i \in CachedSeqnums(m) : i <= Len(h) - 1
      BY DEF CachedSeqnums
    <2> QED
      BY <2>1, LastContinuousReached
  <1> HIDE DEF last
  <1> DEFINE f == CHOOSE g : Recovers(g, m, q, base, last)
  <1>2. Recovers(f, m, q, base, last)
    BY <1>1, RecoveredExists, Zenon
  <1>3. ClearContinuous(m, q, base) = f[last]
    BY DEF ClearContinuous, Recovers, last
  <1> HIDE DEF f
  <1> DEFINE Good(i) == /\ h[i + 1] \in Victims
                        /\ f[i] \in Victims
                        /\ Agrees(f[i], h[i + 1], rm)
             T == {j \in Nat : q + j <= last /\ ~Good(q + j)}
  <1>4. ASSUME T # {} PROVE FALSE
    <2>1. PICK j \in T : \A i \in T : j <= i
      BY <1>4, LeastNatural, Zenon
    <2>2. j # 0
      BY <2>1, <1>1, <1>2 DEF Recovers
    <2>3. j \in Nat /\ q + j <= last /\ j - 1 \in Nat /\ ~(j <= j - 1)
      BY <2>1, <2>2
    <2>4. Good(q + (j - 1))
      <3>1. q + (j - 1) <= last
        BY <2>3, <1>1
      <3>2. j - 1 \notin T
        <4> HIDE DEF T
        <4> QED
          BY <2>1, <2>3
      <3> QED
        BY <2>3, <3>1, <3>2
    <2> DEFINE i == q + j
    <2>5. /\ i \in (q + 1) .. last /\ i \in q .. last /\ i # q
          /\ i - 1 = q + (j - 1) /\ i \in Nat
      BY <2>1, <2>2, <1>1
    <2> HIDE DEF i
    <2>6. f[i] = Recover(CachedAt(m, i).form, f[i - 1])
      BY <2>5, <1>2, Zenon DEF Recovers
    <2>7. CachedAt(m, i) \in m.cached /\ CachedAt(m, i).seqnum = i
      BY <2>5, <1>1 DEF CachedAt, CachedSeqnums
    <2>8. Faithful(CachedAt(m, i), h) /\ ~CachedAt(m, i).form.complete
      BY <2>7, <2>5
    <2>9. /\ h[i + 1] \in Victims /\ h[i] \in Victims
          /\ CachedAt(m, i).form \in Forms(h[i + 1], h[i])
      BY <2>7, <2>8 DEF Faithful
    <2>10. f[i - 1] \in Victims /\ Agrees(f[i - 1], h[i], rm)
      <3>1. (i - 1) + 1 = i
        BY <2>5
      <3> QED
        BY <3>1, <2>4, <2>5
    <2>11. Good(i)
      BY <2>6, <2>8, <2>9, <2>10, RecoverCompressed
    <2> HIDE DEF Good
    <2> QED
      BY <2>1, <2>11 DEF i
  <1>5. Good(q + (last - q))
    BY <1>4, <1>1, SMTT(30)
  <1>6. q + (last - q) = last /\ last < Len(h)
    BY <1>1
  <1> QED
    BY <1>1, <1>3, <1>5, <1>6 DEF last

-----------------------------------------------------------------------------
(* The inductive invariant.  Its parts are about an edge's monitor m of a     *)
(* neighbor, the neighbor's monitor ms of the edge, and the history h of the  *)
(* victims the neighbor sent to it.                                           *)

FormType == UNION {Forms(cur, p) : cur \in Victims, p \in Victims \cup {NULL}}

CachedType == [seqnum : Nat, form : FormType]

MonitorType ==
  [cur_seqnum : Nat, prev : Victims \cup {NULL},
   is_first : BOOLEAN, tracked_seqnum : Nat, cached : SUBSET CachedType,
   enforcement_seqnum : Nat, wait : BOOLEAN, need_enforcement : BOOLEAN]

SyncsetType == [from : Edges, to : Edges, seqnum : Nat, enforce : BOOLEAN,
                form : FormType]

HistoryType == Seq(Victims \cup {NULL})

\* A value for every edge and each of its neighbors.
PerPair(f) == f = [e \in Edges |-> [n \in Neighbors(e) |-> f[e][n]]]

TypeOK ==
  /\ PerPair(monitor) /\ PerPair(view) /\ PerPair(history) /\ PerPair(removed)
  /\ \A e \in Edges : \A n \in Neighbors(e) :
       /\ monitor[e][n] \in MonitorType
       /\ view[e][n] \in Victims
       /\ history[e][n] \in HistoryType
       /\ removed[e][n] \in SUBSET Keys
  /\ network \in SUBSET {x \in SyncsetType : x.from # x.to}
  /\ lost \in Nat

\* The syncset `i' is newer than what is tracked.
Ahead(m, i) == m.is_first \/ i > m.tracked_seqnum

\* The history is as long as the sequence numbers given, its last entry is the
\* previous syncset, and what the monitor may still need of it is there.
SentOK(m, ms, h) ==
  /\ Len(h) = ms.cur_seqnum
  /\ ms.prev # NULL => ms.cur_seqnum # 0 /\ ms.prev = h[ms.cur_seqnum]
  /\ ~m.is_first => m.tracked_seqnum < Len(h)
  /\ \A i \in 1 .. Len(h) : Ahead(m, i) => h[i] \in Victims

\* The cache holds differences ahead of what is tracked, and a pending
\* enforcement is for syncsets ahead of it.
CacheOK(m, h) ==
  /\ m.is_first => m.tracked_seqnum = 0
  /\ m.need_enforcement => m.wait
  /\ IsFiniteSet(m.cached) /\ Cardinality(m.cached) <= MonitoredVictimsetcnt
  /\ \A x \in m.cached : ~x.form.complete /\ Ahead(m, x.seqnum) /\ Faithful(x, h)
  /\ m.wait => /\ m.tracked_seqnum <= m.enforcement_seqnum
               /\ m.enforcement_seqnum < Len(h)

\* The tracked victims are the ones sent with the tracked sequence number.
ViewOK(m, h, v, rm) ==
  /\ m.is_first => v = NoVictims
  /\ ~m.is_first => Agrees(v, h[m.tracked_seqnum + 1], rm)
  /\ \A k \in rm : v[k] = Absent

\* A syncset in flight is old, or it was compressed from what was sent.
FlightOK(m, h, x) ==
  x.seqnum < Len(h) /\ (Ahead(m, x.seqnum) => Faithful(x, h))

Inv ==
  /\ TypeOK
  /\ \A e \in Edges : \A n \in Neighbors(e) :
       /\ SentOK(monitor[e][n], monitor[n][e], history[n][e])
       /\ CacheOK(monitor[e][n], history[n][e])
       /\ ViewOK(monitor[e][n], history[n][e], view[e][n], removed[e][n])
       /\ lost = 0 /\ monitor[e][n].wait => Answered(e, n)
  /\ \A x \in network : FlightOK(monitor[x.to][x.from], history[x.from][x.to], x)

-----------------------------------------------------------------------------
(* Updates of one pair of edges *)

\* g is f with a new value for one pair.
Assigned(g, f, e, n, x) == g = [f EXCEPT ![e][n] = x]

\* An assignment to one pair leaves the others alone.
LEMMA PairUpdate ==
  ASSUME NEW f, PerPair(f), NEW e \in Edges, NEW n \in Neighbors(e), NEW x,
         NEW g, Assigned(g, f, e, n, x)
  PROVE  /\ PerPair(g)
         /\ \A a \in Edges : \A b \in Neighbors(a) :
              g[a][b] = IF a = e /\ b = n THEN x ELSE f[a][b]
  <1>1. DOMAIN f = Edges /\ \A a \in Edges : DOMAIN f[a] = Neighbors(a)
    BY DEF PerPair
  <1>2. g = [a \in Edges |-> IF a = e THEN [f[e] EXCEPT ![n] = x] ELSE f[a]]
    BY <1>1, Zenon DEF Assigned
  <1>3. \A a \in Edges : \A b \in Neighbors(a) :
          g[a][b] = IF a = e /\ b = n THEN x ELSE f[a][b]
    BY <1>1, <1>2
  <1>4. \A a \in Edges : g[a] = [b \in Neighbors(a) |-> g[a][b]]
    <2> TAKE a \in Edges
    <2>1. f[a] = [b \in Neighbors(a) |-> f[a][b]]
      BY DEF PerPair
    <2>2. CASE a = e
      BY <1>1, <1>2, <2>1, <2>2, Zenon
    <2>3. CASE a # e
      BY <1>2, <2>1, <2>3
    <2> QED
      BY <2>2, <2>3
  <1>5. g = [a \in Edges |-> g[a]]
    BY <1>2
  <1>6. PerPair(g)
    BY <1>4, <1>5 DEF PerPair
  <1> QED
    BY <1>3, <1>6

\* What it leaves of the two pairs of the same edges.
LEMMA PairBoth ==
  ASSUME NEW f, PerPair(f), NEW e \in Edges, NEW n \in Edges, n # e,
         n \in Neighbors(e), e \in Neighbors(n), NEW x,
         NEW g, Assigned(g, f, e, n, x)
  PROVE  g[e][n] = x /\ g[n][e] = f[n][e]
  BY PairUpdate

\* A number up to another that is up to a third is not above the third.
LEMMA NotAbove ==
  ASSUME NEW a \in Nat, NEW b \in Nat, NEW c \in Nat, a <= b, b <= c
  PROVE  ~(a > c)
  OBVIOUS

\* Assigning a pair the value it has changes nothing.
LEMMA PairSame ==
  ASSUME NEW f, PerPair(f), NEW e \in Edges, NEW n \in Neighbors(e)
  PROVE  f = [f EXCEPT ![e][n] = f[e][n]]
  <1>1. f[e] = [f[e] EXCEPT ![n] = f[e][n]]
    BY DEF PerPair
  <1>2. f = [f EXCEPT ![e] = f[e]]
    BY DEF PerPair
  <1> QED
    BY <1>1, <1>2

\* A syncset that was compressed from the history still was when the neighbor
\* has sent another one.
LEMMA FaithfulAppend ==
  ASSUME NEW h \in HistoryType, NEW cur \in Victims, NEW x, x.seqnum \in Nat,
         Faithful(x, h)
  PROVE  Faithful(x, Append(h, cur))
  <1>1. /\ Len(Append(h, cur)) = Len(h) + 1
        /\ \A i \in 1 .. Len(h) : Append(h, cur)[i] = h[i]
        /\ Len(h) \in Nat
    BY DEF HistoryType
  <1> QED
    BY <1>1 DEF Faithful

\* Forgetting the history up to the tracked syncset leaves what a later
\* syncset was compressed from.
LEMMA FaithfulCut ==
  ASSUME NEW h \in HistoryType, NEW t \in Nat, NEW x, x.seqnum \in Nat,
         x.seqnum > t, Faithful(x, h)
  PROVE  Faithful(x, [i \in DOMAIN h |-> IF i > t THEN h[i] ELSE NULL])
  <1> DEFINE c == [i \in DOMAIN h |-> IF i > t THEN h[i] ELSE NULL]
  <1>1. DOMAIN h = 1 .. Len(h) /\ Len(h) \in Nat
    BY DEF HistoryType
  <1>2. c \in HistoryType
    BY <1>1 DEF HistoryType
  <1>3. Len(c) = Len(h)
    BY <1>1, <1>2 DEF HistoryType
  <1>4. \A i \in 1 .. Len(h) : i > t => c[i] = h[i]
    BY <1>1
  <1> HIDE DEF c
  <1>5. Faithful(x, c)
    BY <1>1, <1>3, <1>4 DEF Faithful
  <1> QED
    BY <1>5 DEF c

-----------------------------------------------------------------------------
(* The invariant holds initially and is kept by a sender *)

\* Nothing has been sent.
LEMMA InvInit == Init => Inv
  <1> SUFFICES ASSUME Init PROVE Inv
    OBVIOUS
  <1>1. NoVictims \in Victims
    BY DEF NoVictims, Victims
  <1>2. InitMonitor \in MonitorType
    BY DEF InitMonitor, MonitorType
  <1>3. \A e \in Edges : \A n \in Neighbors(e) :
          /\ monitor[e][n] = InitMonitor /\ view[e][n] = NoVictims
          /\ history[e][n] = <<>> /\ removed[e][n] = {}
          /\ n \in Edges /\ e \in Neighbors(n)
    BY DEF Init, Neighbors
  <1>4. TypeOK
    <2>1. PerPair(monitor) /\ PerPair(view) /\ PerPair(history) /\ PerPair(removed)
      BY DEF Init, PerPair
    <2> QED
      BY <1>1, <1>2, <1>3, <2>1 DEF TypeOK, Init, HistoryType
  <1>5. ASSUME NEW e \in Edges, NEW n \in Neighbors(e)
        PROVE  /\ SentOK(monitor[e][n], monitor[n][e], history[n][e])
               /\ CacheOK(monitor[e][n], history[n][e])
               /\ ViewOK(monitor[e][n], history[n][e], view[e][n], removed[e][n])
               /\ ~monitor[e][n].wait
    <2>1. SentOK(InitMonitor, InitMonitor, <<>>)
      BY DEF SentOK, InitMonitor
    <2>2. CacheOK(InitMonitor, <<>>)
      BY FS_EmptySet, MonitoredAssumption DEF CacheOK, InitMonitor
    <2>3. ViewOK(InitMonitor, <<>>, NoVictims, {})
      BY DEF ViewOK, InitMonitor
    <2>4. ~InitMonitor.wait
      BY DEF InitMonitor
    <2> QED
      BY <1>3, <2>1, <2>2, <2>3, <2>4, Zenon
  <1> QED
    BY <1>4, <1>5, Zenon DEF Inv, Init

\* compress() returns a complete syncset when there is no previous one, and
\* otherwise one that the history accounts for.
LEMMA SentIsFaithful ==
  ASSUME NEW h \in HistoryType, NEW cur \in Victims,
         NEW p \in Victims \cup {NULL}, NEW form \in Forms(cur, p),
         p # NULL => Len(h) # 0 /\ p = h[Len(h)],
         NEW x, x.seqnum = Len(h), x.form = form
  PROVE  Faithful(x, Append(h, cur)) /\ (p = NULL => form.complete)
  <1>1. /\ Len(Append(h, cur)) = Len(h) + 1 /\ Len(h) \in Nat
        /\ Append(h, cur)[Len(h) + 1] = cur
        /\ \A i \in 1 .. Len(h) : Append(h, cur)[i] = h[i]
    BY DEF HistoryType
  <1>2. form.complete \in BOOLEAN /\ (p = NULL => form.complete)
    <2>1. p = NULL => form.complete = TRUE
      BY DEF Forms
    <2>2. form.complete = TRUE \/ form.complete = FALSE
      BY DEF Forms
    <2> QED
      BY <2>1, <2>2, Zenon
  <1>3. ASSUME ~form.complete
        PROVE  /\ x.seqnum \in 1 .. Len(Append(h, cur))
               /\ Append(h, cur)[x.seqnum] = p /\ p \in Victims
    BY <1>1, <1>2, <1>3, SMTT(30)
  <1> QED
    BY <1>1, <1>2, <1>3 DEF Faithful

\* A step of a neighbor that sends a syncset.
LEMMA SendKeeps ==
  ASSUME Inv, NEW e \in Edges, NEW n \in Neighbors(e), SendSyncset(e, n)
  PROVE  Inv'
  <1> DEFINE m == monitor[e][n]
             h == history[e][n]
  <1>0. n \in Edges /\ e \in Neighbors(n) /\ n # e
    BY DEF Neighbors
  <1>1. PICK cur \in Contents[e] : \E form \in Forms(cur, m.prev) :
         /\ network' = network \cup
              {[from |-> e, to |-> n, seqnum |-> m.cur_seqnum,
                enforce |-> m.need_enforcement, form |-> form]}
         /\ monitor' = [monitor EXCEPT ![e][n] =
              [m EXCEPT !.cur_seqnum = @ + 1,
                        !.prev = cur,
                        !.need_enforcement = FALSE]]
         /\ history' = [history EXCEPT ![e][n] = Append(@, cur)]
    BY Zenon DEF SendSyncset
  <1>2. PICK form \in Forms(cur, m.prev) :
         /\ network' = network \cup
              {[from |-> e, to |-> n, seqnum |-> m.cur_seqnum,
                enforce |-> m.need_enforcement, form |-> form]}
         /\ monitor' = [monitor EXCEPT ![e][n] =
              [m EXCEPT !.cur_seqnum = @ + 1,
                        !.prev = cur,
                        !.need_enforcement = FALSE]]
         /\ history' = [history EXCEPT ![e][n] = Append(@, cur)]
    BY <1>1
  <1> DEFINE mm == [m EXCEPT !.cur_seqnum = @ + 1,
                             !.prev = cur,
                             !.need_enforcement = FALSE]
             s == [from |-> e, to |-> n, seqnum |-> m.cur_seqnum,
                   enforce |-> m.need_enforcement, form |-> form]
             hh == Append(h, cur)
  <1>3. view' = view /\ removed' = removed /\ lost' = lost
    BY DEF SendSyncset
  <1>4. m \in MonitorType /\ h \in HistoryType /\ cur \in Victims
    BY ContentsAssumption DEF Inv, TypeOK, Victims
  <1>5. /\ mm \in MonitorType
        /\ mm.cur_seqnum = m.cur_seqnum + 1 /\ mm.prev = cur
        /\ mm.need_enforcement = FALSE
        /\ mm.is_first = m.is_first /\ mm.tracked_seqnum = m.tracked_seqnum
        /\ mm.cached = m.cached /\ mm.wait = m.wait
        /\ mm.enforcement_seqnum = m.enforcement_seqnum
    <2> HIDE DEF m
    <2>1. m.cur_seqnum + 1 \in Nat
      BY <1>4 DEF MonitorType
    <2>2. mm \in MonitorType
      BY <1>4, <2>1, Zenon DEF MonitorType
    <2> QED
      BY <1>4, <2>2 DEF MonitorType
  <1>6. /\ hh \in HistoryType /\ Len(hh) = Len(h) + 1 /\ Len(h) \in Nat
        /\ hh[Len(h) + 1] = cur
        /\ \A i \in 1 .. Len(h) : hh[i] = h[i]
    BY <1>4 DEF HistoryType
  <1>7. SentOK(monitor[n][e], m, h)
    BY <1>0, Zenon DEF Inv
  <1>8. s \in SyncsetType /\ s.from # s.to
    <2>1. form \in FormType
      BY <1>4 DEF FormType, MonitorType
    <2> QED
      BY <2>1, <1>0, <1>4 DEF SyncsetType, MonitorType
  <1>9. Faithful(s, hh) /\ (m.prev = NULL => form.complete)
    <2>1. m.prev # NULL => Len(h) # 0 /\ m.prev = h[Len(h)]
      BY <1>7 DEF SentOK
    <2>2. s.seqnum = Len(h) /\ s.form = form
      BY <1>7 DEF SentOK
    <2>3. m.prev \in Victims \cup {NULL}
      BY <1>4 DEF MonitorType
    <2> HIDE DEF s, m, h
    <2>4. Faithful(s, Append(h, cur)) /\ (m.prev = NULL => form.complete)
      BY <1>4, <2>1, <2>2, <2>3, <1>2, SentIsFaithful
    <2> QED
      BY <2>4
  <1>10. /\ PerPair(monitor')
         /\ \A a \in Edges : \A b \in Neighbors(a) :
              monitor'[a][b] = IF a = e /\ b = n THEN mm ELSE monitor[a][b]
    <2> HIDE DEF mm
    <2>1. PerPair(monitor)
      BY DEF Inv, TypeOK
    <2>2. Assigned(monitor', monitor, e, n, mm)
      BY <1>2 DEF Assigned, mm
    <2> QED
      BY <2>1, <2>2, PairUpdate
  <1>11. /\ PerPair(history')
         /\ \A a \in Edges : \A b \in Neighbors(a) :
              history'[a][b] = IF a = e /\ b = n THEN hh ELSE history[a][b]
    <2> HIDE DEF hh
    <2>1. PerPair(history)
      BY DEF Inv, TypeOK
    <2>2. Assigned(history', history, e, n, hh)
      BY <1>2 DEF Assigned, hh
    <2> QED
      BY <2>1, <2>2, PairUpdate, SMTT(30)
  <1>12. network' = network \cup {s}
    BY <1>2, Zenon
  <1> HIDE DEF m, h, mm, s, hh
  <1>13. TypeOK'
    <2>1. TypeOK
      BY Zenon DEF Inv
    <2>2. \A a \in Edges : \A b \in Neighbors(a) :
            monitor'[a][b] \in MonitorType /\ history'[a][b] \in HistoryType
      BY <1>5, <1>6, <1>10, <1>11, <2>1 DEF TypeOK
    <2>3. network' \in SUBSET {x \in SyncsetType : x.from # x.to}
      BY <1>8, <1>12, <2>1 DEF TypeOK
    <2> QED
      BY <1>3, <1>10, <1>11, <2>1, <2>2, <2>3, Zenon DEF TypeOK
  <1>14. /\ monitor'[n][e] = monitor[n][e] /\ monitor'[e][n] = mm
         /\ history'[n][e] = history[n][e] /\ history'[e][n] = hh
         /\ history[e][n] = h /\ monitor[e][n] = m
    BY <1>0, <1>10, <1>11, Zenon DEF m, h
  <1>15. monitor[n][e] \in MonitorType
    BY <1>0, Zenon DEF Inv, TypeOK
  <1>16. /\ SentOK(monitor[n][e], mm, hh)
         /\ CacheOK(monitor[n][e], hh)
         /\ ViewOK(monitor[n][e], hh, view[n][e], removed[n][e])
         /\ lost' = 0 /\ monitor[n][e].wait => Answered(n, e)'
    <2>1. /\ CacheOK(monitor[n][e], h)
          /\ ViewOK(monitor[n][e], h, view[n][e], removed[n][e])
          /\ lost = 0 /\ monitor[n][e].wait => Answered(n, e)
      BY <1>0, <1>14, Zenon DEF Inv
    <2>2. SentOK(monitor[n][e], mm, hh)
      BY <1>4, <1>5, <1>6, <1>7, <1>15, SMTT(30) DEF SentOK, Ahead, MonitorType
    <2>3. CacheOK(monitor[n][e], hh)
      <3>1. \A x \in monitor[n][e].cached : Faithful(x, h) => Faithful(x, hh)
        BY <1>4, <1>15, FaithfulAppend, Zenon DEF MonitorType, CachedType, hh
      <3> QED
        <4>1. monitor[n][e].enforcement_seqnum \in Nat
          BY <1>15, Zenon DEF MonitorType
        <4>2. \A i \in Nat : i < Len(h) => i < Len(hh)
          BY <1>6
        <4> QED
          BY <2>1, <3>1, <4>1, <4>2, Zenon DEF CacheOK
    <2>4. ViewOK(monitor[n][e], hh, view[n][e], removed[n][e])
      <3>1. ~monitor[n][e].is_first =>
              hh[monitor[n][e].tracked_seqnum + 1]
                = h[monitor[n][e].tracked_seqnum + 1]
        BY <1>6, <1>7, <1>15, SMTT(30) DEF SentOK, MonitorType
      <3> QED
        BY <2>1, <3>1 DEF ViewOK
    <2>5. ASSUME lost' = 0, monitor[n][e].wait
          PROVE  Answered(n, e)'
      <3>1. Answered(n, e)
        BY <2>1, <2>5, <1>3, Zenon
      <3>2. CASE m.prev = NULL
        <4>1. s \in network' /\ s.from = e /\ s.to = n /\ s.form.complete
          BY <1>9, <1>12, <3>2, Zenon DEF s
        <4>2. s.seqnum > monitor[n][e].enforcement_seqnum
          BY <2>1, <2>5, <1>7, <1>15, <1>6, ZenonT(30) DEF CacheOK, SentOK, s, MonitorType
        <4> QED
          BY <4>1, <4>2, <1>14, Zenon DEF Answered
      <3>3. CASE m.prev # NULL
        BY <3>1, <3>3, <1>14, <1>12 DEF Answered
      <3> QED
        BY <3>2, <3>3
    <2> QED
      BY <2>2, <2>3, <2>4, <2>5, Zenon
  <1>17. /\ SentOK(mm, monitor[n][e], history[n][e])
         /\ CacheOK(mm, history[n][e])
         /\ ViewOK(mm, history[n][e], view[e][n], removed[e][n])
         /\ lost' = 0 /\ mm.wait => Answered(e, n)'
    <2>1. /\ SentOK(m, monitor[n][e], history[n][e])
          /\ CacheOK(m, history[n][e])
          /\ ViewOK(m, history[n][e], view[e][n], removed[e][n])
          /\ lost = 0 /\ m.wait => Answered(e, n)
      BY <1>0, <1>14, Zenon DEF Inv
    <2>2. ASSUME lost' = 0, mm.wait
          PROVE  Answered(e, n)'
      <3>1. Answered(e, n)
        BY <2>1, <2>2, <1>3, <1>5, Zenon
      <3>2. CASE m.need_enforcement
        <4>1. s \in network' /\ s.from = e /\ s.to = n /\ s.enforce
          BY <1>12, <3>2, Zenon DEF s
        <4> QED
          BY <4>1 DEF Answered
      <3>3. CASE ~m.need_enforcement
        BY <3>1, <3>3, <1>14, <1>12, <1>5, Zenon DEF Answered
      <3> QED
        BY <3>2, <3>3, Zenon
    <2> QED
      BY <2>1, <2>2, <1>5, ZenonT(30) DEF SentOK, CacheOK, ViewOK, Ahead
  <1>18. ASSUME NEW a \in Edges, NEW b \in Neighbors(a)
         PROVE  /\ SentOK(monitor'[a][b], monitor'[b][a], history'[b][a])
                /\ CacheOK(monitor'[a][b], history'[b][a])
                /\ ViewOK(monitor'[a][b], history'[b][a], view'[a][b],
                          removed'[a][b])
                /\ lost' = 0 /\ monitor'[a][b].wait => Answered(a, b)'
    <2>1. CASE a = n /\ b = e
      BY <2>1, <1>3, <1>14, <1>16, Zenon
    <2>2. CASE a = e /\ b = n
      BY <2>2, <1>3, <1>14, <1>17, Zenon
    <2>3. CASE ~(a = n /\ b = e) /\ ~(a = e /\ b = n)
      <3>1. b \in Edges /\ a \in Neighbors(b)
        BY DEF Neighbors
      <3>2. /\ monitor'[a][b] = monitor[a][b] /\ monitor'[b][a] = monitor[b][a]
            /\ history'[b][a] = history[b][a]
        BY <2>3, <3>1, <1>10, <1>11
      <3>3. Answered(a, b) => Answered(a, b)'
        BY <3>2, <1>12 DEF Answered
      <3> QED
        BY <3>2, <3>3, <1>3 DEF Inv
    <2> QED
      BY <2>1, <2>2, <2>3
  <1>19. ASSUME NEW x \in network'
         PROVE  FlightOK(monitor'[x.to][x.from], history'[x.from][x.to], x)
    <2>1. CASE x = s
      <3>1. x.to = n /\ x.from = e /\ x.seqnum = m.cur_seqnum
        BY <2>1 DEF s
      <3> QED
        BY <3>1, <2>1, <1>9, <1>14, <1>7, <1>6, SMTT(30) DEF FlightOK, SentOK
    <2>2. CASE x # s
      <3>1. /\ x \in network /\ x \in SyncsetType
            /\ x.to \in Edges /\ x.from \in Neighbors(x.to)
            /\ x.from \in Edges /\ x.to \in Neighbors(x.from)
            /\ FlightOK(monitor[x.to][x.from], history[x.from][x.to], x)
        BY <2>2, <1>12, Zenon DEF Inv, TypeOK, SyncsetType, Neighbors
      <3>2. CASE x.to = n /\ x.from = e
        <4>1. Faithful(x, h) => Faithful(x, hh)
          BY <1>4, <3>1, FaithfulAppend, Zenon DEF SyncsetType, hh
        <4> QED
          BY <4>1, <3>1, <3>2, <1>6, <1>14, SMTT(30) DEF FlightOK, SyncsetType
      <3>3. CASE x.to = e /\ x.from = n
        BY <3>1, <3>3, <1>5, <1>14, Zenon DEF FlightOK, Ahead
      <3>4. CASE ~(x.to = n /\ x.from = e) /\ ~(x.to = e /\ x.from = n)
        BY <3>1, <3>4, <1>10, <1>11, ZenonT(30)
      <3> QED
        BY <3>2, <3>3, <3>4, Zenon
    <2> QED
      BY <2>1, <2>2
  <1> QED
    BY <1>13, <1>18, <1>19 DEF Inv

\* A placement that removes a victim of a neighbor.
LEMMA RemoveKeeps ==
  ASSUME Inv, NEW e \in Edges, NEW n \in Neighbors(e), NEW k \in Keys,
         RemoveVictim(e, n, k)
  PROVE  Inv'
  <1> DEFINE v == [view[e][n] EXCEPT ![k] = Absent]
             rm == removed[e][n] \cup {k}
  <1>1. UNCHANGED <<monitor, network, history, lost>>
    BY Zenon DEF RemoveVictim
  <1>2. view[e][n] \in Victims /\ removed[e][n] \in SUBSET Keys
    BY Zenon DEF Inv, TypeOK
  <1>3. v \in Victims /\ \A i \in Keys : v[i] = IF i = k THEN Absent ELSE view[e][n][i]
    BY <1>2 DEF Victims
  <1>4. /\ PerPair(view')
        /\ \A a \in Edges : \A b \in Neighbors(a) :
             view'[a][b] = IF a = e /\ b = n THEN v ELSE view[a][b]
    <2>1. PerPair(view)
      BY DEF Inv, TypeOK
    <2>2. Assigned(view', view, e, n, v)
      <3>1. view' = [view EXCEPT ![e][n][k] = Absent]
        BY Zenon DEF RemoveVictim
      <3> QED
        BY <3>1 DEF Assigned
    <2> HIDE DEF v
    <2> QED
      BY <2>1, <2>2, PairUpdate, SMTT(30)
  <1>5. /\ PerPair(removed')
        /\ \A a \in Edges : \A b \in Neighbors(a) :
             removed'[a][b] = IF a = e /\ b = n THEN rm ELSE removed[a][b]
    <2>1. PerPair(removed)
      BY Zenon DEF Inv, TypeOK
    <2>2. Assigned(removed', removed, e, n, rm)
      BY Zenon DEF RemoveVictim, Assigned
    <2> HIDE DEF rm
    <2> QED
      BY <2>1, <2>2, PairUpdate
  <1>6. TypeOK'
    <2>1. TypeOK
      BY Zenon DEF Inv
    <2>2. v \in Victims /\ rm \in SUBSET Keys
      BY <1>2, <1>3
    <2> HIDE DEF v, rm
    <2>3. \A a \in Edges : \A b \in Neighbors(a) :
            view'[a][b] \in Victims /\ removed'[a][b] \in SUBSET Keys
      BY <1>4, <1>5, <2>1, <2>2 DEF TypeOK
    <2> QED
      BY <1>1, <1>4, <1>5, <2>1, <2>3, Zenon DEF TypeOK
  <1>7. ViewOK(monitor[e][n], history[n][e], v, rm)
    <2>1. ViewOK(monitor[e][n], history[n][e], view[e][n], removed[e][n])
      BY Zenon DEF Inv
    <2>2. ~monitor[e][n].is_first
      <3>1. view[e][n][k] # Absent
        BY Zenon DEF RemoveVictim
      <3> QED
        BY <2>1, <3>1 DEF ViewOK, NoVictims
    <2>3. \A i : i \in rm <=> i \in removed[e][n] \/ i = k
      OBVIOUS
    <2> DEFINE sent == history[n][e][monitor[e][n].tracked_seqnum + 1]
    <2>4. Agrees(view[e][n], sent, removed[e][n])
      BY <2>1, <2>2, Zenon DEF ViewOK
    <2> HIDE DEF v, rm, sent
    <2>5. Agrees(v, sent, rm)
      BY <2>3, <2>4, <1>3, Zenon DEF Agrees
    <2>6. \A i \in rm : v[i] = Absent
      BY <2>1, <2>3, <1>2, <1>3, Zenon DEF ViewOK
    <2> QED
      BY <2>2, <2>5, <2>6, Zenon DEF ViewOK, sent
  <1>8. ASSUME NEW a \in Edges, NEW b \in Neighbors(a)
        PROVE  /\ SentOK(monitor'[a][b], monitor'[b][a], history'[b][a])
               /\ CacheOK(monitor'[a][b], history'[b][a])
               /\ ViewOK(monitor'[a][b], history'[b][a], view'[a][b],
                         removed'[a][b])
               /\ lost' = 0 /\ monitor'[a][b].wait => Answered(a, b)'
    <2> HIDE DEF v, rm
    <2>1. Answered(a, b)' <=> Answered(a, b)
      BY <1>1 DEF Answered
    <2>2. ViewOK(monitor'[a][b], history'[b][a], view'[a][b], removed'[a][b])
      <3>1. CASE a = e /\ b = n
        BY <3>1, <1>1, <1>4, <1>5, <1>7, Zenon
      <3>2. CASE ~(a = e /\ b = n)
        BY <3>2, <1>1, <1>4, <1>5, Zenon DEF Inv
      <3> QED
        BY <3>1, <3>2
    <2> QED
      BY <2>1, <2>2, <1>1, Zenon DEF Inv
  <1>9. \A x \in network' :
          FlightOK(monitor'[x.to][x.from], history'[x.from][x.to], x)
    BY <1>1 DEF Inv
  <1> QED
    BY <1>6, <1>8, <1>9 DEF Inv

\* A syncset that is lost; from then on nothing is claimed about answers.
LEMMA LoseKeeps ==
  ASSUME Inv, NEW s, LoseSyncset(s)
  PROVE  Inv'
  <1>1. /\ UNCHANGED <<monitor, view, history, removed>>
        /\ network' \subseteq network /\ lost' = lost + 1
    BY DEF LoseSyncset
  <1>2. lost' \in Nat /\ lost' # 0
    BY <1>1, SMTT(30) DEF Inv, TypeOK
  <1>3. TypeOK'
    BY <1>1, <1>2 DEF Inv, TypeOK
  <1> QED
    BY <1>1, <1>2, <1>3, Zenon DEF Inv

-----------------------------------------------------------------------------
(* The receipt of a syncset keeps the invariant *)

\* s goes from n to e.
Goes(s, e, n) == e = s.to /\ n = s.from

\* What the receipt of s may do to its pair of edges: mm, v and rm are the new
\* monitor, view and removed victims of the receiver e, h the new history of
\* the sender n.
ReceiptOK(s, e, n, mm, v, rm, h) ==
  /\ s \in network /\ Goes(s, e, n)
  /\ mm \in MonitorType /\ v \in Victims /\ rm \in SUBSET Keys /\ h \in HistoryType
  /\ Assigned(monitor', monitor, e, n, mm)
  /\ Assigned(view', view, e, n, v)
  /\ Assigned(removed', removed, e, n, rm)
  /\ Assigned(history', history, n, e, h)
  /\ network' = network \ {s} /\ lost' = lost
  /\ mm.cur_seqnum = monitor[e][n].cur_seqnum
  /\ s.enforce => mm.prev = NULL
  /\ ~s.enforce => mm.prev = monitor[e][n].prev
  /\ SentOK(mm, monitor[n][e], h)
  /\ CacheOK(mm, h)
  /\ ViewOK(mm, h, v, rm)
  /\ lost = 0 /\ mm.wait => Answered(e, n)'
  /\ \A x \in network : x.from = n /\ x.to = e => FlightOK(mm, h, x)

\* Why the rest of the invariant follows: the receiver notes that it is asked
\* for a complete syncset even if it ignores the one it received.
LEMMA ReceiptKeeps ==
  ASSUME Inv, NEW s, NEW e, NEW n, NEW mm, NEW v, NEW rm, NEW h,
         ReceiptOK(s, e, n, mm, v, rm, h)
  PROVE  Inv'
  <1>0. /\ s \in network /\ Goes(s, e, n)
        /\ mm \in MonitorType /\ v \in Victims
        /\ rm \in SUBSET Keys /\ h \in HistoryType
        /\ network' = network \ {s} /\ lost' = lost
    BY Zenon DEF ReceiptOK
  <1>a. /\ Assigned(monitor', monitor, e, n, mm) /\ Assigned(view', view, e, n, v)
        /\ Assigned(removed', removed, e, n, rm) /\ Assigned(history', history, n, e, h)
    BY Zenon DEF ReceiptOK
  <1>1. e \in Edges /\ n \in Edges /\ n # e /\ n \in Neighbors(e) /\ e \in Neighbors(n)
    BY <1>0, Zenon DEF Goes, Inv, TypeOK, SyncsetType, Neighbors
  <1>2. PerPair(monitor) /\ PerPair(view) /\ PerPair(history) /\ PerPair(removed)
    BY Zenon DEF Inv, TypeOK
  <1>3. /\ PerPair(monitor')
        /\ \A a \in Edges : \A b \in Neighbors(a) :
             monitor'[a][b] = IF a = e /\ b = n THEN mm ELSE monitor[a][b]
    BY <1>a, <1>1, <1>2, PairUpdate
  <1>4. /\ PerPair(view')
        /\ \A a \in Edges : \A b \in Neighbors(a) :
             view'[a][b] = IF a = e /\ b = n THEN v ELSE view[a][b]
    BY <1>a, <1>1, <1>2, PairUpdate
  <1>5. /\ PerPair(removed')
        /\ \A a \in Edges : \A b \in Neighbors(a) :
             removed'[a][b] = IF a = e /\ b = n THEN rm ELSE removed[a][b]
    BY <1>a, <1>1, <1>2, PairUpdate
  <1>6. /\ PerPair(history')
        /\ \A a \in Edges : \A b \in Neighbors(a) :
             history'[a][b] = IF a = n /\ b = e THEN h ELSE history[a][b]
    BY <1>a, <1>1, <1>2, PairUpdate
  <1>7. TypeOK'
    <2>1. TypeOK
      BY Zenon DEF Inv
    <2>2. \A a \in Edges : \A b \in Neighbors(a) :
            monitor'[a][b] \in MonitorType /\ view'[a][b] \in Victims
      BY <1>0, <1>3, <1>4, <2>1 DEF TypeOK
    <2>3. \A a \in Edges : \A b \in Neighbors(a) :
            history'[a][b] \in HistoryType /\ removed'[a][b] \in SUBSET Keys
      BY <1>0, <1>5, <1>6, <2>1 DEF TypeOK
    <2>4. network' \in SUBSET {x \in SyncsetType : x.from # x.to}
      BY <1>0, <2>1 DEF TypeOK
    <2> QED
      BY <1>0, <1>3, <1>4, <1>5, <1>6, <2>1, <2>2, <2>3, <2>4, Zenon DEF TypeOK
  <1>8. /\ monitor'[n][e] = monitor[n][e] /\ monitor'[e][n] = mm
        /\ history'[n][e] = h /\ history'[e][n] = history[e][n]
    BY <1>1, <1>3, <1>6, Zenon
  <1>9. /\ SentOK(monitor[n][e], mm, history[e][n])
        /\ lost' = 0 /\ monitor[n][e].wait => Answered(n, e)'
    <2>1. /\ SentOK(monitor[n][e], monitor[e][n], history[e][n])
          /\ lost = 0 /\ monitor[n][e].wait => Answered(n, e)
      BY <1>1, Zenon DEF Inv
    <2>2. SentOK(monitor[n][e], mm, history[e][n])
      BY <2>1, Zenon DEF SentOK, ReceiptOK
    <2>3. ASSUME lost' = 0, monitor[n][e].wait
          PROVE  Answered(n, e)'
      <3>1. Answered(n, e)
        BY <1>0, <2>1, <2>3, Zenon
      <3>2. CASE s.enforce
        BY <3>2, <1>8, Zenon DEF Answered, ReceiptOK
      <3>3. CASE ~s.enforce
        BY <3>1, <3>3, <1>8, <1>1, Zenon DEF Answered, ReceiptOK, Goes
      <3> QED
        BY <3>2, <3>3, Zenon
    <2> QED
      BY <2>2, <2>3, Zenon
  <1>10. ASSUME NEW a \in Edges, NEW b \in Neighbors(a)
         PROVE  /\ SentOK(monitor'[a][b], monitor'[b][a], history'[b][a])
                /\ CacheOK(monitor'[a][b], history'[b][a])
                /\ ViewOK(monitor'[a][b], history'[b][a], view'[a][b],
                          removed'[a][b])
                /\ lost' = 0 /\ monitor'[a][b].wait => Answered(a, b)'
    <2>1. CASE a = e /\ b = n
      BY <2>1, <1>1, <1>4, <1>5, <1>8, Zenon DEF ReceiptOK
    <2>2. CASE a = n /\ b = e
      <3>1. view'[n][e] = view[n][e] /\ removed'[n][e] = removed[n][e]
        BY <1>1, <1>4, <1>5, Zenon
      <3>2. /\ CacheOK(monitor[n][e], history[e][n])
            /\ ViewOK(monitor[n][e], history[e][n], view[n][e], removed[n][e])
        BY <1>1, Zenon DEF Inv
      <3> QED
        BY <2>2, <3>1, <3>2, <1>8, <1>9, Zenon
    <2>3. CASE ~(a = n /\ b = e) /\ ~(a = e /\ b = n)
      <3>1. b \in Edges /\ a \in Neighbors(b)
        BY Zenon DEF Neighbors
      <3>2. /\ monitor'[a][b] = monitor[a][b] /\ monitor'[b][a] = monitor[b][a]
            /\ history'[b][a] = history[b][a]
            /\ view'[a][b] = view[a][b] /\ removed'[a][b] = removed[a][b]
        BY <2>3, <3>1, <1>3, <1>4, <1>5, <1>6
      <3>3. Answered(a, b) => Answered(a, b)'
        BY <1>0, <2>3, <3>2, Zenon DEF Answered, Goes
      <3> QED
        BY <1>0, <3>2, <3>3, Zenon DEF Inv
    <2> QED
      BY <2>1, <2>2, <2>3, Zenon
  <1>11. ASSUME NEW x \in network'
         PROVE  FlightOK(monitor'[x.to][x.from], history'[x.from][x.to], x)
    <2>1. /\ x \in network
          /\ x.to \in Edges /\ x.from \in Neighbors(x.to)
          /\ x.from \in Edges /\ x.to \in Neighbors(x.from)
          /\ FlightOK(monitor[x.to][x.from], history[x.from][x.to], x)
      BY <1>0, Zenon DEF Inv, TypeOK, SyncsetType, Neighbors
    <2>2. CASE x.to = e /\ x.from = n
      BY <2>1, <2>2, <1>8, Zenon DEF ReceiptOK
    <2>3. CASE ~(x.to = e /\ x.from = n)
      BY <2>1, <2>3, <1>3, <1>6, Zenon
    <2> QED
      BY <2>2, <2>3
  <1> QED
    BY <1>7, <1>10, <1>11, Zenon DEF Inv

\* The monitor m of n at e, once what s asks for is noted.
Enforced(s, e, n, m) == m = EnforceComplete(monitor[e][n], s.enforce)

\* A received syncset that is not the awaited answer leaves the answer under
\* way.
LEMMA AnswerStays ==
  ASSUME Inv, NEW s \in network, NEW e, NEW n, Goes(s, e, n),
         NEW mm, monitor'[e][n] = mm, monitor'[n][e] = monitor[n][e],
         mm.need_enforcement = monitor[e][n].need_enforcement,
         mm.enforcement_seqnum = monitor[e][n].enforcement_seqnum,
         network' = network \ {s},
         ~(s.form.complete /\ s.seqnum > mm.enforcement_seqnum),
         Answered(e, n)
  PROVE  Answered(e, n)'
  <1>1. n # e
    BY Zenon DEF Inv, TypeOK, Goes
  <1> QED
    BY <1>1, Zenon DEF Answered, Goes

\* The fields of a monitor.
LEMMA MonitorFields ==
  ASSUME NEW m \in MonitorType
  PROVE  /\ m.cur_seqnum \in Nat /\ m.prev \in Victims \cup {NULL}
         /\ m.is_first \in BOOLEAN /\ m.tracked_seqnum \in Nat
         /\ m.cached \in SUBSET CachedType
         /\ m.enforcement_seqnum \in Nat
         /\ m.wait \in BOOLEAN /\ m.need_enforcement \in BOOLEAN
  BY DEF MonitorType

\* Noting an enforcement only forgets the previous syncset.
LEMMA EnforceFields ==
  ASSUME NEW m0 \in MonitorType, NEW enforce \in BOOLEAN
  PROVE  LET m == EnforceComplete(m0, enforce)
         IN /\ m \in MonitorType
            /\ enforce => m.prev = NULL
            /\ ~enforce => m.prev = m0.prev
            /\ m.cur_seqnum = m0.cur_seqnum
            /\ m.is_first = m0.is_first /\ m.tracked_seqnum = m0.tracked_seqnum
            /\ m.cached = m0.cached
            /\ m.enforcement_seqnum = m0.enforcement_seqnum
            /\ m.wait = m0.wait /\ m.need_enforcement = m0.need_enforcement
  <1>1. CASE enforce
    <2>1. EnforceComplete(m0, enforce) = [m0 EXCEPT !.prev = NULL]
      BY <1>1 DEF EnforceComplete
    <2>2. [m0 EXCEPT !.prev = NULL] \in MonitorType
      BY DEF MonitorType
    <2> QED
      BY <1>1, <2>1, <2>2, Zenon DEF MonitorType
  <1>2. CASE ~enforce
    BY <1>2 DEF EnforceComplete
  <1> QED
    BY <1>1, <1>2

\* Everything the invariant says of a syncset in flight from n to e.
Receivable(s, e, n) ==
  /\ e \in Edges /\ n \in Edges /\ n # e
  /\ n \in Neighbors(e) /\ e \in Neighbors(n)
  /\ PerPair(monitor) /\ PerPair(view) /\ PerPair(history) /\ PerPair(removed)
  /\ monitor[e][n] \in MonitorType /\ monitor[n][e] \in MonitorType
  /\ view[e][n] \in Victims /\ removed[e][n] \in SUBSET Keys
  /\ history[n][e] \in HistoryType
  /\ s.seqnum \in Nat /\ s.form \in FormType /\ s.enforce \in BOOLEAN
  /\ SentOK(monitor[e][n], monitor[n][e], history[n][e])
  /\ CacheOK(monitor[e][n], history[n][e])
  /\ ViewOK(monitor[e][n], history[n][e], view[e][n], removed[e][n])
  /\ lost = 0 /\ monitor[e][n].wait => Answered(e, n)
  /\ \A x \in network : x.from = n /\ x.to = e =>
       x.seqnum \in Nat /\ FlightOK(monitor[e][n], history[n][e], x)

\* A syncset in flight goes from an edge to a neighbor.
LEMMA ReceivedFacts ==
  ASSUME Inv, NEW s \in network, NEW e, NEW n, Goes(s, e, n)
  PROVE  Receivable(s, e, n)
  <1>1. s \in SyncsetType /\ n # e
    BY Zenon DEF Inv, TypeOK, Goes
  <1>2. /\ e \in Edges /\ n \in Edges
        /\ n \in Neighbors(e) /\ e \in Neighbors(n)
    BY <1>1 DEF Goes, SyncsetType, Neighbors
  <1>3. \A x \in network : x.from = n /\ x.to = e =>
              x.seqnum \in Nat /\ FlightOK(monitor[e][n], history[n][e], x)
    BY Zenon DEF Inv, TypeOK, SyncsetType
  <1> QED
    BY <1>1, <1>2, <1>3, Zenon DEF Receivable, Inv, TypeOK, SyncsetType

\* An outdated syncset changes nothing but what its sender asks for.
LEMMA OutdatedKeeps ==
  ASSUME Inv, NEW s \in network, NEW e, NEW n, Goes(s, e, n),
         NEW m, Enforced(s, e, n, m),
         IsOutdated(m, s),
         Assigned(monitor', monitor, e, n, m),
         UNCHANGED <<view, removed, history, lost>>,
         network' = network \ {s}
  PROVE  Inv'
  <1> DEFINE h == history[n][e]
  <1>0. Receivable(s, e, n)
    BY ReceivedFacts
  <1>p. /\ e \in Edges /\ n \in Edges /\ n # e
        /\ n \in Neighbors(e) /\ e \in Neighbors(n)
        /\ PerPair(monitor) /\ PerPair(view) /\ PerPair(history) /\ PerPair(removed)
    BY <1>0, Zenon DEF Receivable
  <1>1. /\ m \in MonitorType
        /\ s.enforce => m.prev = NULL
        /\ ~s.enforce => m.prev = monitor[e][n].prev
        /\ m.cur_seqnum = monitor[e][n].cur_seqnum
        /\ m.is_first = monitor[e][n].is_first
        /\ m.tracked_seqnum = monitor[e][n].tracked_seqnum
        /\ m.cached = monitor[e][n].cached
        /\ m.enforcement_seqnum = monitor[e][n].enforcement_seqnum
        /\ m.wait = monitor[e][n].wait
        /\ m.need_enforcement = monitor[e][n].need_enforcement
    <2>1. monitor[e][n] \in MonitorType /\ s.enforce \in BOOLEAN
      BY <1>0, Zenon DEF Receivable
    <2> QED
      BY <2>1, EnforceFields, Zenon DEF Enforced
  <1>2. /\ SentOK(m, monitor[n][e], h) /\ CacheOK(m, h)
        /\ ViewOK(m, h, view[e][n], removed[e][n])
    BY <1>0, <1>1, Zenon DEF Receivable, SentOK, CacheOK, ViewOK, Ahead
  <1>3. \A x \in network : x.from = n /\ x.to = e => FlightOK(m, h, x)
    BY <1>0, <1>1, Zenon DEF Receivable, FlightOK, Ahead
  <1>4. monitor'[e][n] = m /\ monitor'[n][e] = monitor[n][e]
    BY <1>p, PairBoth
  <1>5. ASSUME lost = 0, m.wait
        PROVE  Answered(e, n)'
    <2>1. ~(s.seqnum > m.enforcement_seqnum)
      <3>1. m.tracked_seqnum <= m.enforcement_seqnum
        BY <1>2, <1>5, Zenon DEF CacheOK
      <3>2. s.seqnum \in Nat
        BY <1>0, Zenon DEF Receivable
      <3> QED
        <4>1. s.seqnum <= m.tracked_seqnum
          BY Zenon DEF IsOutdated
        <4>2. m.tracked_seqnum \in Nat /\ m.enforcement_seqnum \in Nat
          BY <1>1, MonitorFields, Zenon
        <4> QED
          BY <3>1, <3>2, <4>1, <4>2, NotAbove, Zenon
    <2>2. Answered(e, n)
      BY <1>1, <1>5, <1>0, Zenon DEF Receivable
    <2> QED
      BY <2>1, <2>2, <1>1, <1>4, AnswerStays, Zenon
  <1>6. /\ Assigned(view', view, e, n, view[e][n])
        /\ Assigned(removed', removed, e, n, removed[e][n])
        /\ Assigned(history', history, n, e, h)
    <2>1. view = [view EXCEPT ![e][n] = view[e][n]]
      BY <1>p, PairSame, Zenon
    <2>2. removed = [removed EXCEPT ![e][n] = removed[e][n]]
      BY <1>p, PairSame, Zenon
    <2>3. history = [history EXCEPT ![n][e] = history[n][e]]
      BY <1>p, PairSame, Zenon
    <2> QED
      BY <2>1, <2>2, <2>3 DEF Assigned
  <1>7. /\ view[e][n] \in Victims /\ removed[e][n] \in SUBSET Keys
        /\ h \in HistoryType /\ lost' = lost
    BY <1>0, Zenon DEF Receivable
  <1> HIDE DEF h
  <1>8. ReceiptOK(s, e, n, m, view[e][n], removed[e][n], h)
    BY <1>1, <1>2, <1>3, <1>5, <1>6, <1>7, Zenon DEF ReceiptOK
  <1> QED
    BY <1>8, ReceiptKeeps

\* A syncset that cannot be applied yet is cached, or starts an enforcement.
LEMMA CachedKeeps ==
  ASSUME Inv, NEW s \in network, NEW e, NEW n, Goes(s, e, n),
         NEW m, Enforced(s, e, n, m),
         ~IsOutdated(m, s), ~IsApplicable(m, s),
         Assigned(monitor', monitor, e, n, TryToEnableEnforcement(m, s)),
         UNCHANGED <<view, removed, history, lost>>,
         network' = network \ {s}
  PROVE  Inv'
  <1> DEFINE h == history[n][e]
             mm == TryToEnableEnforcement(m, s)
  <1>0. Receivable(s, e, n)
    BY ReceivedFacts
  <1>p. /\ e \in Edges /\ n \in Edges /\ n # e
        /\ n \in Neighbors(e) /\ e \in Neighbors(n)
        /\ PerPair(monitor) /\ PerPair(view) /\ PerPair(history) /\ PerPair(removed)
    BY <1>0, Zenon DEF Receivable
  <1>1. /\ m \in MonitorType
        /\ s.enforce => m.prev = NULL
        /\ ~s.enforce => m.prev = monitor[e][n].prev
        /\ m.cur_seqnum = monitor[e][n].cur_seqnum
        /\ m.is_first = monitor[e][n].is_first
        /\ m.tracked_seqnum = monitor[e][n].tracked_seqnum
        /\ m.cached = monitor[e][n].cached
        /\ m.enforcement_seqnum = monitor[e][n].enforcement_seqnum
        /\ m.wait = monitor[e][n].wait
        /\ m.need_enforcement = monitor[e][n].need_enforcement
    <2>1. monitor[e][n] \in MonitorType /\ s.enforce \in BOOLEAN
      BY <1>0, Zenon DEF Receivable
    <2> QED
      BY <2>1, EnforceFields, Zenon DEF Enforced
  <1>12. /\ m.is_first \in BOOLEAN /\ m.tracked_seqnum \in Nat
         /\ m.cached \in SUBSET CachedType
    BY <1>1, MonitorFields, Zenon
  <1>2. /\ SentOK(m, monitor[n][e], h) /\ CacheOK(m, h)
        /\ ViewOK(m, h, view[e][n], removed[e][n])
    BY <1>0, <1>1, Zenon DEF Receivable, SentOK, CacheOK, ViewOK, Ahead
  <1>3. \A x \in network : x.from = n /\ x.to = e => FlightOK(m, h, x)
    BY <1>0, <1>1, Zenon DEF Receivable, FlightOK, Ahead
  <1>4. monitor'[e][n] = mm /\ monitor'[n][e] = monitor[n][e]
    <2> HIDE DEF mm
    <2>1. Assigned(monitor', monitor, e, n, mm)
      BY Zenon DEF mm
    <2> QED
      BY <1>p, <2>1, PairBoth
  <1>5. /\ ~s.form.complete /\ Ahead(m, s.seqnum)
        /\ s.seqnum \in Nat /\ s.form \in FormType
        /\ Faithful(s, h) /\ s.seqnum < Len(h)
        /\ Len(h) \in Nat
    <2>1. s.seqnum \in Nat /\ s.form \in FormType /\ h \in HistoryType
      BY <1>0, Zenon DEF Receivable
    <2>2. ~s.form.complete
      BY DEF IsApplicable
    <2>3. Ahead(m, s.seqnum)
      BY <2>1, <1>12 DEF IsOutdated, Ahead
    <2>4. FlightOK(m, h, s)
      BY <1>3, Zenon DEF Goes
    <2> QED
      BY <2>1, <2>2, <2>3, <2>4 DEF FlightOK, HistoryType
  <1>6. /\ Assigned(view', view, e, n, view[e][n])
        /\ Assigned(removed', removed, e, n, removed[e][n])
        /\ Assigned(history', history, n, e, h)
    <2>1. view = [view EXCEPT ![e][n] = view[e][n]]
      BY <1>p, PairSame, Zenon
    <2>2. removed = [removed EXCEPT ![e][n] = removed[e][n]]
      BY <1>p, PairSame, Zenon
    <2>3. history = [history EXCEPT ![n][e] = history[n][e]]
      BY <1>p, PairSame, Zenon
    <2> QED
      BY <2>1, <2>2, <2>3 DEF Assigned
  <1>7. /\ view[e][n] \in Victims /\ removed[e][n] \in SUBSET Keys
        /\ h \in HistoryType /\ lost' = lost
    BY <1>0, Zenon DEF Receivable
  <1> HIDE DEF h
  <1>8. /\ mm \in MonitorType /\ mm.prev = m.prev /\ mm.cur_seqnum = m.cur_seqnum
        /\ mm.is_first = m.is_first /\ mm.tracked_seqnum = m.tracked_seqnum
        /\ CacheOK(mm, h)
        /\ lost = 0 /\ mm.wait => Answered(e, n)'
    <2>0. ASSUME mm.need_enforcement = m.need_enforcement,
                 mm.enforcement_seqnum = m.enforcement_seqnum,
                 mm.wait = m.wait
          PROVE  lost = 0 /\ mm.wait => Answered(e, n)'
      <3> HIDE DEF mm
      <3>1. lost = 0 /\ mm.wait => Answered(e, n)
        BY <2>0, <1>0, <1>1, Zenon DEF Receivable
      <3>2. /\ mm.need_enforcement = monitor[e][n].need_enforcement
            /\ mm.enforcement_seqnum = monitor[e][n].enforcement_seqnum
            /\ ~(s.form.complete /\ s.seqnum > mm.enforcement_seqnum)
        BY <2>0, <1>1, <1>5, Zenon
      <3> QED
        BY <3>1, <3>2, <1>4, AnswerStays, Zenon
    <2>1. CASE Cardinality(m.cached) < MonitoredVictimsetcnt
      <3> DEFINE c == [seqnum |-> s.seqnum, form |-> s.form]
      <3>1. mm = [m EXCEPT !.cached = m.cached \cup {c}]
        BY <2>1 DEF TryToEnableEnforcement
      <3>2. c \in CachedType /\ c.seqnum = s.seqnum /\ c.form = s.form
        BY <1>5 DEF CachedType
      <3> HIDE DEF c, mm
      <3>3. /\ mm \in MonitorType /\ mm.cached = m.cached \cup {c}
            /\ mm.prev = m.prev /\ mm.cur_seqnum = m.cur_seqnum
            /\ mm.is_first = m.is_first /\ mm.tracked_seqnum = m.tracked_seqnum
            /\ mm.need_enforcement = m.need_enforcement
            /\ mm.enforcement_seqnum = m.enforcement_seqnum
            /\ mm.wait = m.wait
        <4>1. m.cached \cup {c} \in SUBSET CachedType
          BY <1>12, <3>2
        <4>2. mm \in MonitorType
          BY <1>1, <3>1, <4>1, Zenon DEF MonitorType
        <4> QED
          BY <1>1, <3>1, <4>2, Zenon DEF MonitorType
      <3>4. /\ IsFiniteSet(mm.cached)
            /\ Cardinality(mm.cached) <= MonitoredVictimsetcnt
        <4>1. IsFiniteSet(m.cached)
          BY <1>2, Zenon DEF CacheOK
        <4>2. Cardinality(m.cached) \in Nat
          BY <4>1, FS_CardinalityType, Zenon
        <4>3. /\ IsFiniteSet(m.cached \cup {c})
              /\ Cardinality(m.cached \cup {c}) =
                   IF c \in m.cached THEN Cardinality(m.cached)
                   ELSE Cardinality(m.cached) + 1
          BY <4>1, FS_AddElement
        <4>4. mm.cached = m.cached \cup {c}
          BY <3>3, Zenon
        <4>5. Cardinality(m.cached \cup {c}) <= Cardinality(m.cached) + 1
              /\ Cardinality(m.cached \cup {c}) \in Nat
          BY <4>2, <4>3
        <4>6. Cardinality(m.cached \cup {c}) <= MonitoredVictimsetcnt
          <5> DEFINE j == Cardinality(m.cached)
                     k == Cardinality(m.cached \cup {c})
          <5>1. j \in Nat /\ k \in Nat /\ k <= j + 1 /\ j < MonitoredVictimsetcnt
            BY <4>2, <4>5, <2>1, Zenon
          <5> HIDE DEF j, k
          <5>2. k <= MonitoredVictimsetcnt
            BY <5>1, MonitoredAssumption
          <5> QED
            BY <5>2 DEF k
        <4> QED
          BY <4>3, <4>4, <4>6, Zenon
      <3>5. Faithful(c, h)
        BY <1>5, <3>2, Zenon DEF Faithful
      <3>6. \A x \in mm.cached : /\ ~x.form.complete /\ Ahead(mm, x.seqnum)
                                 /\ Faithful(x, h)
        BY <1>2, <1>5, <3>2, <3>3, <3>5, Zenon DEF CacheOK, Ahead
      <3>7. CacheOK(mm, h)
        BY <1>2, <3>3, <3>4, <3>6, Zenon DEF CacheOK
      <3> QED
        BY <2>0, <3>3, <3>7, Zenon
    <2>2. CASE ~(Cardinality(m.cached) < MonitoredVictimsetcnt) /\ ~m.wait
      <3> DEFINE q == Max({s.seqnum} \cup CachedSeqnums(m))
      <3>1. mm = [m EXCEPT !.enforcement_seqnum = q, !.wait = TRUE,
                           !.need_enforcement = TRUE]
        BY <2>2 DEF TryToEnableEnforcement
      <3>2. q \in Nat /\ s.seqnum <= q /\ q < Len(h)
        <4>1. \A x \in m.cached : x.seqnum \in Nat /\ x.seqnum < Len(h)
          <5> SUFFICES ASSUME NEW x \in m.cached
                       PROVE  x.seqnum \in Nat /\ x.seqnum < Len(h)
            BY Zenon
          <5>1. x.seqnum \in Nat
            BY <1>12 DEF CachedType
          <5>2. x.seqnum + 1 \in 1 .. Len(h)
            BY <1>2, Zenon DEF CacheOK, Faithful
          <5> QED
            BY <5>1, <5>2, <1>5
        <4>2. \A i \in {s.seqnum} \cup CachedSeqnums(m) :
                i \in Nat /\ i <= Len(h) - 1
          BY <4>1, <1>5 DEF CachedSeqnums
        <4>3. Len(h) - 1 \in Nat
          BY <1>5
        <4>4. /\ q \in {s.seqnum} \cup CachedSeqnums(m)
              /\ \A y \in {s.seqnum} \cup CachedSeqnums(m) : y <= q
          BY <4>2, <4>3, MaxOfBounded, Zenon
        <4> HIDE DEF q
        <4> QED
          BY <4>2, <4>4, <1>5
      <3> HIDE DEF q, mm
      <3>3. /\ mm \in MonitorType /\ mm.cached = m.cached
            /\ mm.prev = m.prev /\ mm.cur_seqnum = m.cur_seqnum
            /\ mm.is_first = m.is_first /\ mm.tracked_seqnum = m.tracked_seqnum
            /\ mm.need_enforcement = TRUE
            /\ mm.enforcement_seqnum = q
            /\ mm.wait = TRUE
        BY <1>1, <3>1, <3>2, Zenon DEF MonitorType
      <3>4. m.tracked_seqnum <= q
        <4>1. m.is_first => m.tracked_seqnum = 0
          BY <1>2, Zenon DEF CacheOK
        <4>2. m.is_first \/ s.seqnum > m.tracked_seqnum
          BY <1>5, Zenon DEF Ahead
        <4> QED
          BY <4>1, <4>2, <1>5, <1>12, <3>2
      <3>5. CacheOK(mm, h)
        BY <1>2, <3>2, <3>3, <3>4, Zenon DEF CacheOK, Ahead
      <3>6. Answered(e, n)'
        BY <1>4, <3>3, Zenon DEF Answered
      <3> QED
        BY <3>3, <3>5, <3>6, Zenon
    <2>3. CASE ~(Cardinality(m.cached) < MonitoredVictimsetcnt) /\ m.wait
      <3>1. mm = m
        BY <2>3 DEF TryToEnableEnforcement
      <3> HIDE DEF mm
      <3> QED
        BY <2>0, <3>1, <1>1, <1>2, Zenon
    <2> QED
      BY <2>1, <2>2, <2>3, Zenon
  <1>9. Assigned(monitor', monitor, e, n, mm)
    OBVIOUS
  <1> HIDE DEF mm
  <1>10. /\ SentOK(mm, monitor[n][e], h)
         /\ ViewOK(mm, h, view[e][n], removed[e][n])
         /\ \A x \in network : x.from = n /\ x.to = e => FlightOK(mm, h, x)
    BY <1>2, <1>3, <1>8, Zenon DEF SentOK, ViewOK, FlightOK, Ahead
  <1>11. ReceiptOK(s, e, n, mm, view[e][n], removed[e][n], h)
    BY <1>1, <1>6, <1>7, <1>8, <1>9, <1>10, Zenon DEF ReceiptOK
  <1> QED
    BY <1>11, ReceiptKeeps, Zenon

\* After an applied syncset and the cached ones that follow it, the monitor
\* tracks the last of them and keeps what is ahead of it.
LEMMA ClearFields ==
  ASSUME NEW m \in MonitorType, NEW q, LastContinuous(m, q) \in Nat
  PROVE  LET mm == TryToClearEnforcement(m, q)
             last == LastContinuous(m, q)
             answered == m.wait /\ last > m.enforcement_seqnum
         IN /\ mm \in MonitorType
            /\ mm.prev = m.prev /\ mm.cur_seqnum = m.cur_seqnum
            /\ mm.is_first = FALSE /\ mm.tracked_seqnum = last
            /\ mm.cached = {x \in m.cached : x.seqnum > last}
            /\ mm.wait <=> m.wait /\ ~answered
            /\ ~answered => /\ mm.enforcement_seqnum = m.enforcement_seqnum
                            /\ mm.need_enforcement = m.need_enforcement
            /\ answered => mm.need_enforcement = FALSE
  <1> DEFINE last == LastContinuous(m, q)
             answered == m.wait /\ last > m.enforcement_seqnum
             c == {x \in m.cached : x.seqnum > last}
             mm == TryToClearEnforcement(m, q)
  <1>1. /\ m.enforcement_seqnum \in Nat /\ m.wait \in BOOLEAN
        /\ m.need_enforcement \in BOOLEAN /\ c \in SUBSET CachedType
    BY MonitorFields
  <1>2. CASE answered
    <2>1. mm = [m EXCEPT !.is_first = FALSE, !.tracked_seqnum = last, !.cached = c,
                         !.need_enforcement = FALSE, !.enforcement_seqnum = 0,
                         !.wait = FALSE]
      BY <1>1, <1>2, Zenon DEF TryToClearEnforcement
    <2> HIDE DEF mm, last, c
    <2>2. mm \in MonitorType
      BY <1>1, <2>1, Zenon DEF MonitorType, last
    <2>3. /\ mm.prev = m.prev /\ mm.cur_seqnum = m.cur_seqnum
          /\ mm.is_first = FALSE /\ mm.tracked_seqnum = last /\ mm.cached = c
          /\ mm.wait = FALSE /\ mm.need_enforcement = FALSE
      BY <2>1 DEF MonitorType
    <2> QED
      BY <1>2, <2>2, <2>3 DEF mm, last, c
  <1>3. CASE ~answered
    <2>1. mm = [m EXCEPT !.is_first = FALSE, !.tracked_seqnum = last, !.cached = c,
                         !.need_enforcement = m.need_enforcement,
                         !.enforcement_seqnum = m.enforcement_seqnum,
                         !.wait = m.wait]
      BY <1>1, <1>3, Zenon DEF TryToClearEnforcement
    <2> HIDE DEF mm, last, c
    <2>2. mm \in MonitorType
      BY <1>1, <2>1, Zenon DEF MonitorType, last
    <2>3. /\ mm.prev = m.prev /\ mm.cur_seqnum = m.cur_seqnum
          /\ mm.is_first = FALSE /\ mm.tracked_seqnum = last /\ mm.cached = c
          /\ mm.wait = m.wait /\ mm.need_enforcement = m.need_enforcement
          /\ mm.enforcement_seqnum = m.enforcement_seqnum
      BY <2>1 DEF MonitorType
    <2> QED
      BY <1>3, <2>2, <2>3 DEF mm, last, c
  <1> QED
    BY <1>2, <1>3, Zenon

\* What the edge tracks after it applied a syncset and the cached ones that
\* follow: the victims sent with the last of them.
LEMMA AppliedView ==
  ASSUME NEW m \in MonitorType, NEW h \in HistoryType, NEW v \in Victims, NEW rm,
         NEW ms, NEW s, s.seqnum \in Nat,
         SentOK(m, ms, h), CacheOK(m, h), ViewOK(m, h, v, rm), FlightOK(m, h, s),
         ~IsOutdated(m, s), IsApplicable(m, s)
  PROVE  LET last == LastContinuous(m, s.seqnum)
             new == ClearContinuous(m, s.seqnum, Recover(s.form, v))
         IN /\ Ahead(m, s.seqnum)
            /\ last \in Nat /\ s.seqnum <= last /\ last < Len(h)
            /\ h[last + 1] \in Victims /\ new \in Victims
            /\ Agrees(new, h[last + 1], rm)
  <1>2. /\ m.is_first \in BOOLEAN /\ m.tracked_seqnum \in Nat
        /\ m.cached \in SUBSET CachedType
    BY MonitorFields
  <1>5. Len(h) \in Nat
    BY DEF HistoryType
  <1> DEFINE q == s.seqnum
  <1>6. /\ Ahead(m, q) /\ q \in Nat /\ Faithful(s, h) /\ q < Len(h)
    <2>2. Ahead(m, q)
      BY <1>2 DEF IsOutdated, Ahead
    <2> QED
      BY <2>2 DEF FlightOK
  <1>7. /\ h[q + 1] \in Victims
        /\ Recover(s.form, v) \in Victims
        /\ Agrees(Recover(s.form, v), h[q + 1], rm)
    <2>1. h[q + 1] \in Victims
      BY <1>6, Zenon DEF Faithful
    <2>2. CASE s.form.complete
      <3>1. PICK p \in Victims \cup {NULL} : s.form \in Forms(h[q + 1], p)
        BY <1>6, <2>2 DEF Faithful
      <3>2. Recover(s.form, v) = h[q + 1]
        BY <2>1, <2>2, <3>1, RecoverComplete, Zenon
      <3> QED
        BY <2>1, <3>2, Zenon DEF Agrees
    <2>3. CASE ~s.form.complete
      <3>1. h[q] \in Victims /\ s.form \in Forms(h[q + 1], h[q])
        BY <1>6, <2>3 DEF Faithful
      <3>2. ~m.is_first /\ q = m.tracked_seqnum + 1
        BY <2>3 DEF IsApplicable
      <3>3. Agrees(v, h[q], rm)
        BY <3>2 DEF ViewOK
      <3> QED
        BY <2>1, <2>3, <3>1, <3>3, RecoverCompressed, Zenon
    <2> QED
      BY <2>2, <2>3, Zenon
  <1>8. \A x \in m.cached : /\ x.seqnum \in Nat /\ x.seqnum < Len(h)
                            /\ Faithful(x, h) /\ ~x.form.complete
    <2> TAKE x \in m.cached
    <2>1. x.seqnum \in Nat
      BY <1>2, Zenon DEF CachedType
    <2>2. Faithful(x, h) /\ ~x.form.complete
      BY Zenon DEF CacheOK
    <2>3. x.seqnum + 1 \in 1 .. Len(h)
      BY <2>2 DEF Faithful
    <2>4. x.seqnum < Len(h)
      BY <2>1, <2>3, <1>5
    <2> QED
      BY <2>1, <2>2, <2>4
  <1> DEFINE base == Recover(s.form, v)
  <1>9. base \in Victims /\ Agrees(base, h[q + 1], rm)
    BY <1>7
  <1> HIDE DEF q, base
  <1>10. LET last == LastContinuous(m, q)
             new == ClearContinuous(m, q, base)
         IN /\ last \in Nat /\ q <= last /\ last < Len(h)
            /\ h[last + 1] \in Victims /\ new \in Victims
            /\ Agrees(new, h[last + 1], rm)
    BY <1>5, <1>6, <1>7, <1>8, <1>9, ClearContinuousSent, Zenon
  <1> QED
    BY <1>6, <1>10, Zenon DEF q, base

\* The history without the syncsets before the tracked one.
Cut(h, t) == [i \in DOMAIN h |-> IF i > t THEN h[i] ELSE NULL]

\* A cut history has its length, and the entries after the cut.
LEMMA CutFields ==
  ASSUME NEW h \in HistoryType, NEW t \in Nat
  PROVE  /\ Cut(h, t) \in HistoryType /\ Len(Cut(h, t)) = Len(h)
         /\ \A i \in 1 .. Len(h) : i > t => Cut(h, t)[i] = h[i]
         /\ \A x : x.seqnum \in Nat /\ x.seqnum > t /\ Faithful(x, h) =>
              Faithful(x, Cut(h, t))
  <1> DEFINE c == [i \in DOMAIN h |-> IF i > t THEN h[i] ELSE NULL]
  <1>1. DOMAIN h = 1 .. Len(h) /\ Len(h) \in Nat
    BY DEF HistoryType
  <1>2. c \in HistoryType
    BY <1>1 DEF HistoryType
  <1>3. Len(c) = Len(h)
    BY <1>1, <1>2 DEF HistoryType
  <1>4. \A i \in 1 .. Len(h) : i > t => c[i] = h[i]
    BY <1>1
  <1>5. \A x : x.seqnum \in Nat /\ x.seqnum > t /\ Faithful(x, h) => Faithful(x, c)
    BY FaithfulCut, Zenon
  <1> QED
    BY <1>2, <1>3, <1>4, <1>5 DEF Cut

\* Tracking a later syncset keeps the facts about the pair, for the history cut
\* at that syncset.
LEMMA AppliedPair ==
  ASSUME NEW m \in MonitorType, NEW ms \in MonitorType, NEW mm \in MonitorType,
         NEW h \in HistoryType,
         NEW last \in Nat, last < Len(h), ~m.is_first => m.tracked_seqnum < last,
         SentOK(m, ms, h), CacheOK(m, h),
         mm.is_first = FALSE, mm.tracked_seqnum = last,
         mm.cached = {x \in m.cached : x.seqnum > last},
         mm.need_enforcement => mm.wait,
         mm.wait => /\ m.wait /\ last <= m.enforcement_seqnum
                    /\ mm.enforcement_seqnum = m.enforcement_seqnum
  PROVE  /\ SentOK(mm, ms, Cut(h, last)) /\ CacheOK(mm, Cut(h, last))
         /\ \A x : x.seqnum \in Nat /\ FlightOK(m, h, x) => FlightOK(mm, Cut(h, last), x)
  <1> DEFINE c == Cut(h, last)
  <1>1. /\ Len(c) = Len(h) /\ Len(h) \in Nat
        /\ \A i \in 1 .. Len(h) : i > last => c[i] = h[i]
        /\ \A x : x.seqnum \in Nat /\ x.seqnum > last /\ Faithful(x, h) => Faithful(x, c)
    BY CutFields DEF HistoryType
  <1> HIDE DEF c
  <1>2. /\ m.is_first \in BOOLEAN /\ m.tracked_seqnum \in Nat
        /\ m.cached \in SUBSET CachedType /\ m.enforcement_seqnum \in Nat
        /\ ms.cur_seqnum \in Nat
    BY MonitorFields
  <1>3. \A i \in Nat : Ahead(mm, i) => Ahead(m, i) /\ i > last
    BY <1>2, SMTT(30) DEF Ahead
  <1>4. SentOK(mm, ms, c)
    <2>1. Len(c) = ms.cur_seqnum
      BY <1>1, Zenon DEF SentOK
    <2>2. ASSUME ms.prev # NULL
          PROVE  ms.cur_seqnum # 0 /\ ms.prev = c[ms.cur_seqnum]
      <3>1. ms.cur_seqnum # 0 /\ ms.prev = h[ms.cur_seqnum] /\ ms.cur_seqnum = Len(h)
        BY <2>2, Zenon DEF SentOK
      <3>2. ms.cur_seqnum \in 1 .. Len(h) /\ ms.cur_seqnum > last
        BY <3>1, <1>1, <1>2, SMTT(30)
      <3> QED
        BY <3>1, <3>2, <1>1, Zenon
    <2>3. \A i \in 1 .. Len(c) : Ahead(mm, i) => c[i] \in Victims
      <3> SUFFICES ASSUME NEW i \in 1 .. Len(c), Ahead(mm, i)
                   PROVE  c[i] \in Victims
        BY Zenon
      <3>1. i \in Nat /\ i \in 1 .. Len(h)
        BY <1>1
      <3>2. Ahead(m, i) /\ i > last
        BY <3>1, <1>3, Zenon
      <3> QED
        BY <3>1, <3>2, <1>1 DEF SentOK
    <2> QED
      BY <2>1, <2>2, <2>3, <1>1, Zenon DEF SentOK
  <1>5. CacheOK(mm, c)
    <2>1. IsFiniteSet(mm.cached) /\ Cardinality(mm.cached) <= MonitoredVictimsetcnt
      <3>1. IsFiniteSet(m.cached) /\ Cardinality(m.cached) <= MonitoredVictimsetcnt
        BY Zenon DEF CacheOK
      <3>2. /\ IsFiniteSet(mm.cached)
            /\ Cardinality(mm.cached) <= Cardinality(m.cached)
        BY <3>1, FS_Subset, Zenon
      <3> QED
        BY <3>1, <3>2, FS_CardinalityType, MonitoredAssumption, SMTT(30)
    <2>2. \A x \in mm.cached : /\ ~x.form.complete /\ Ahead(mm, x.seqnum)
                               /\ Faithful(x, c)
      <3> TAKE x \in mm.cached
      <3>1. x \in m.cached /\ x.seqnum > last /\ x.seqnum \in Nat
        BY <1>2, SMTT(30) DEF CachedType
      <3> QED
        BY <3>1, <1>1 DEF CacheOK, Ahead
    <2>3. mm.wait => /\ mm.tracked_seqnum <= mm.enforcement_seqnum
                     /\ mm.enforcement_seqnum < Len(c)
      BY <1>1, Zenon DEF CacheOK
    <2> QED
      BY <2>1, <2>2, <2>3, Zenon DEF CacheOK
  <1>6. \A x : x.seqnum \in Nat /\ FlightOK(m, h, x) => FlightOK(mm, c, x)
    BY <1>1, <1>3, Zenon DEF FlightOK
  <1> QED
    BY <1>4, <1>5, <1>6, Zenon DEF c

\* What applying s assigns: mm, new and rm to the receiver's monitor, view and
\* removed victims, and the sender's history is cut.
Applied(s, e, n, m, mm, new, rm) ==
  /\ Enforced(s, e, n, m)
  /\ mm = TryToClearEnforcement(m, s.seqnum)
  /\ new = ClearContinuous(m, s.seqnum, Recover(s.form, view[e][n]))
  /\ rm = {k \in removed[e][n] : new[k] = Absent}
  /\ Assigned(monitor', monitor, e, n, mm)
  /\ Assigned(view', view, e, n, new)
  /\ Assigned(removed', removed, e, n, rm)
  /\ Assigned(history', history, n, e, Cut(history[n][e], mm.tracked_seqnum))
  /\ network' = network \ {s} /\ lost' = lost

\* A syncset that is applied, with the cached ones that follow it, keeps the
\* invariant; the edge tracks its first syncset or a later one than before.
LEMMA AppliedKeeps ==
  ASSUME Inv, NEW s \in network, NEW e, NEW n, Goes(s, e, n),
         NEW m, NEW mm, NEW new, NEW rm, Applied(s, e, n, m, mm, new, rm),
         ~IsOutdated(m, s), IsApplicable(m, s)
  PROVE  /\ Inv'
         /\ mm.is_first = FALSE /\ mm.tracked_seqnum \in Nat
         /\ monitor[e][n].is_first \/ mm.tracked_seqnum > monitor[e][n].tracked_seqnum
  <1>0. Receivable(s, e, n)
    BY ReceivedFacts
  <1>p. /\ e \in Edges /\ n \in Edges /\ n # e
        /\ n \in Neighbors(e) /\ e \in Neighbors(n)
        /\ PerPair(monitor) /\ PerPair(view) /\ PerPair(history) /\ PerPair(removed)
    BY <1>0, Zenon DEF Receivable
  <1>1. /\ m \in MonitorType
        /\ s.enforce => m.prev = NULL
        /\ ~s.enforce => m.prev = monitor[e][n].prev
        /\ m.cur_seqnum = monitor[e][n].cur_seqnum
        /\ m.is_first = monitor[e][n].is_first
        /\ m.tracked_seqnum = monitor[e][n].tracked_seqnum
        /\ m.cached = monitor[e][n].cached
        /\ m.enforcement_seqnum = monitor[e][n].enforcement_seqnum
        /\ m.wait = monitor[e][n].wait
        /\ m.need_enforcement = monitor[e][n].need_enforcement
    <2>1. monitor[e][n] \in MonitorType /\ s.enforce \in BOOLEAN
      BY <1>0, Zenon DEF Receivable
    <2>2. m = EnforceComplete(monitor[e][n], s.enforce)
      BY Zenon DEF Applied, Enforced
    <2> QED
      BY <2>1, <2>2, EnforceFields, Zenon
  <1>2. /\ m.is_first \in BOOLEAN /\ m.tracked_seqnum \in Nat
        /\ m.enforcement_seqnum \in Nat
        /\ m.wait \in BOOLEAN /\ m.need_enforcement \in BOOLEAN
    BY <1>1, MonitorFields, Zenon
  <1> DEFINE h == history[n][e]
             last == LastContinuous(m, s.seqnum)
             answered == m.wait /\ last > m.enforcement_seqnum
  <1>3. /\ SentOK(m, monitor[n][e], h) /\ CacheOK(m, h)
        /\ ViewOK(m, h, view[e][n], removed[e][n])
    BY <1>0, <1>1, Zenon DEF Receivable, SentOK, CacheOK, ViewOK, Ahead
  <1>4. \A x \in network : x.from = n /\ x.to = e =>
          x.seqnum \in Nat /\ FlightOK(m, h, x)
    BY <1>0, <1>1, Zenon DEF Receivable, FlightOK, Ahead
  <1>5. /\ view[e][n] \in Victims /\ removed[e][n] \in SUBSET Keys
        /\ h \in HistoryType /\ monitor[n][e] \in MonitorType /\ s.seqnum \in Nat
    BY <1>0, Zenon DEF Receivable
  <1> HIDE DEF h
  <1>6. /\ Ahead(m, s.seqnum)
        /\ last \in Nat /\ s.seqnum <= last /\ last < Len(h)
        /\ h[last + 1] \in Victims /\ new \in Victims
        /\ Agrees(new, h[last + 1], removed[e][n])
    <2>1. new = ClearContinuous(m, s.seqnum, Recover(s.form, view[e][n]))
      BY Zenon DEF Applied
    <2>2. FlightOK(m, h, s)
      BY <1>4, Zenon DEF Goes
    <2> QED
      BY <1>1, <1>3, <1>5, <2>1, <2>2, AppliedView, Zenon
  <1>7. /\ mm \in MonitorType
        /\ mm.prev = m.prev /\ mm.cur_seqnum = m.cur_seqnum
        /\ mm.is_first = FALSE /\ mm.tracked_seqnum = last
        /\ mm.cached = {x \in m.cached : x.seqnum > last}
        /\ mm.wait <=> m.wait /\ ~answered
        /\ ~answered => /\ mm.enforcement_seqnum = m.enforcement_seqnum
                        /\ mm.need_enforcement = m.need_enforcement
        /\ answered => mm.need_enforcement = FALSE
    <2>1. mm = TryToClearEnforcement(m, s.seqnum)
      BY Zenon DEF Applied
    <2>2. m \in MonitorType /\ LastContinuous(m, s.seqnum) \in Nat
      BY <1>1, <1>6, Zenon
    <2>3. LET q == s.seqnum
              r == TryToClearEnforcement(m, q)
              l == LastContinuous(m, q)
              a == m.wait /\ l > m.enforcement_seqnum
          IN /\ r \in MonitorType
             /\ r.prev = m.prev /\ r.cur_seqnum = m.cur_seqnum
             /\ r.is_first = FALSE /\ r.tracked_seqnum = l
             /\ r.cached = {x \in m.cached : x.seqnum > l}
             /\ r.wait <=> m.wait /\ ~a
             /\ ~a => /\ r.enforcement_seqnum = m.enforcement_seqnum
                      /\ r.need_enforcement = m.need_enforcement
             /\ a => r.need_enforcement = FALSE
      BY <2>2, ClearFields, Zenon
    <2> QED
      BY <2>1, <2>3, Zenon
  <1> HIDE DEF last
  <1>8. ~m.is_first => m.tracked_seqnum < last
    BY <1>2, <1>5, <1>6, SMTT(30) DEF Ahead
  <1>9. /\ mm.need_enforcement => mm.wait
        /\ mm.wait => /\ m.wait /\ last <= m.enforcement_seqnum
                      /\ mm.enforcement_seqnum = m.enforcement_seqnum
                      /\ mm.need_enforcement = m.need_enforcement
    <2>1. m.need_enforcement => m.wait
      BY <1>3, Zenon DEF CacheOK
    <2> QED
      BY <2>1, <1>2, <1>6, <1>7, SMTT(30)
  <1> DEFINE c == Cut(h, last)
  <1>10. /\ SentOK(mm, monitor[n][e], c) /\ CacheOK(mm, c)
         /\ \A x : x.seqnum \in Nat /\ FlightOK(m, h, x) => FlightOK(mm, c, x)
    BY <1>1, <1>3, <1>5, <1>6, <1>7, <1>8, <1>9, AppliedPair, Zenon
  <1>11. c \in HistoryType /\ c[last + 1] = h[last + 1]
    <2>1. Len(h) \in Nat
      BY <1>5 DEF HistoryType
    <2>2. last + 1 \in 1 .. Len(h) /\ last + 1 > last
      BY <1>6, <2>1
    <2> QED
      BY <1>5, <1>6, <2>2, CutFields, Zenon
  <1>12. /\ Assigned(monitor', monitor, e, n, mm)
         /\ Assigned(view', view, e, n, new)
         /\ Assigned(removed', removed, e, n, rm)
         /\ Assigned(history', history, n, e, c)
         /\ network' = network \ {s} /\ lost' = lost
    BY <1>7, Zenon DEF Applied, h
  <1>13. rm = {k \in removed[e][n] : new[k] = Absent}
    BY Zenon DEF Applied
  <1> HIDE DEF c
  <1>14. ViewOK(mm, c, new, rm) /\ rm \in SUBSET Keys
    BY <1>5, <1>6, <1>7, <1>11, <1>13, ZenonT(30) DEF ViewOK, Agrees
  <1>15. monitor'[e][n] = mm /\ monitor'[n][e] = monitor[n][e]
    BY <1>p, <1>12, PairBoth
  <1>16. lost = 0 /\ mm.wait => Answered(e, n)'
    <2> SUFFICES ASSUME lost = 0, mm.wait PROVE Answered(e, n)'
      OBVIOUS
    <2>1. Answered(e, n)
      BY <1>0, <1>1, <1>9, Zenon DEF Receivable
    <2>2. /\ mm.need_enforcement = monitor[e][n].need_enforcement
          /\ mm.enforcement_seqnum = monitor[e][n].enforcement_seqnum
          /\ ~(s.seqnum > mm.enforcement_seqnum)
      <3>1. ~(s.seqnum > m.enforcement_seqnum)
        BY <1>2, <1>5, <1>6, <1>9, NotAbove, Zenon
      <3> QED
        BY <3>1, <1>1, <1>9, Zenon
    <2> QED
      BY <2>1, <2>2, <1>12, <1>15, AnswerStays, Zenon
  <1>17. \A x \in network : x.from = n /\ x.to = e => FlightOK(mm, c, x)
    BY <1>4, <1>10, Zenon
  <1>18. ReceiptOK(s, e, n, mm, new, rm, c)
    BY <1>1, <1>6, <1>7, <1>10, <1>11, <1>12, <1>14, <1>16, <1>17, Zenon DEF ReceiptOK
  <1>19. Inv'
    BY <1>18, ReceiptKeeps
  <1> QED
    BY <1>1, <1>6, <1>7, <1>8, <1>19, Zenon

\* What a step may do to what one edge tracks of another.
Forward(e, n) ==
  /\ monitor'[e][n].tracked_seqnum >= monitor[e][n].tracked_seqnum
  /\ monitor'[e][n].is_first => monitor[e][n].is_first
  /\ view'[e][n] # view[e][n] =>
       \/ monitor'[e][n].tracked_seqnum > monitor[e][n].tracked_seqnum
       \/ monitor'[e][n].is_first # monitor[e][n].is_first
       \/ removed'[e][n] # removed[e][n]

\* An assignment to the monitor of one pair that keeps what is tracked, or that
\* tracks something newer, takes no pair backwards.
LEMMA ForwardPair ==
  ASSUME Inv, NEW e \in Edges, NEW n \in Neighbors(e), NEW mm, NEW v,
         Assigned(monitor', monitor, e, n, mm), Assigned(view', view, e, n, v),
         mm.tracked_seqnum \in Nat, mm.is_first \in BOOLEAN,
         \/ /\ mm.tracked_seqnum = monitor[e][n].tracked_seqnum
            /\ mm.is_first = monitor[e][n].is_first
            /\ v = view[e][n]
         \/ /\ mm.is_first = FALSE
            /\ \/ monitor[e][n].is_first
               \/ mm.tracked_seqnum > monitor[e][n].tracked_seqnum
  PROVE  \A a \in Edges : \A b \in Neighbors(a) : Forward(a, b)
  <1>1. /\ \A a \in Edges : \A b \in Neighbors(a) :
             monitor'[a][b] = IF a = e /\ b = n THEN mm ELSE monitor[a][b]
        /\ \A a \in Edges : \A b \in Neighbors(a) :
             view'[a][b] = IF a = e /\ b = n THEN v ELSE view[a][b]
    <2>1. PerPair(monitor) /\ PerPair(view)
      BY Zenon DEF Inv, TypeOK
    <2> QED
      BY <2>1, PairUpdate
  <1>2. \A a \in Edges : \A b \in Neighbors(a) :
          monitor[a][b].tracked_seqnum \in Nat /\ monitor[a][b].is_first \in BOOLEAN
    BY MonitorFields, Zenon DEF Inv, TypeOK
  <1>3. monitor[e][n].is_first => monitor[e][n].tracked_seqnum = 0
    BY Zenon DEF Inv, CacheOK
  <1> TAKE a \in Edges
  <1> TAKE b \in Neighbors(a)
  <1>4. CASE a = e /\ b = n
    <2>1. monitor'[a][b] = mm /\ view'[a][b] = v
      BY <1>1, <1>4
    <2> QED
      BY <2>1, <1>2, <1>3, <1>4 DEF Forward
  <1>5. CASE ~(a = e /\ b = n)
    <2>1. monitor'[a][b] = monitor[a][b] /\ view'[a][b] = view[a][b]
      BY <1>1, <1>5
    <2> QED
      BY <2>1, <1>2, SMTT(30) DEF Forward
  <1> QED
    BY <1>4, <1>5, ZenonT(30)

\* Receiving a syncset keeps the invariant and takes no pair backwards.
LEMMA ReceiveKeeps ==
  ASSUME Inv, NEW s, ReceiveSyncset(s)
  PROVE  Inv' /\ \A a \in Edges : \A b \in Neighbors(a) : Forward(a, b)
  <1> DEFINE e == s.to
             n == s.from
             m == EnforceComplete(monitor[e][n], s.enforce)
  <1>1. s \in network /\ network' = network \ {s} /\ lost' = lost
    BY Zenon DEF ReceiveSyncset
  <1>2. Receivable(s, e, n)
    BY <1>1, ReceivedFacts, Zenon DEF Goes
  <1>3. /\ m \in MonitorType /\ m.is_first = monitor[e][n].is_first
        /\ m.tracked_seqnum = monitor[e][n].tracked_seqnum
    BY <1>2, EnforceFields, Zenon DEF Receivable
  <1>4. m.is_first \in BOOLEAN /\ m.tracked_seqnum \in Nat
    BY <1>3, MonitorFields, Zenon
  <1>5. e \in Edges /\ n \in Neighbors(e)
    BY <1>2, Zenon DEF Receivable
  <1>6. view = [view EXCEPT ![e][n] = view[e][n]]
    BY <1>2, PairSame DEF Receivable
  <1>7. CASE /\ IsOutdated(m, s)
             /\ monitor' = [monitor EXCEPT ![e][n] = m]
             /\ UNCHANGED <<view, removed, history>>
    <2> HIDE DEF m
    <2>1. Assigned(monitor', monitor, e, n, m) /\ Assigned(view', view, e, n, view[e][n])
      BY <1>6, <1>7 DEF Assigned
    <2>2. Inv'
      BY <1>1, <1>7, <2>1, OutdatedKeeps, Zenon DEF Goes, Enforced, m
    <2> QED
      BY <1>3, <1>4, <1>5, <2>1, <2>2, ForwardPair, Zenon
  <1>8. CASE /\ ~IsOutdated(m, s)
             /\ ~IsApplicable(m, s)
             /\ monitor' = [monitor EXCEPT ![e][n] = TryToEnableEnforcement(m, s)]
             /\ UNCHANGED <<view, removed, history>>
    <2> DEFINE mm == TryToEnableEnforcement(m, s)
    <2>1. /\ mm.tracked_seqnum = m.tracked_seqnum
          /\ mm.is_first = m.is_first
      <3> HIDE DEF m
      <3> QED
        BY <1>3 DEF TryToEnableEnforcement, MonitorType
    <2> HIDE DEF m
    <2>2. Assigned(monitor', monitor, e, n, mm) /\ Assigned(view', view, e, n, view[e][n])
      BY <1>6, <1>8 DEF Assigned
    <2>3. Inv'
      BY <1>1, <1>8, <2>2, CachedKeeps, Zenon DEF Goes, Enforced, m
    <2> HIDE DEF mm
    <2> QED
      BY <1>3, <1>4, <1>5, <2>1, <2>2, <2>3, ForwardPair, Zenon
  <1>9. CASE /\ ~IsOutdated(m, s)
             /\ IsApplicable(m, s)
             /\ LET base == Recover(s.form, view[e][n])
                    new == ClearContinuous(m, s.seqnum, base)
                IN /\ view' = [view EXCEPT ![e][n] = new]
                   /\ removed' = [removed EXCEPT ![e][n] =
                                    {k \in @ : new[k] = Absent}]
             /\ monitor' = [monitor EXCEPT ![e][n] =
                              TryToClearEnforcement(m, s.seqnum)]
             /\ history' = [history EXCEPT ![n][e] =
                              [i \in DOMAIN @ |->
                                 IF i > monitor'[e][n].tracked_seqnum
                                 THEN @[i] ELSE NULL]]
    <2> DEFINE mm == TryToClearEnforcement(m, s.seqnum)
               new == ClearContinuous(m, s.seqnum, Recover(s.form, view[e][n]))
               rm == {k \in removed[e][n] : new[k] = Absent}
    <2>1. /\ Assigned(monitor', monitor, e, n, mm)
          /\ Assigned(view', view, e, n, new)
          /\ Assigned(removed', removed, e, n, rm)
      <3> HIDE DEF m
      <3> QED
        BY <1>9 DEF Assigned
    <2>2. monitor'[e][n] = mm
      <3>1. PerPair(monitor)
        BY <1>2, Zenon DEF Receivable
      <3> HIDE DEF m, mm, e, n, new, rm
      <3> QED
        BY <1>5, <2>1, <3>1, PairUpdate
    <2>3. Assigned(history', history, n, e, Cut(history[n][e], mm.tracked_seqnum))
      <3> HIDE DEF m, mm, e, n
      <3>1. history' = [history EXCEPT ![n][e] =
                          [i \in DOMAIN history[n][e] |->
                             IF i > monitor'[e][n].tracked_seqnum
                             THEN history[n][e][i] ELSE NULL]]
        BY <1>9
      <3> QED
        BY <2>2, <3>1 DEF Assigned, Cut
    <2>4. Applied(s, e, n, m, mm, new, rm)
      BY <1>1, <2>1, <2>3, Zenon DEF Applied, Enforced
    <2> HIDE DEF m, mm, new, rm
    <2>5. /\ Inv' /\ mm.is_first = FALSE /\ mm.tracked_seqnum \in Nat
          /\ monitor[e][n].is_first \/ mm.tracked_seqnum > monitor[e][n].tracked_seqnum
      BY <1>1, <1>9, <2>4, AppliedKeeps, Zenon DEF Goes
    <2> QED
      BY <1>5, <2>1, <2>5, ForwardPair, ZenonT(30)
  <1> QED
    BY <1>7, <1>8, <1>9, Zenon DEF ReceiveSyncset

\* Sending a syncset keeps what the sender tracks.
LEMMA SendForward ==
  ASSUME Inv, NEW e \in Edges, NEW n \in Neighbors(e), SendSyncset(e, n)
  PROVE  \A a \in Edges : \A b \in Neighbors(a) : Forward(a, b)
  <1> DEFINE m == monitor[e][n]
  <1>1. PICK cur \in Contents[e] :
          monitor' = [monitor EXCEPT ![e][n] =
                        [m EXCEPT !.cur_seqnum = @ + 1,
                                  !.prev = cur,
                                  !.need_enforcement = FALSE]]
    BY Zenon DEF SendSyncset
  <1> DEFINE mm == [m EXCEPT !.cur_seqnum = @ + 1, !.prev = cur,
                             !.need_enforcement = FALSE]
  <1>2. m \in MonitorType
    BY Zenon DEF Inv, TypeOK
  <1> HIDE DEF m
  <1>3. mm.tracked_seqnum = m.tracked_seqnum /\ mm.is_first = m.is_first
    BY <1>2 DEF MonitorType
  <1>4. m.tracked_seqnum \in Nat /\ m.is_first \in BOOLEAN
    BY <1>2, MonitorFields
  <1> HIDE DEF mm
  <1>5. Assigned(monitor', monitor, e, n, mm)
    BY <1>1 DEF Assigned, mm, m
  <1>6. view = [view EXCEPT ![e][n] = view[e][n]] /\ view' = view
    BY PairSame DEF Inv, TypeOK, SendSyncset
  <1>7. Assigned(view', view, e, n, view[e][n])
    BY <1>6 DEF Assigned
  <1>8. mm.tracked_seqnum = monitor[e][n].tracked_seqnum
        /\ mm.is_first = monitor[e][n].is_first
    BY <1>3, Zenon DEF m
  <1> QED
    BY <1>3, <1>4, <1>5, <1>7, <1>8, ForwardPair, Zenon

\* A step that leaves the monitors alone and removes victims of one pair only.
LEMMA RemoveForward ==
  ASSUME Inv, NEW e \in Edges, NEW n \in Neighbors(e), NEW k \in Keys,
         RemoveVictim(e, n, k)
  PROVE  \A a \in Edges : \A b \in Neighbors(a) : Forward(a, b)
  <1>1. k \notin removed[e][n]
    BY DEF Inv, ViewOK, RemoveVictim
  <1> DEFINE v == [view[e][n] EXCEPT ![k] = Absent]
             rm == removed[e][n] \cup {k}
  <1>2. Assigned(view', view, e, n, v) /\ Assigned(removed', removed, e, n, rm)
    BY Zenon DEF RemoveVictim, Assigned
  <1> HIDE DEF v, rm
  <1>3. /\ \A a \in Edges : \A b \in Neighbors(a) :
             view'[a][b] = IF a = e /\ b = n THEN v ELSE view[a][b]
        /\ \A a \in Edges : \A b \in Neighbors(a) :
             removed'[a][b] = IF a = e /\ b = n THEN rm ELSE removed[a][b]
    <2>1. PerPair(view) /\ PerPair(removed)
      BY Zenon DEF Inv, TypeOK
    <2> QED
      BY <1>2, <2>1, PairUpdate
  <1>4. monitor' = monitor
    BY DEF RemoveVictim
  <1>5. \A a \in Edges : \A b \in Neighbors(a) : monitor[a][b].tracked_seqnum \in Nat
    BY MonitorFields, Zenon DEF Inv, TypeOK
  <1>6. rm # removed[e][n]
    BY <1>1, Zenon DEF rm
  <1> QED
    BY <1>3, <1>4, <1>5, <1>6, SMTT(30) DEF Forward

\* Every step keeps the invariant and takes no pair backwards.
LEMMA InvNext ==
  ASSUME Inv, [Next]_vars
  PROVE  Inv' /\ \A a \in Edges : \A b \in Neighbors(a) : Forward(a, b)
  <1>0. ASSUME monitor' = monitor, view' = view
        PROVE  \A a \in Edges : \A b \in Neighbors(a) : Forward(a, b)
    <2>1. \A a \in Edges : \A b \in Neighbors(a) : monitor[a][b].tracked_seqnum \in Nat
      BY MonitorFields, Zenon DEF Inv, TypeOK
    <2> QED
      BY <1>0, <2>1 DEF Forward
  <1>1. CASE Send
    BY <1>1, SendKeeps, SendForward DEF Send
  <1>2. CASE Receive
    BY <1>2, ReceiveKeeps DEF Receive
  <1>3. CASE Remove
    BY <1>3, RemoveKeeps, RemoveForward DEF Remove
  <1>4. CASE Lose
    <2>1. PICK s \in network : LoseSyncset(s)
      BY <1>4 DEF Lose
    <2>2. monitor' = monitor /\ view' = view
      BY <2>1 DEF LoseSyncset
    <2> QED
      BY <1>0, <2>1, <2>2, LoseKeeps
  <1>5. CASE UNCHANGED vars
    <2>1. /\ monitor' = monitor /\ view' = view /\ network' = network
          /\ history' = history /\ removed' = removed /\ lost' = lost
      BY <1>5 DEF vars
    <2>2. Inv'
      BY <2>1, Zenon DEF Inv, TypeOK, Answered
    <2> QED
      BY <1>0, <2>1, <2>2
  <1> QED
    BY <1>1, <1>2, <1>3, <1>4, <1>5 DEF Next

\* The invariant holds in every reachable state, for any number of edges, keys
\* and syncsets.
LEMMA InvAlways == Spec => []Inv
  <1>1. Inv /\ [Next]_vars => Inv'
    BY InvNext
  <1> QED
    BY <1>1, InvInit, PTL DEF Spec

-----------------------------------------------------------------------------
(* Theorems *)

\* What an edge tracks of a neighbor is what the neighbor sent with the tracked
\* sequence number, but for the victims that placements removed since, whatever
\* was lost, reordered or recovered from the cache (victim_tracker.c:188-358).
THEOREM ViewAlwaysSent == Spec => []ViewIsSent
  <1>1. Inv => ViewIsSent
    <2> SUFFICES ASSUME Inv, NEW e \in Edges, NEW n \in Neighbors(e)
                 PROVE  IF monitor[e][n].is_first THEN view[e][n] = NoVictims
                        ELSE /\ monitor[e][n].tracked_seqnum < Len(history[n][e])
                             /\ history[n][e][monitor[e][n].tracked_seqnum + 1] # NULL
                             /\ \A k \in Keys \ removed[e][n] :
                                  view[e][n][k] =
                                    history[n][e][monitor[e][n].tracked_seqnum + 1][k]
      BY Zenon DEF ViewIsSent
    <2> DEFINE m == monitor[e][n]
               h == history[n][e]
    <2>1. /\ SentOK(m, monitor[n][e], h) /\ ViewOK(m, h, view[e][n], removed[e][n])
      BY Zenon DEF Inv
    <2>2. m \in MonitorType /\ h \in HistoryType
      BY Zenon DEF Inv, TypeOK, Neighbors
    <2> HIDE DEF m, h
    <2>3. m.is_first \in BOOLEAN /\ m.tracked_seqnum \in Nat /\ Len(h) \in Nat
      BY <2>2, MonitorFields, SMTT(30) DEF HistoryType
    <2>4. m.is_first => view[e][n] = NoVictims
      BY <2>1 DEF ViewOK
    <2>5. ASSUME ~m.is_first
          PROVE  /\ m.tracked_seqnum < Len(h)
                 /\ h[m.tracked_seqnum + 1] # NULL
                 /\ \A k \in Keys \ removed[e][n] :
                      view[e][n][k] = h[m.tracked_seqnum + 1][k]
      <3>1. m.tracked_seqnum < Len(h)
        BY <2>1, <2>5 DEF SentOK
      <3>2. m.tracked_seqnum + 1 \in 1 .. Len(h) /\ Ahead(m, m.tracked_seqnum + 1)
        BY <2>3, <3>1, SMTT(30) DEF Ahead
      <3>3. h[m.tracked_seqnum + 1] \in Victims
        BY <2>1, <3>2, Zenon DEF SentOK
      <3>4. Agrees(view[e][n], h[m.tracked_seqnum + 1], removed[e][n])
        BY <2>1, <2>5 DEF ViewOK
      <3> QED
        BY <3>1, <3>3, <3>4, NullAssumption, Zenon DEF Agrees, Victims
    <2> QED
      BY <2>3, <2>4, <2>5, Zenon DEF m, h
  <1> QED
    BY <1>1, InvAlways, PTL

\* The assertions of VictimsyncMonitor never fail (victimsync_monitor.c:75, :129,
\* :279, :314 and :318).
THEOREM MonitorAssertsHold == Spec => []MonitorAsserts
  <1>1. Inv => MonitorAsserts
    BY Zenon DEF Inv, CacheOK, Ahead, MonitorAsserts
  <1> QED
    BY <1>1, InvAlways, PTL

\* While no syncset is lost, an edge that waits for a complete syncset has its
\* request to send or under way, or the answer is due or under way
\* (victimsync_monitor.c:121-141, victim_tracker.c:188-245).
THEOREM ReorderingIsAnswered == Spec => []WaitingIsAnsweredIfNoneLost
  <1>1. Inv => WaitingIsAnsweredIfNoneLost
    BY Zenon DEF Inv, WaitingIsAnsweredIfNoneLost, WaitingIsAnswered
  <1> QED
    BY <1>1, InvAlways, PTL

\* An edge never replaces the victims it tracks of a neighbor by older ones
\* (victim_tracker.c:246).
THEOREM TrackedNeverGoesBack == Spec => NeverGoesBack
  <1>1. Inv /\ [Next]_vars =>
          [\A e \in Edges : \A n \in Neighbors(e) :
             /\ monitor'[e][n].tracked_seqnum >= monitor[e][n].tracked_seqnum
             /\ monitor'[e][n].is_first => monitor[e][n].is_first
             /\ view'[e][n] # view[e][n] =>
                  \/ monitor'[e][n].tracked_seqnum > monitor[e][n].tracked_seqnum
                  \/ monitor'[e][n].is_first # monitor[e][n].is_first
                  \/ removed'[e][n] # removed[e][n]]_vars
    BY InvNext DEF Forward
  <1> QED
    BY <1>1, InvAlways, PTL DEF Spec, NeverGoesBack

=============================================================================
