------------------------ MODULE CacheCapacityProofs ------------------------
(* The popularity aggregator accounts for the bytes it uses exactly, and they *)
(* stay within its capacity, however the threads of the beacon edge           *)
(* interleave: for every number of edges, keys and threads, every capacity    *)
(* and every number of requests, syncs and lost notifications.                *)
EXTENDS CacheManagerProofs

-----------------------------------------------------------------------------
(* Sums over finite sets.  The library's induction theorems cannot be applied *)
(* by the provers at hand: each of these is proved by descent to a smallest   *)
(* set at which it would fail.                                               *)

\* A set of naturals that is not empty has a least element.
LEMMA LeastNatural ==
  ASSUME NEW S \in SUBSET Nat, S # {}
  PROVE  \E x \in S : \A y \in S : x <= y
  <1> DEFINE R == OpToRel(<, Nat)
  <1>1. IsWellFoundedOn(R, Nat)
    BY NatLessThanWellFounded, Zenon
  <1> HIDE DEF R
  <1>2. PICK x \in S : \A y \in S : ~ (<<y, x>> \in R)
    BY <1>1, WFMin, Zenon
  <1>3. \A y \in S : ~ (y < x)
    BY <1>2, Zenon DEF R, OpToRel
  <1> QED
    BY <1>3

\* Among finite sets there is one from which no element can be removed
\* without leaving the collection.
LEMMA MinimalSet ==
  ASSUME NEW T, T # {}, \A s \in T : IsFiniteSet(s)
  PROVE  \E s \in T : \A x \in s : s \ {x} \notin T
  <1> DEFINE N == {Cardinality(s) : s \in T}
  <1>1. N \in SUBSET Nat /\ N # {}
    BY FS_CardinalityType
  <1>2. PICK n \in N : \A m \in N : n <= m
    BY <1>1, LeastNatural, Zenon
  <1>3. PICK s \in T : Cardinality(s) = n
    BY <1>2
  <1>4. ASSUME NEW x \in s, s \ {x} \in T
        PROVE  FALSE
    <2>1. Cardinality(s \ {x}) = n - 1 /\ n \in Nat
      BY <1>3, FS_RemoveElement, FS_CardinalityType
    <2>2. n <= Cardinality(s \ {x})
      BY <1>4, <1>2
    <2> HIDE DEF N
    <2> QED
      BY <2>1, <2>2
  <1> QED
    BY <1>4

-----------------------------------------------------------------------------
(* Sums *)

Pick(s) == CHOOSE x \in s : TRUE

\* f is the recursive function that sums the weights w over the subsets of S.
IsSum(f, w, S) ==
  f = [s \in SUBSET S |-> IF s = {} THEN 0
                          ELSE w[Pick(s)] + f[s \ {Pick(s)}]]

\* The recursive function exists.
LEMMA SumExists ==
  ASSUME NEW S, IsFiniteSet(S), NEW w
  PROVE  \E f : IsSum(f, w, S)
  <1> DEFINE Small(n) == {s \in SUBSET S : Cardinality(s) <= n}
             Fits(f, n) ==
               f = [s \in Small(n) |-> IF s = {} THEN 0
                                       ELSE w[Pick(s)] + f[s \ {Pick(s)}]]
             T == {n \in Nat : ~ \E f : Fits(f, n)}
  <1>1. \A s \in SUBSET S : IsFiniteSet(s) /\ Cardinality(s) \in Nat
                            /\ Cardinality(s) <= Cardinality(S)
    BY FS_Subset, FS_CardinalityType
  <1>2. ASSUME NEW s \in SUBSET S, s # {}
        PROVE  /\ s \ {Pick(s)} \in SUBSET S
               /\ Cardinality(s \ {Pick(s)}) = Cardinality(s) - 1
    <2>1. Pick(s) \in s
      BY <1>2 DEF Pick
    <2> QED
      BY <2>1, <1>1, FS_RemoveElement
  <1>3. ASSUME T # {} PROVE FALSE
    <2>1. PICK n \in T : \A i \in T : n <= i
      BY <1>3, LeastNatural, Zenon
    <2>2. n # 0
      <3> DEFINE f == [s \in Small(0) |-> 0]
      <3>1. \A s \in Small(0) : s = {}
        <4> TAKE s \in Small(0)
        <4>1. Cardinality(s) = 0
          BY <1>1
        <4> QED
          BY <4>1, <1>1, FS_EmptySet
      <3>2. Fits(f, 0)
        BY <3>1
      <3> QED
        BY <3>2, <2>1, Zenon
    <2>3. n - 1 \in Nat /\ n - 1 \notin T
      <3>1. n \in Nat
        OBVIOUS
      <3> HIDE DEF T
      <3>2. n - 1 \in Nat
        BY <3>1, <2>2
      <3> QED
        BY <2>1, <3>1, <3>2
    <2>4. PICK f : Fits(f, n - 1)
      BY <2>3, Zenon
    <2> DEFINE g == [s \in Small(n) |-> IF s = {} THEN 0
                                        ELSE w[Pick(s)] + f[s \ {Pick(s)}]]
    <2>5. ASSUME NEW s \in Small(n - 1)
          PROVE  s \in Small(n) /\ g[s] = f[s]
      <3>1. s \in Small(n)
        BY <1>1, <2>1
      <3>2. f[s] = IF s = {} THEN 0 ELSE w[Pick(s)] + f[s \ {Pick(s)}]
        BY <2>4, Zenon
      <3> HIDE DEF Small, Fits
      <3> QED
        BY <3>1, <3>2
    <2>6. ASSUME NEW s \in Small(n), s # {}
          PROVE  g[s \ {Pick(s)}] = f[s \ {Pick(s)}]
      <3>1. s \ {Pick(s)} \in Small(n - 1)
        BY <1>1, <1>2, <2>6, <2>1
      <3> HIDE DEF Small, g
      <3> QED
        BY <3>1, <2>5
    <2>7. Fits(g, n)
      <3> HIDE DEF Small
      <3>1. g = [s \in Small(n) |-> IF s = {} THEN 0
                                    ELSE w[Pick(s)] + f[s \ {Pick(s)}]]
        OBVIOUS
      <3> HIDE DEF g
      <3>2. ASSUME NEW s \in Small(n)
            PROVE  (IF s = {} THEN 0 ELSE w[Pick(s)] + f[s \ {Pick(s)}])
                   = (IF s = {} THEN 0 ELSE w[Pick(s)] + g[s \ {Pick(s)}])
        BY <2>6
      <3> QED
        BY <3>1, <3>2, Zenon
    <2> HIDE DEF g, Fits
    <2> QED
      BY <2>1, <2>7
  <1>4. Cardinality(S) \in Nat
    BY FS_CardinalityType
  <1>5. PICK f : Fits(f, Cardinality(S))
    BY <1>3, <1>4, Zenon
  <1>6. Small(Cardinality(S)) = SUBSET S
    BY <1>1
  <1>7. IsSum(f, w, S)
    <2> HIDE DEF Small
    <2> QED
      BY <1>5, <1>6, Zenon DEF IsSum
  <1> QED
    BY <1>7

\* f sums over the finite set S and g over a part R of it, where the weights
\* are the same.
Alike(f, w, S, g, v, R) ==
  /\ IsFiniteSet(S) /\ R \in SUBSET S
  /\ IsSum(f, w, S) /\ IsSum(g, v, R)
  /\ \A x \in R : w[x] = v[x]

\* Then they agree on the common part.
LEMMA SumsAgree ==
  ASSUME NEW f, NEW w, NEW S, NEW g, NEW v, NEW R, Alike(f, w, S, g, v, R)
  PROVE  f[R] = g[R]
  <1> USE DEF Alike
  <1> DEFINE T == {s \in SUBSET R : f[s] # g[s]}
  <1>1. ASSUME T # {} PROVE FALSE
    <2>1. \A s \in T : IsFiniteSet(s)
      BY FS_Subset
    <2>2. PICK s \in T : \A x \in s : s \ {x} \notin T
      BY <1>1, <2>1, MinimalSet, Zenon
    <2>3. s \in SUBSET R /\ s \in SUBSET S /\ f[s] # g[s]
      OBVIOUS
    <2>4. f[s] = IF s = {} THEN 0 ELSE w[Pick(s)] + f[s \ {Pick(s)}]
      BY <2>3 DEF IsSum
    <2>5. g[s] = IF s = {} THEN 0 ELSE v[Pick(s)] + g[s \ {Pick(s)}]
      BY <2>3, Zenon DEF IsSum
    <2>6. s # {}
      BY <2>3, <2>4, <2>5
    <2>7. Pick(s) \in s
      BY <2>6 DEF Pick
    <2>8. f[s \ {Pick(s)}] = g[s \ {Pick(s)}] /\ w[Pick(s)] = v[Pick(s)]
      BY <2>2, <2>7
    <2> HIDE DEF T
    <2> QED
      BY <2>3, <2>4, <2>5, <2>8
  <1> QED
    BY <1>1

Total(w, S) == (CHOOSE f : IsSum(f, w, S))[S]

\* The recursive function of a set totals every subset.
LEMMA SumIsTotal ==
  ASSUME NEW S, IsFiniteSet(S), NEW f, NEW w, IsSum(f, w, S), NEW R \in SUBSET S
  PROVE  f[R] = Total(w, R)
  <1> DEFINE g == CHOOSE h : IsSum(h, w, R)
  <1>1. IsFiniteSet(R)
    BY FS_Subset
  <1>2. \E h : IsSum(h, w, R)
    BY <1>1, SumExists
  <1>3. IsSum(g, w, R)
    BY <1>2, Zenon
  <1>4. Total(w, R) = g[R]
    BY DEF Total
  <1> HIDE DEF g
  <1>5. Alike(f, w, S, g, w, R)
    BY <1>3 DEF Alike
  <1>6. f[R] = g[R]
    BY <1>5, SumsAgree
  <1> QED
    BY <1>4, <1>6

\* The total of a set depends on the weights of its elements only.
LEMMA TotalSame ==
  ASSUME NEW S, IsFiniteSet(S), NEW w, NEW v, \A x \in S : w[x] = v[x]
  PROVE  Total(w, S) = Total(v, S)
  <1>1. PICK f : IsSum(f, w, S)
    BY SumExists
  <1>2. PICK g : IsSum(g, v, S)
    BY SumExists
  <1>3. f[S] = g[S]
    <2>1. S \in SUBSET S
      OBVIOUS
    <2>2. Alike(f, w, S, g, v, S)
      BY <2>1, <1>1, <1>2 DEF Alike
    <2> QED
      BY <2>2, SumsAgree
  <1>4. f[S] = Total(w, S) /\ g[S] = Total(v, S)
    BY <1>1, <1>2, SumIsTotal
  <1> QED
    BY <1>3, <1>4, Zenon

\* The total of no elements, and of the element that is picked first.
LEMMA TotalPick ==
  ASSUME NEW S, IsFiniteSet(S), NEW w
  PROVE  /\ Total(w, {}) = 0
         /\ S # {} => /\ Pick(S) \in S
                      /\ Total(w, S) = w[Pick(S)] + Total(w, S \ {Pick(S)})
  <1>1. PICK f : IsSum(f, w, S)
    BY SumExists
  <1>2. f[S] = Total(w, S) /\ f[{}] = Total(w, {})
        /\ f[S \ {Pick(S)}] = Total(w, S \ {Pick(S)})
    BY <1>1, SumIsTotal
  <1>3. f[{}] = 0 /\ (S # {} => f[S] = w[Pick(S)] + f[S \ {Pick(S)}])
    BY <1>1, Zenon DEF IsSum
  <1>4. S # {} => Pick(S) \in S
    BY DEF Pick
  <1> QED
    BY <1>2, <1>3, <1>4

\* A total of naturals is a natural.
LEMMA TotalNat ==
  ASSUME NEW S, IsFiniteSet(S), NEW w, \A x \in S : w[x] \in Nat
  PROVE  \A s \in SUBSET S : Total(w, s) \in Nat
  <1> DEFINE T == {s \in SUBSET S : Total(w, s) \notin Nat}
  <1>1. ASSUME T # {} PROVE FALSE
    <2>1. \A s \in T : IsFiniteSet(s)
      BY FS_Subset
    <2>2. PICK s \in T : \A x \in s : s \ {x} \notin T
      BY <1>1, <2>1, MinimalSet, Zenon
    <2>3. s # {}
      <3>1. Total(w, {}) = 0
        BY TotalPick, Zenon
      <3>2. Total(w, s) \notin Nat
        OBVIOUS
      <3> HIDE DEF T
      <3> QED
        BY <3>1, <3>2
    <2>4. Pick(s) \in s /\ Total(w, s) = w[Pick(s)] + Total(w, s \ {Pick(s)})
      BY <2>1, <2>3, TotalPick, Zenon
    <2>5. Total(w, s \ {Pick(s)}) \in Nat /\ w[Pick(s)] \in Nat
      BY <2>2, <2>4
    <2>6. Total(w, s) \in Nat
      BY <2>4, <2>5
    <2> QED
      BY <2>6
  <1> QED
    BY <1>1

\* Any element may be counted first.
LEMMA TotalStep ==
  ASSUME NEW S, IsFiniteSet(S), NEW w, \A x \in S : w[x] \in Nat
  PROVE  \A s \in SUBSET S : \A x \in s : Total(w, s) = w[x] + Total(w, s \ {x})
  <1> DEFINE Steps(s) == \A x \in s : Total(w, s) = w[x] + Total(w, s \ {x})
             T == {s \in SUBSET S : ~Steps(s)}
  <1>1. ASSUME T # {} PROVE FALSE
    <2>1. \A s \in T : IsFiniteSet(s)
      BY FS_Subset
    <2>2. PICK s \in T : \A x \in s : s \ {x} \notin T
      BY <1>1, <2>1, MinimalSet, Zenon
    <2> DEFINE p == Pick(s)
    <2>3. s # {} /\ s \in SUBSET S
      OBVIOUS
    <2>4. p \in s /\ Total(w, s) = w[p] + Total(w, s \ {p})
      BY <2>1, <2>3, TotalPick, Zenon
    <2> HIDE DEF p
    <2>5. ASSUME NEW x \in s
          PROVE  Total(w, s) = w[x] + Total(w, s \ {x})
      <3>1. CASE x = p
        BY <3>1, <2>4
      <3>2. CASE x # p
        <4> DEFINE rest == (s \ {p}) \ {x}
        <4>1. rest = (s \ {x}) \ {p}
          OBVIOUS
        <4>2. Steps(s \ {p}) /\ Steps(s \ {x})
          BY <2>2, <2>3, <2>4, Zenon
        <4>3. Total(w, s \ {p}) = w[x] + Total(w, rest)
          BY <4>2, <3>2, Zenon
        <4>4. Total(w, s \ {x}) = w[p] + Total(w, rest)
          BY <4>1, <4>2, <3>2, <2>4
        <4>5. w[x] \in Nat /\ w[p] \in Nat /\ Total(w, rest) \in Nat
          BY <2>3, <2>4, TotalNat
        <4> HIDE DEF rest
        <4> QED
          BY <2>4, <4>3, <4>4, <4>5
      <3> QED
        BY <3>1, <3>2
    <2> QED
      BY <2>5
  <1> QED
    BY <1>1, Zenon

\* Emptying the elements of D takes their total away.
LEMMA TotalWithout ==
  ASSUME NEW S, IsFiniteSet(S), NEW w, \A x \in S : w[x] \in Nat,
         NEW D \in SUBSET S, NEW v,
         \A x \in S : v[x] = IF x \in D THEN 0 ELSE w[x]
  PROVE  Total(v, S) = Total(w, S) - Total(w, D)
  <1> DEFINE Splits(s) == Total(v, s) + Total(w, s \cap D) = Total(w, s)
             T == {s \in SUBSET S : ~Splits(s)}
  <1>0. \A x \in S : v[x] \in Nat
    OBVIOUS
  <1>1. ASSUME T # {} PROVE FALSE
    <2>1. \A s \in T : IsFiniteSet(s)
      BY FS_Subset
    <2>2. PICK s \in T : \A x \in s : s \ {x} \notin T
      BY <1>1, <2>1, MinimalSet, Zenon
    <2>3. s \in SUBSET S /\ ~Splits(s)
      OBVIOUS
    <2>4. s # {}
      <3>1. Total(v, {}) = 0 /\ Total(w, {}) = 0
        BY TotalPick, Zenon
      <3>2. {} \cap D = {}
        OBVIOUS
      <3> QED
        <4>1. Splits({})
          BY <3>1, <3>2
        <4> HIDE DEF Splits, T
        <4> QED
          BY <2>3, <4>1
    <2>5. PICK x \in s : TRUE
      BY <2>4
    <2>6. Splits(s \ {x})
      BY <2>2, <2>3, <2>5
    <2> DEFINE r == s \ {x}
    <2>7. Total(v, s) = v[x] + Total(v, r) /\ Total(w, s) = w[x] + Total(w, r)
      BY <2>3, <2>5, <1>0, TotalStep
    <2>8. /\ Total(v, r) \in Nat /\ Total(w, r) \in Nat
          /\ Total(w, r \cap D) \in Nat /\ w[x] \in Nat
      BY <2>3, <2>5, <1>0, TotalNat
    <2>9. x \in D => Total(w, s \cap D) = w[x] + Total(w, r \cap D)
      <3>1. (s \cap D) \ {x} = r \cap D /\ s \cap D \in SUBSET S
        BY <2>3
      <3> HIDE DEF r
      <3> QED
        BY <3>1, <2>5, TotalStep
    <2>10. x \notin D => s \cap D = r \cap D
      OBVIOUS
    <2>11. v[x] = IF x \in D THEN 0 ELSE w[x]
      BY <2>3, <2>5
    <2>12. Total(v, r) + Total(w, r \cap D) = Total(w, r)
      BY <2>6
    <2> HIDE DEF r, T
    <2>13. Total(v, s) + Total(w, s \cap D) = Total(w, s)
      BY <2>7, <2>8, <2>9, <2>10, <2>11, <2>12
    <2> QED
      BY <2>3, <2>13
  <1>2. S \cap D = D /\ Splits(S)
    BY <1>1, Zenon
  <1>3. Total(v, S) \in Nat /\ Total(w, D) \in Nat /\ Total(w, S) \in Nat
    BY <1>0, TotalNat
  <1> QED
    BY <1>2, <1>3

-----------------------------------------------------------------------------
(* The size of the entries *)

Weights(edges, top) == [k \in Keys |-> PopularityBytes(edges[k], top[k])]

\* The size of entries is the total of what they count for.
LEMMA EntriesTotal ==
  ASSUME NEW edges, NEW top, NEW D \in SUBSET Keys
  PROVE  EntriesBytes(edges, top, D) = Total(Weights(edges, top), D)
  <1> DEFINE P(f) ==
               f = [s \in SUBSET D |->
                      IF s = {} THEN 0
                      ELSE LET x == CHOOSE x \in s : TRUE
                           IN PopularityBytes(edges[x], top[x]) + f[s \ {x}]]
             w == Weights(edges, top)
  <1>1. ASSUME NEW f
        PROVE  IsSum(f, w, D) <=> P(f)
    <2>1. ASSUME NEW s \in SUBSET D, s # {}
          PROVE  w[Pick(s)] = PopularityBytes(edges[Pick(s)], top[Pick(s)])
      <3>1. Pick(s) \in Keys
        BY <2>1 DEF Pick
      <3> QED
        BY <3>1 DEF Weights
    <2> HIDE DEF w
    <2>2. [s \in SUBSET D |-> IF s = {} THEN 0
                              ELSE w[Pick(s)] + f[s \ {Pick(s)}]]
          = [s \in SUBSET D |->
               IF s = {} THEN 0
               ELSE LET x == CHOOSE x \in s : TRUE
                    IN PopularityBytes(edges[x], top[x]) + f[s \ {x}]]
      BY <2>1 DEF Pick
    <2> QED
      BY <2>2, Zenon DEF IsSum
  <1>2. IsFiniteSet(D)
    BY KeysAssumption, FS_Subset
  <1>3. PICK h : IsSum(h, w, D)
    BY <1>2, SumExists
  <1>4. P(h)
    BY <1>1, <1>3, Zenon
  <1>5. P(CHOOSE f : P(f))
    BY <1>4, Zenon
  <1>6. EntriesBytes(edges, top, D) = (CHOOSE f : P(f))[D]
    BY DEF EntriesBytes, MapThenSumSet, MapThenFoldSet
  <1>7. PICK g : IsSum(g, w, D) /\ EntriesBytes(edges, top, D) = g[D]
    BY <1>1, <1>5, <1>6, Zenon
  <1> HIDE DEF w, P
  <1>8. g[D] = Total(w, D)
    BY <1>2, <1>7, SumIsTotal
  <1> QED
    BY <1>7, <1>8 DEF w

\* Top-k lists are finite.
FiniteTops(top) == \A i \in Keys : IsFiniteSet(top[i])

\* An entry counts for a natural number of bytes.
LEMMA BytesNat ==
  ASSUME NEW edges, NEW top, IsFiniteSet(top)
  PROVE  PopularityBytes(edges, top) \in Nat
  <1>1. Cardinality(top) \in Nat /\ EntryBytes \in Nat /\ PairBytes \in Nat
    BY FS_CardinalityType, BytesAssumption
  <1> QED
    BY <1>1 DEF PopularityBytes

\* So does every set of entries.
LEMMA EntriesNat ==
  ASSUME NEW edges, NEW top, FiniteTops(top)
  PROVE  /\ \A i \in Keys : /\ Weights(edges, top)[i] \in Nat
                            /\ Weights(edges, top)[i]
                                 = PopularityBytes(edges[i], top[i])
         /\ \A D \in SUBSET Keys : EntriesBytes(edges, top, D) \in Nat
  <1>1. \A i \in Keys : /\ Weights(edges, top)[i] \in Nat
                        /\ Weights(edges, top)[i]
                             = PopularityBytes(edges[i], top[i])
    BY BytesNat DEF FiniteTops, Weights
  <1>2. \A D \in SUBSET Keys : Total(Weights(edges, top), D) \in Nat
    BY <1>1, KeysAssumption, TotalNat
  <1> QED
    BY <1>1, <1>2, EntriesTotal

\* Writing one entry changes the size by what it counts for.
LEMMA EntriesChange ==
  ASSUME NEW e, NEW t, NEW e2, NEW t2, FiniteTops(t), FiniteTops(t2),
         NEW k \in Keys, \A i \in Keys \ {k} : e2[i] = e[i] /\ t2[i] = t[i]
  PROVE  EntriesBytes(e2, t2, Keys)
           = (EntriesBytes(e, t, Keys) + PopularityBytes(e2[k], t2[k]))
               - PopularityBytes(e[k], t[k])
  <1> DEFINE w == Weights(e, t)
             v == Weights(e2, t2)
             rest == Keys \ {k}
  <1>1. \A i \in Keys : /\ w[i] \in Nat /\ w[i] = PopularityBytes(e[i], t[i])
                        /\ v[i] \in Nat /\ v[i] = PopularityBytes(e2[i], t2[i])
    BY EntriesNat
  <1>2. EntriesBytes(e, t, Keys) = Total(w, Keys)
        /\ EntriesBytes(e2, t2, Keys) = Total(v, Keys)
    BY EntriesTotal
  <1> HIDE DEF w, v
  <1>3. Total(w, Keys) = w[k] + Total(w, rest)
    BY <1>1, KeysAssumption, TotalStep
  <1>4. Total(v, Keys) = v[k] + Total(v, rest)
    BY <1>1, KeysAssumption, TotalStep
  <1>5. Total(w, rest) = Total(v, rest)
    <2>1. IsFiniteSet(rest)
      BY KeysAssumption, FS_Subset
    <2>2. \A i \in rest : w[i] = v[i]
      BY <1>1
    <2> QED
      BY <2>1, <2>2, TotalSame
  <1>6. Total(w, rest) \in Nat
    BY <1>1, KeysAssumption, TotalNat
  <1> HIDE DEF rest
  <1> QED
    BY <1>1, <1>2, <1>3, <1>4, <1>5, <1>6

\* Discarding entries takes away what they count for; discarding all of them
\* leaves nothing.
LEMMA EntriesWithout ==
  ASSUME NEW e, NEW t, NEW e2, NEW t2, FiniteTops(t), NEW D \in SUBSET Keys,
         \A i \in Keys : /\ i \in D => e2[i] = {}
                         /\ i \notin D => e2[i] = e[i] /\ t2[i] = t[i]
  PROVE  /\ EntriesBytes(e2, t2, Keys)
              = EntriesBytes(e, t, Keys) - EntriesBytes(e, t, D)
         /\ (\A i \in Keys \ D : e[i] = {}) => EntriesBytes(e2, t2, Keys) = 0
  <1> DEFINE w == Weights(e, t)
             v == Weights(e2, t2)
  <1>1. \A i \in Keys : w[i] \in Nat /\ w[i] = PopularityBytes(e[i], t[i])
    BY EntriesNat
  <1>2. \A i \in Keys : v[i] = IF i \in D THEN 0 ELSE w[i]
    BY <1>1 DEF Weights, PopularityBytes
  <1>3. /\ EntriesBytes(e, t, Keys) = Total(w, Keys)
        /\ EntriesBytes(e, t, D) = Total(w, D)
        /\ EntriesBytes(e2, t2, Keys) = Total(v, Keys)
    BY EntriesTotal
  <1>4. (\A i \in Keys \ D : e[i] = {}) => \A i \in Keys : v[i] = 0
    BY DEF Weights, PopularityBytes
  <1> HIDE DEF w, v
  <1>5. Total(v, Keys) = Total(w, Keys) - Total(w, D)
    BY <1>1, <1>2, KeysAssumption, TotalWithout
  <1>6. ASSUME \A i \in Keys : v[i] = 0
        PROVE  Total(v, Keys) = 0
    <2>1. \A i \in Keys : v[i] \in Nat /\ v[i] = IF i \in Keys THEN 0 ELSE v[i]
      BY <1>6
    <2>2. Total(v, Keys) = Total(v, Keys) - Total(v, Keys)
      BY <2>1, KeysAssumption, TotalWithout
    <2>3. Total(v, Keys) \in Nat
      BY <2>1, KeysAssumption, TotalNat
    <2> QED
      BY <2>2, <2>3
  <1> QED
    BY <1>3, <1>4, <1>5, <1>6

-----------------------------------------------------------------------------
(* The capacity of the aggregator *)

\* The preserved edgesets count for a natural number of bytes.
LEMMA PreservedCount ==
  /\ IsFiniteSet(PreservedKeys)
  /\ Cardinality(PreservedKeys) \in Nat
  /\ PreservedBytes * Cardinality(PreservedKeys) \in Nat
  <1>1. IsFiniteSet(PreservedKeys)
    BY KeysAssumption, FS_Subset DEF PreservedKeys
  <1>2. Cardinality(PreservedKeys) \in Nat /\ PreservedBytes \in Nat
    BY <1>1, FS_CardinalityType, BytesAssumption
  <1>3. \A a, m \in Nat : a * m \in Nat
    OBVIOUS
  <1> QED
    BY <1>1, <1>2, <1>3

\* What the new preserved edgesets count for.
Added(added) ==
  /\ added \in Nat
  /\ PreservedBytes * Cardinality(PreservedKeys')
       = PreservedBytes * Cardinality(PreservedKeys) + added

\* Writing back an entry keeps the size right, and a smaller entry the
\* capacity.
LEMMA WriteEntrySize ==
  ASSUME AggregatorOK, SizeMatches, NEW k \in Keys, NEW edges, NEW top,
         IsFiniteSet(top), WriteEntry(k, edges, top, 0), Added(0),
         PopularityBytes(edges, top) <= PopularityBytes(bitmap[k], topk[k])
  PROVE  SizeMatches' /\ size_bytes' <= size_bytes
  <1>1. /\ bitmap'[k] = edges /\ topk'[k] = top
        /\ \A i \in Keys \ {k} : bitmap'[i] = bitmap[i] /\ topk'[i] = topk[i]
    BY DEF AggregatorOK, WriteEntry
  <1>2. FiniteTops(topk) /\ FiniteTops(topk')
    BY <1>1 DEF AggregatorOK, FiniteTops
  <1>3. EntriesBytes(bitmap', topk', Keys)
          = (EntriesBytes(bitmap, topk, Keys) + PopularityBytes(edges, top))
              - PopularityBytes(bitmap[k], topk[k])
    BY <1>1, <1>2, EntriesChange
  <1>4. /\ EntriesBytes(bitmap, topk, Keys) \in Nat
        /\ PopularityBytes(edges, top) \in Nat
        /\ PopularityBytes(bitmap[k], topk[k]) \in Nat
    BY <1>2, EntriesNat, BytesNat, Zenon DEF FiniteTops
  <1>5. size_bytes' = (size_bytes + 0 + PopularityBytes(edges, top))
                        - PopularityBytes(bitmap[k], topk[k])
    BY DEF WriteEntry
  <1>6. PreservedBytes * Cardinality(PreservedKeys) \in Nat
    BY PreservedCount
  <1> DEFINE p == PreservedBytes * Cardinality(PreservedKeys)
  <1>7. p \in Nat /\ size_bytes = EntriesBytes(bitmap, topk, Keys) + p
    BY <1>6 DEF SizeMatches
  <1>8. PreservedBytes * Cardinality(PreservedKeys') = p + 0
    BY DEF Added
  <1> HIDE DEF p
  <1>9. /\ size_bytes' = EntriesBytes(bitmap', topk', Keys) + p
        /\ size_bytes' <= size_bytes
    BY <1>3, <1>4, <1>5, <1>7
  <1> QED
    BY <1>7, <1>8, <1>9 DEF SizeMatches

\* Discarding entries afterwards ends within the capacity, unless the preserved
\* edgesets alone are above it.
LEMMA WriteEntryAndDiscardSize ==
  ASSUME AggregatorOK, SizeMatches, NEW k \in Keys, NEW edges, NEW top,
         IsFiniteSet(top), NEW added, Added(added),
         WriteEntryAndDiscard(k, edges, top, added)
  PROVE  /\ SizeMatches'
         /\ PreservedBytes * Cardinality(PreservedKeys') <= CapacityBytes =>
              size_bytes' <= CapacityBytes
  <1> DEFINE e == [bitmap EXCEPT ![k] = edges]
             t == [topk EXCEPT ![k] = top]
             size == (size_bytes + added + PopularityBytes(edges, top))
                       - PopularityBytes(bitmap[k], topk[k])
             p == PreservedBytes * Cardinality(PreservedKeys)
  <1>1. PICK D \in Discards(e, t, size) :
          /\ bitmap' = [i \in Keys |-> IF i \in D THEN {} ELSE e[i]]
          /\ topk' = [i \in Keys |-> IF i \in D THEN {} ELSE t[i]]
          /\ size_bytes' = size - EntriesBytes(e, t, D)
    BY DEF WriteEntryAndDiscard
  <1>2. /\ D \in SUBSET Keys
        /\ \/ \A i \in Keys \ D : e[i] = {}
           \/ size_bytes' <= CapacityBytes
    BY <1>1 DEF Discards
  <1>3. /\ e[k] = edges /\ t[k] = top
        /\ \A i \in Keys \ {k} : e[i] = bitmap[i] /\ t[i] = topk[i]
    BY DEF AggregatorOK
  <1>4. /\ \A i \in Keys : /\ i \in D => bitmap'[i] = {}
                           /\ i \notin D => bitmap'[i] = e[i] /\ topk'[i] = t[i]
    BY <1>1
  <1> HIDE DEF e, t
  <1>5. FiniteTops(topk) /\ FiniteTops(t)
    BY <1>3 DEF AggregatorOK, FiniteTops
  <1>6. EntriesBytes(e, t, Keys)
          = (EntriesBytes(bitmap, topk, Keys) + PopularityBytes(edges, top))
              - PopularityBytes(bitmap[k], topk[k])
    BY <1>3, <1>5, EntriesChange, SMTT(30)
  <1>7. /\ EntriesBytes(bitmap', topk', Keys)
             = EntriesBytes(e, t, Keys) - EntriesBytes(e, t, D)
        /\ (\A i \in Keys \ D : e[i] = {}) =>
             EntriesBytes(bitmap', topk', Keys) = 0
    BY <1>2, <1>4, <1>5, EntriesWithout
  <1>8. /\ EntriesBytes(bitmap, topk, Keys) \in Nat
        /\ EntriesBytes(e, t, D) \in Nat
        /\ PopularityBytes(edges, top) \in Nat
        /\ PopularityBytes(bitmap[k], topk[k]) \in Nat
    BY <1>2, <1>5, EntriesNat, BytesNat, Zenon DEF FiniteTops
  <1>9. p \in Nat /\ size_bytes = EntriesBytes(bitmap, topk, Keys) + p
    BY PreservedCount DEF SizeMatches
  <1>10. added \in Nat /\ PreservedBytes * Cardinality(PreservedKeys') = p + added
    BY DEF Added
  <1> HIDE DEF p
  <1>11. size_bytes' = EntriesBytes(bitmap', topk', Keys) + (p + added)
    BY <1>1, <1>6, <1>7, <1>8, <1>9, <1>10, SMTT(30)
  <1>12. SizeMatches'
    BY <1>10, <1>11 DEF SizeMatches
  <1> HIDE DEF size
  <1> QED
    BY <1>2, <1>7, <1>9, <1>10, <1>11, <1>12, SMTT(30)

\* The capacity has room for the preserved edgesets of all keys that the edge
\* is the beacon of.
EnoughCapacity ==
  PreservedBytes * Cardinality(LocalBeaconed) <= CapacityBytes

\* WithinCapacity, as far as preserved edgesets leave room: only keys beaconed
\* here have one.
SizeOK ==
  /\ SizeMatches
  /\ PreservedKeys \subseteq LocalBeaconed
  /\ EnoughCapacity => size_bytes <= CapacityBytes

\* A placement that is about to be preserved has an edge.
PlacementsOK ==
  \A t \in Threads : thread[t].pc = "preserve" => thread[t].placement # {}

CapacityInv == SizeOK /\ PlacementsOK

\* An entry with fewer edges counts for less.
LEMMA FewerBytes ==
  ASSUME NEW edges, NEW top, IsFiniteSet(top), NEW gone
  PROVE  PopularityBytes(edges \ gone, top \ gone) <= PopularityBytes(edges, top)
  <1>1. IsFiniteSet(top \ gone) /\ Cardinality(top \ gone) <= Cardinality(top)
    BY FS_Subset
  <1>2. Cardinality(top \ gone) \in Nat /\ Cardinality(top) \in Nat
    BY <1>1, FS_CardinalityType
  <1>3. EntryBytes \in Nat /\ PairBytes \in Nat
    BY BytesAssumption
  <1>4. \A a, c, m, n \in Nat : /\ c + a * n \in Nat
                                /\ m <= n => c + a * m <= c + a * n
    OBVIOUS
  <1>5. /\ EntryBytes + PairBytes * Cardinality(top) \in Nat
        /\ EntryBytes + PairBytes * Cardinality(top \ gone)
             <= EntryBytes + PairBytes * Cardinality(top)
    BY <1>1, <1>2, <1>3, <1>4
  <1> QED
    BY <1>5 DEF PopularityBytes

\* The size and the capacity are numbers.
LEMMA SizesTyped ==
  ASSUME AggregatorOK, SizeMatches
  PROVE  size_bytes \in Nat /\ CapacityBytes \in Nat /\ PreservedBytes \in Nat
  <1>1. FiniteTops(topk)
    BY DEF AggregatorOK, FiniteTops
  <1>2. EntriesBytes(bitmap, topk, Keys) \in Nat
    BY <1>1, EntriesNat
  <1>3. PreservedBytes * Cardinality(PreservedKeys) \in Nat
    BY PreservedCount
  <1> QED
    BY <1>2, <1>3, BytesAssumption DEF SizeMatches

\* With enough capacity the preserved edgesets alone are within it.
LEMMA PreservedFit ==
  ASSUME EnoughCapacity, NEW P \in SUBSET LocalBeaconed
  PROVE  PreservedBytes * Cardinality(P) <= CapacityBytes
  <1>1. IsFiniteSet(LocalBeaconed)
    BY KeysAssumption, LocalBeaconedKeys, FS_Subset
  <1>2. IsFiniteSet(P) /\ Cardinality(P) <= Cardinality(LocalBeaconed)
    BY <1>1, FS_Subset
  <1>3. Cardinality(P) \in Nat /\ Cardinality(LocalBeaconed) \in Nat
    BY <1>1, <1>2, FS_CardinalityType
  <1>4. PreservedBytes \in Nat /\ CapacityBytes \in Nat
    BY BytesAssumption
  <1>5. \A a, m, n \in Nat : /\ a * m \in Nat /\ a * n \in Nat
                             /\ m <= n => a * m <= a * n
    OBVIOUS
  <1>6. /\ PreservedBytes * Cardinality(P) \in Nat
        /\ PreservedBytes * Cardinality(LocalBeaconed) \in Nat
        /\ PreservedBytes * Cardinality(P)
             <= PreservedBytes * Cardinality(LocalBeaconed)
    BY <1>2, <1>3, <1>4, <1>5
  <1> QED
    BY <1>4, <1>6 DEF EnoughCapacity

\* A report keeps the size right and within the capacity.
LEMMA ReportSize ==
  ASSUME AggregatorOK, SizeOK, NEW k \in LocalBeaconed, NEW e,
         NEW is_tracked, NEW is_source_cached,
         UpdateAggregatedUncachedPopularity(k, e, is_tracked, is_source_cached)
  PROVE  AggregatorOK' => SizeOK'
  <1> SUFFICES ASSUME AggregatorOK' PROVE SizeOK'
    OBVIOUS
  <1>1. k \in Keys /\ IsFiniteSet(topk[k])
    BY LocalBeaconedKeys DEF AggregatorOK
  <1>2. preserved' = preserved
    BY DEF UpdateAggregatedUncachedPopularity
  <1>3. PreservedKeys' = PreservedKeys
    BY <1>2 DEF PreservedKeys
  <1>4. Added(0)
    <2>1. PreservedBytes * Cardinality(PreservedKeys) \in Nat
      BY PreservedCount
    <2> QED
      BY <1>3, <2>1 DEF Added
  <1>5. EnoughCapacity' <=> EnoughCapacity
    BY DEF EnoughCapacity
  <1>6. CASE is_tracked /\ ~is_source_cached /\ e \notin preserved[k]
    <2>1. PICK top \in TopkWith(k, e) :
            WriteEntryAndDiscard(k, bitmap[k] \cup {e}, top, 0)
      BY <1>6 DEF UpdateAggregatedUncachedPopularity
    <2>2. IsFiniteSet(top)
      <3> DEFINE others == topk[k] \ {e}
      <3>1. \/ top = others \cup {e} \/ top = others
            \/ \E min \in others : top = (others \ {min}) \cup {e}
        BY <2>1 DEF TopkWith
      <3>2. top \subseteq topk[k] \cup {e}
        BY <3>1
      <3>3. IsFiniteSet(topk[k] \cup {e})
        BY <1>1, FS_AddElement, Zenon
      <3> QED
        BY <3>2, <3>3, FS_Subset
    <2>3. /\ SizeMatches'
          /\ PreservedBytes * Cardinality(PreservedKeys') <= CapacityBytes =>
               size_bytes' <= CapacityBytes
      BY <1>1, <1>4, <2>1, <2>2, WriteEntryAndDiscardSize DEF SizeOK
    <2>4. EnoughCapacity =>
            PreservedBytes * Cardinality(PreservedKeys') <= CapacityBytes
      BY <1>3, PreservedFit DEF SizeOK
    <2> QED
      BY <1>3, <1>5, <2>3, <2>4, Zenon DEF SizeOK
  <1>7. CASE ~(is_tracked /\ ~is_source_cached /\ e \notin preserved[k])
    <2>1. WriteEntry(k, bitmap[k] \ {e}, topk[k] \ {e}, 0)
      BY <1>7 DEF UpdateAggregatedUncachedPopularity
    <2>2. IsFiniteSet(topk[k] \ {e})
      BY <1>1, FS_Subset
    <2>3. PopularityBytes(bitmap[k] \ {e}, topk[k] \ {e})
            <= PopularityBytes(bitmap[k], topk[k])
      BY <1>1, FewerBytes, Zenon
    <2>4. SizeMatches' /\ size_bytes' <= size_bytes
      BY <1>1, <1>4, <2>1, <2>2, <2>3, WriteEntrySize DEF SizeOK
    <2>5. size_bytes \in Nat /\ CapacityBytes \in Nat
      BY SizesTyped DEF SizeOK
    <2>6. size_bytes' \in Nat
      <3>1. (size_bytes \in Nat)'
        BY <2>4, SizesTyped, PTL
      <3> QED
        BY <3>1
    <2> QED
      BY <1>3, <1>5, <2>4, <2>5, <2>6 DEF SizeOK
  <1> QED
    BY <1>6, <1>7

\* Preserving the edges of a placement keeps the size right and within the
\* capacity: the key's first preserved edgeset is counted once.
LEMMA PreserveSize ==
  ASSUME AggregatorOK, SizeOK, NEW k \in LocalBeaconed, NEW placement,
         placement # {}, UpdatePreservedEdgesetForPlacement(k, placement)
  PROVE  SizeOK'
  <1> DEFINE added == IF preserved[k] = {} THEN PreservedBytes ELSE 0
  <1>1. k \in Keys /\ IsFiniteSet(topk[k])
    BY LocalBeaconedKeys DEF AggregatorOK
  <1>2. /\ preserved'[k] = preserved[k] \cup placement
        /\ \A i \in Keys \ {k} : preserved'[i] = preserved[i]
    BY <1>1 DEF UpdatePreservedEdgesetForPlacement, AggregatorOK
  <1>3. PreservedKeys' = PreservedKeys \cup {k}
    BY <1>1, <1>2 DEF PreservedKeys
  <1>4. IsFiniteSet(PreservedKeys) /\ Cardinality(PreservedKeys) \in Nat
    BY PreservedCount
  <1>5. Cardinality(PreservedKeys')
          = IF preserved[k] = {} THEN Cardinality(PreservedKeys) + 1
            ELSE Cardinality(PreservedKeys)
    <2>1. k \in PreservedKeys <=> preserved[k] # {}
      BY <1>1 DEF PreservedKeys
    <2>2. Cardinality(PreservedKeys \cup {k})
            = IF k \in PreservedKeys THEN Cardinality(PreservedKeys)
              ELSE Cardinality(PreservedKeys) + 1
      BY <1>4, FS_AddElement, Zenon
    <2> QED
      BY <1>3, <2>1, <2>2
  <1>6. Added(added)
    <2>1. \A a, n \in Nat : a * n \in Nat /\ a * (n + 1) = a * n + a
      OBVIOUS
    <2>2. PreservedBytes \in Nat
      BY BytesAssumption
    <2>3. /\ PreservedBytes * Cardinality(PreservedKeys) \in Nat
          /\ PreservedBytes * (Cardinality(PreservedKeys) + 1)
               = PreservedBytes * Cardinality(PreservedKeys) + PreservedBytes
      BY <2>1, <2>2, <1>4
    <2> QED
      BY <1>5, <2>2, <2>3 DEF Added
  <1>7. WriteEntryAndDiscard(k, bitmap[k] \ placement, topk[k] \ placement, added)
    BY DEF UpdatePreservedEdgesetForPlacement
  <1>8. IsFiniteSet(topk[k] \ placement)
    BY <1>1, FS_Subset
  <1> HIDE DEF added
  <1>9. /\ SizeMatches'
        /\ PreservedBytes * Cardinality(PreservedKeys') <= CapacityBytes =>
             size_bytes' <= CapacityBytes
    BY <1>1, <1>6, <1>7, <1>8, WriteEntryAndDiscardSize DEF SizeOK
  <1>10. (PreservedKeys \subseteq LocalBeaconed)'
    BY <1>3 DEF SizeOK
  <1>11. EnoughCapacity =>
           PreservedBytes * Cardinality(PreservedKeys') <= CapacityBytes
    BY <1>10, PreservedFit
  <1>12. EnoughCapacity' => EnoughCapacity
    BY DEF EnoughCapacity
  <1> QED
    BY <1>9, <1>10, <1>11, <1>12 DEF SizeOK

\* Clearing an edge keeps the size right: an edgeset that becomes empty no
\* longer counts.
LEMMA ClearSize ==
  ASSUME AggregatorOK, SizeOK, NEW k \in LocalBeaconed, NEW e,
         ClearPreservedEdgesetAfterAdmission(k, e)
  PROVE  SizeOK'
  <1> DEFINE goes == preserved[k] # {} /\ preserved[k] \ {e} = {}
             p == PreservedBytes * Cardinality(PreservedKeys)
             q == PreservedBytes * Cardinality(PreservedKeys')
  <1>1. k \in Keys
    BY LocalBeaconedKeys
  <1>2. /\ preserved'[k] = preserved[k] \ {e}
        /\ \A i \in Keys \ {k} : preserved'[i] = preserved[i]
    BY <1>1, Zenon DEF ClearPreservedEdgesetAfterAdmission, AggregatorOK
  <1>3. PreservedKeys' = IF goes THEN PreservedKeys \ {k} ELSE PreservedKeys
    BY <1>1, <1>2 DEF PreservedKeys
  <1>4. IsFiniteSet(PreservedKeys) /\ Cardinality(PreservedKeys) \in Nat
    BY PreservedCount
  <1>5. goes => k \in PreservedKeys
    BY <1>1 DEF PreservedKeys
  <1>6. goes => Cardinality(PreservedKeys \ {k}) = Cardinality(PreservedKeys) - 1
    BY <1>4, <1>5, FS_RemoveElement, Zenon
  <1>7. goes => Cardinality(PreservedKeys) - 1 \in Nat
    <2>1. goes => Cardinality(PreservedKeys \ {k}) \in Nat
      BY <1>4, FS_Subset, FS_CardinalityType
    <2> QED
      BY <1>6, <2>1, Zenon
  <1>8. PreservedBytes \in Nat /\ p \in Nat
    BY BytesAssumption, PreservedCount
  <1>9. q = IF goes THEN p - PreservedBytes ELSE p
    <2>1. \A a, n \in Nat : a * (n + 1) = a * n + a /\ a * n \in Nat
      OBVIOUS
    <2>2. CASE goes
      <3> DEFINE n == Cardinality(PreservedKeys) - 1
      <3>1. n \in Nat /\ Cardinality(PreservedKeys) = n + 1
        BY <1>4, <1>7, <2>2, SMTT(30)
      <3>2. Cardinality(PreservedKeys') = n
        BY <1>3, <1>6, <2>2
      <3> HIDE DEF n
      <3>3. /\ PreservedBytes * (n + 1) = PreservedBytes * n + PreservedBytes
            /\ PreservedBytes * n \in Nat
        BY <2>1, <1>8, <3>1
      <3> QED
        BY <1>8, <2>2, <3>1, <3>2, <3>3, SMTT(30)
    <2>3. CASE ~goes
      BY <1>3, <2>3
    <2> QED
      BY <2>2, <2>3
  <1>10. /\ size_bytes' = IF goes THEN size_bytes - PreservedBytes
                          ELSE size_bytes
         /\ bitmap' = bitmap /\ topk' = topk
    BY DEF ClearPreservedEdgesetAfterAdmission
  <1>11. size_bytes \in Nat /\ CapacityBytes \in Nat
    BY SizesTyped DEF SizeOK
  <1>12. /\ size_bytes = EntriesBytes(bitmap, topk, Keys) + p
         /\ EntriesBytes(bitmap, topk, Keys) \in Nat
    <2>1. FiniteTops(topk)
      BY DEF AggregatorOK, FiniteTops
    <2> QED
      BY <2>1, EntriesNat DEF SizeOK, SizeMatches
  <1>13. (PreservedKeys \subseteq LocalBeaconed)'
    BY <1>3 DEF SizeOK
  <1> HIDE DEF goes, p
  <1>14. size_bytes' = EntriesBytes(bitmap, topk, Keys) + q
    BY <1>8, <1>9, <1>10, <1>11, <1>12
  <1>15. SizeMatches'
    BY <1>10, <1>14 DEF SizeMatches
  <1>16. size_bytes' <= size_bytes /\ size_bytes' \in Int
    BY <1>8, <1>10, <1>11
  <1>17. EnoughCapacity' => EnoughCapacity
    BY DEF EnoughCapacity
  <1> QED
    BY <1>11, <1>13, <1>15, <1>16, <1>17 DEF SizeOK

\* A step that leaves the aggregator alone keeps the size.
LEMMA SizeAlone ==
  ASSUME SizeOK, UNCHANGED aggregator
  PROVE  SizeOK'
  BY DEF SizeOK, SizeMatches, PreservedKeys, EnoughCapacity, aggregator

\* A thread that goes anywhere but to "preserve" leaves no empty placement.
LEMMA PlacementsKept ==
  ASSUME PlacementsOK, Inv, NEW t \in Threads, NEW l, Goto(t, l),
         l.pc = "preserve" => l.placement # {}
  PROVE  PlacementsOK'
  <1>1. thread' = [thread EXCEPT ![t] = l] /\ thread \in [Threads -> ThreadTypes]
    BY DEF Goto, Inv
  <1>2. \A u \in Threads : thread'[u] = IF u = t THEN l ELSE thread[u]
    BY <1>1
  <1> QED
    BY <1>2 DEF PlacementsOK

\* Every step of a thread that leaves the aggregator alone keeps the invariant.
LEMMA QuietCapacity ==
  ASSUME Inv, CapacityInv, NEW t \in Threads,
         \/ \E k \in LocalBeaconed, e \in Edges :
              \/ LookupDirectory(t, k, e)
              \/ AdmitDirectory(t, k, e)
              \/ EvictDirectory(t, k, e)
         \/ GetPopularity(t) \/ FindVictims(t) \/ RemoveVictims(t) \/ Deploy(t)
         \/ AdmitDirinfo(t) \/ EvictDirinfo(t)
  PROVE  CapacityInv'
  <1>1. UNCHANGED aggregator
    BY Zenon DEF LookupDirectory, AdmitDirectory, EvictDirectory, GetPopularity,
           FindVictims, RemoveVictims, Deploy, AdmitDirinfo, EvictDirinfo
  <1>2. SizeOK'
    BY <1>1, SizeAlone DEF CapacityInv
  <1>3. thread[t] \in ThreadTypes
    BY DEF Inv
  <1>4. ASSUME NEW k \in LocalBeaconed, NEW e \in Edges,
               \/ LookupDirectory(t, k, e)
               \/ AdmitDirectory(t, k, e)
               \/ EvictDirectory(t, k, e)
        PROVE  \E l : Goto(t, l) /\ l.pc # "preserve"
    <2>1. CASE LookupDirectory(t, k, e)
      <3>1. PICK kind : Goto(t, [pc |-> "aggregate", key |-> k, edge |-> e,
                                 kind |-> kind,
                                 is_source_cached |-> e \in directory[k]])
        BY <2>1, Zenon DEF LookupDirectory
      <3>2. [pc |-> "aggregate", key |-> k, edge |-> e, kind |-> kind,
             is_source_cached |-> e \in directory[k]].pc # "preserve"
        OBVIOUS
      <3> QED
        BY <3>1, <3>2, Zenon
    <2>2. CASE AdmitDirectory(t, k, e)
      <3>1. Goto(t, [pc |-> "admit", key |-> k, edge |-> e])
        BY <2>2 DEF AdmitDirectory
      <3>2. [pc |-> "admit", key |-> k, edge |-> e].pc # "preserve"
        OBVIOUS
      <3> QED
        BY <3>1, <3>2, ZenonT(30)
    <2>3. CASE EvictDirectory(t, k, e)
      <3>1. PICK kind : Goto(t, [pc |-> "evict", key |-> k, edge |-> e,
                                 kind |-> kind])
        BY <2>3, Zenon DEF EvictDirectory
      <3>2. [pc |-> "evict", key |-> k, edge |-> e, kind |-> kind].pc # "preserve"
        OBVIOUS
      <3> QED
        BY <3>1, <3>2, Zenon
    <2> QED
      BY <1>4, <2>1, <2>2, <2>3
  <1>5. CASE GetPopularity(t) \/ RemoveVictims(t) \/ Deploy(t)
             \/ AdmitDirinfo(t) \/ EvictDirinfo(t)
    <2>1. CASE GetPopularity(t)
      <3>1. \/ Goto(t, Idle)
            \/ Goto(t, [pc |-> "find", key |-> thread[t].key,
                        topk |-> topk[thread[t].key]])
        BY <2>1, Zenon DEF GetPopularity
      <3>2. /\ Idle.pc # "preserve"
            /\ [pc |-> "find", key |-> thread[t].key,
                topk |-> topk[thread[t].key]].pc # "preserve"
        BY DEF Idle
      <3>3. \E l : Goto(t, l) /\ l.pc # "preserve"
        BY <3>1, <3>2, Zenon
      <3> QED
        BY <1>2, <3>3, PlacementsKept, Zenon DEF CapacityInv
    <2>2. CASE RemoveVictims(t)
      <3>1. PICK e \in thread[t].placement :
              Goto(t, [thread[t] EXCEPT !.victims[e] = {}])
        BY <2>2, Zenon DEF RemoveVictims
      <3>2. /\ thread[t].pc = "remove"
            /\ DOMAIN thread[t] = {"pc", "key", "placement", "victims"}
        BY <2>2, <1>3, ThreadShapes DEF RemoveVictims
      <3>3. [thread[t] EXCEPT !.victims[e] = {}].pc = "remove"
        BY <3>2, Zenon
      <3>4. \E l : Goto(t, l) /\ l.pc # "preserve"
        BY <3>1, <3>3, Zenon
      <3> QED
        BY <1>2, <3>4, PlacementsKept, Zenon DEF CapacityInv
    <2>3. CASE Deploy(t)
      <3>1. Goto(t, Idle)
        BY <2>3, Zenon DEF Deploy
      <3>2. Idle.pc # "preserve"
        BY Zenon DEF Idle
      <3>3. \E l : Goto(t, l) /\ l.pc # "preserve"
        BY <3>1, <3>2, Zenon
      <3> QED
        BY <1>2, <3>3, PlacementsKept, Zenon DEF CapacityInv
    <2>4. CASE AdmitDirinfo(t)
      <3>1. Goto(t, [thread[t] EXCEPT !.pc = "clear"])
        BY <2>4, Zenon DEF AdmitDirinfo
      <3>2. thread[t] \in [pc : {"admit", "clear"}, key : LocalBeaconed,
                           edge : Edges]
        BY <2>4, <1>3, ThreadShapes DEF AdmitDirinfo
      <3>3. [thread[t] EXCEPT !.pc = "clear"].pc = "clear"
        BY <3>2, Zenon
      <3>4. \E l : Goto(t, l) /\ l.pc # "preserve"
        BY <3>1, <3>3, Zenon
      <3> QED
        BY <1>2, <3>4, PlacementsKept, Zenon DEF CapacityInv
    <2>5. CASE EvictDirinfo(t)
      <3>1. Goto(t, [pc |-> "aggregate", key |-> thread[t].key,
                     edge |-> thread[t].edge, kind |-> thread[t].kind,
                     is_source_cached |-> FALSE])
        BY <2>5, Zenon DEF EvictDirinfo
      <3>2. [pc |-> "aggregate", key |-> thread[t].key,
             edge |-> thread[t].edge, kind |-> thread[t].kind,
             is_source_cached |-> FALSE].pc # "preserve"
        BY Zenon
      <3>3. \E l : Goto(t, l) /\ l.pc # "preserve"
        BY <3>1, <3>2, Zenon
      <3> QED
        BY <1>2, <3>3, PlacementsKept, Zenon DEF CapacityInv
    <2> QED
      BY <1>5, <2>1, <2>2, <2>3, <2>4, <2>5
  <1>6. CASE FindVictims(t)
    <2>1. CASE Goto(t, Idle)
      BY <1>2, <2>1, PlacementsKept, Zenon DEF CapacityInv, Idle
    <2>2. CASE ~Goto(t, Idle)
      <3>1. PICK placement \in (SUBSET thread[t].topk) \ {{}} : \E victims :
              Goto(t, [pc |-> "preserve", key |-> thread[t].key,
                       placement |-> placement, victims |-> victims])
        BY <1>6, <2>2, Zenon DEF FindVictims
      <3>2. PICK victims :
              Goto(t, [pc |-> "preserve", key |-> thread[t].key,
                       placement |-> placement, victims |-> victims])
        BY <3>1, Zenon
      <3> DEFINE l == [pc |-> "preserve", key |-> thread[t].key,
                       placement |-> placement, victims |-> victims]
      <3>3. l.placement # {}
        BY <3>1, ZenonT(30)
      <3>4. Goto(t, l)
        BY <3>2, ZenonT(30)
      <3> HIDE DEF l
      <3> QED
        BY <1>2, <3>3, <3>4, PlacementsKept, Zenon DEF CapacityInv
    <2> QED
      BY <2>1, <2>2
  <1>7. ASSUME \E l : Goto(t, l) /\ l.pc # "preserve"
        PROVE  CapacityInv'
    BY <1>2, <1>7, PlacementsKept, Zenon DEF CapacityInv
  <1> QED
    BY <1>4, <1>5, <1>6, <1>7

\* The steps of a thread that change the aggregator.
LEMMA AggregatorCapacity ==
  ASSUME Inv, Inv', CapacityInv, NEW t \in Threads,
         Aggregate(t) \/ Preserve(t) \/ ClearPreserved(t)
  PROVE  CapacityInv'
  <1>1. thread[t] \in ThreadTypes /\ AggregatorOK /\ AggregatorOK' /\ SizeOK
    BY DEF Inv, CapacityInv
  <1>2. CASE Aggregate(t)
    <2>1. thread[t].key \in LocalBeaconed
      BY <1>1, <1>2, ThreadShapes, Zenon DEF Aggregate
    <2>2. PICK is_tracked \in BOOLEAN :
            /\ UpdateAggregatedUncachedPopularity(
                 thread[t].key, thread[t].edge, is_tracked,
                 thread[t].is_source_cached)
            /\ \/ Goto(t, [pc |-> "calculate", key |-> thread[t].key])
               \/ Goto(t, Idle)
      BY <1>2, Zenon DEF Aggregate
    <2>3. SizeOK'
      BY <1>1, <2>1, <2>2, ReportSize, ZenonT(30)
    <2>4. \E l : Goto(t, l) /\ l.pc # "preserve"
      BY <2>2 DEF Idle
    <2> QED
      BY <2>3, <2>4, PlacementsKept DEF CapacityInv
  <1>3. CASE Preserve(t)
    <2>1. /\ thread[t].pc = "preserve"
          /\ UpdatePreservedEdgesetForPlacement(
               thread[t].key, thread[t].placement)
          /\ Goto(t, [thread[t] EXCEPT !.pc = "remove"])
      BY <1>3 DEF Preserve
    <2>2. thread[t] \in [pc : {"preserve", "remove"}, key : LocalBeaconed,
                         placement : SUBSET Edges, victims : VictimSets]
      BY <1>1, <2>1, ThreadShapes
    <2>3. thread[t].placement # {}
      BY <2>1 DEF CapacityInv, PlacementsOK
    <2>4. SizeOK'
      BY <1>1, <2>1, <2>2, <2>3, PreserveSize
    <2>5. [thread[t] EXCEPT !.pc = "remove"].pc = "remove"
      BY <2>2
    <2> QED
      BY <2>1, <2>4, <2>5, PlacementsKept, Zenon DEF CapacityInv
  <1>4. CASE ClearPreserved(t)
    <2>1. thread[t].key \in LocalBeaconed
      BY <1>1, <1>4, ThreadShapes DEF ClearPreserved
    <2>2. /\ ClearPreservedEdgesetAfterAdmission(thread[t].key, thread[t].edge)
          /\ Goto(t, Idle)
      BY <1>4 DEF ClearPreserved
    <2>3. SizeOK'
      BY <1>1, <2>1, <2>2, ClearSize
    <2> QED
      BY <2>2, <2>3, PlacementsKept, Zenon DEF CapacityInv, Idle
  <1> QED
    BY <1>2, <1>3, <1>4

\* Nothing is counted initially.
LEMMA CapacityInit == Init => CapacityInv
  <1> SUFFICES ASSUME Init PROVE CapacityInv
    OBVIOUS
  <1>1. PreservedKeys = {} /\ size_bytes = 0
    BY DEF Init, AInit, PreservedKeys
  <1>2. IsFiniteSet({}) /\ Cardinality({}) = 0
    BY FS_EmptySet
  <1>3. /\ FiniteTops(topk)
        /\ \A i \in Keys : bitmap[i] = {} /\ bitmap[i] = bitmap[i]
    BY <1>2, Zenon DEF Init, AInit, FiniteTops
  <1>4. {} \in SUBSET Keys
    BY Zenon
  <1>5. EntriesBytes(bitmap, topk, Keys) = 0
    BY <1>3, <1>4, EntriesWithout
  <1>6. SizeMatches
    BY <1>1, <1>2, <1>5, BytesAssumption DEF SizeMatches
  <1>7. PlacementsOK
    BY Zenon DEF Init, Idle, PlacementsOK
  <1> QED
    BY <1>1, <1>6, <1>7, BytesAssumption DEF CapacityInv, SizeOK

\* Every step keeps the size right and within the capacity.
LEMMA CapacityNext == Inv /\ Inv' /\ CapacityInv /\ [Next]_vars => CapacityInv'
  <1> SUFFICES ASSUME Inv, Inv', CapacityInv, [Next]_vars PROVE CapacityInv'
    OBVIOUS
  <1>1. ASSUME NEW t \in Threads, Step(t) PROVE CapacityInv'
    BY <1>1, QuietCapacity, AggregatorCapacity DEF Step
  <1>2. CASE \/ SyncLocalVictims \/ SyncNeighborVictims \/ LoseNotification
             \/ UNCHANGED vars
    <2>1. UNCHANGED <<aggregator, thread>>
      BY <1>2 DEF SyncLocalVictims, SyncNeighborVictims, LoseNotification, vars
    <2>2. PlacementsOK'
      BY <2>1 DEF CapacityInv, PlacementsOK
    <2> QED
      BY <2>1, <2>2, SizeAlone DEF CapacityInv
  <1> QED
    BY <1>1, <1>2 DEF Next

\* The capacity invariant always holds.
LEMMA CapacityAlways == Spec => []CapacityInv
  BY CapacityInit, CapacityNext, InvAlways, PTL DEF Spec

\* size_bytes_ is the size of the entries and of the preserved edgesets after
\* every operation, so that no subtraction of popularity_aggregator.c goes below
\* zero (:275, :493, :542).
THEOREM SizeIsExact == Spec => []SizeMatches
  <1>1. CapacityInv => SizeMatches
    BY DEF CapacityInv, SizeOK
  <1> QED
    BY <1>1, CapacityAlways, PTL

\* With room for the preserved edgesets of all keys the edge is the beacon of,
\* the aggregator keeps its capacity, whatever is discarded
\* (popularity_aggregator.c:520-556).  Without that room nothing of the code
\* guarantees it, since preserved edgesets are never discarded.
THEOREM CapacityIsKept ==
  ASSUME EnoughCapacity
  PROVE  Spec => []WithinCapacity
  <1>1. CapacityInv => WithinCapacity
    BY DEF CapacityInv, SizeOK, WithinCapacity
  <1> QED
    BY <1>1, CapacityAlways, PTL
=============================================================================
