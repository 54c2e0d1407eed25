---------------------------- MODULE RateLimitsProofs ----------------------------
(***************************************************************************)
(* Proofs about RateLimits, for any window, any lag, any limits and any    *)
(* number of requests, sources and connections.                            *)
(***************************************************************************)
EXTENDS RateLimits, FiniteSetTheorems, WellFoundedInduction, TLAPS

(***************************************************************************)
(* Buckets.                                                                *)
(***************************************************************************)
LEMMA Least ==
    ASSUME NEW S, S \subseteq Nat, S # {}
    PROVE  \E x \in S : \A y \in S : x <= y
<1> DEFINE R == OpToRel(<, Nat)
<1>1. IsWellFoundedOn(R, Nat)
  BY NatLessThanWellFounded
<1> HIDE DEF R
<1>2. PICK x \in S : \A y \in S : ~(<<y, x>> \in R)
  BY <1>1, WFMin
<1>3. \A y \in S : ~(y < x)
  BY <1>2 DEF R, OpToRel
<1> QED
  BY <1>3

\* Pruning keeps every entry that is in the window of the request that prunes.
LEMMA PrunedBucket ==
    ASSUME NEW b \in Seq(Requests), NEW lag
    PROVE  /\ Pruned(b, lag) \in Seq(Requests)
           /\ \A i \in 1..Len(b) : Fresh(b[i], lag) =>
                \E j \in 1..Len(Pruned(b, lag)) : Pruned(b, lag)[j] = b[i]
<1> DEFINE fresh == {i \in 1..Len(b) : Fresh(b[i], lag)}
           first == CHOOSE i \in fresh : \A j \in fresh : i <= j
<1>1. CASE fresh = {}
  BY <1>1 DEF Pruned
<1>2. CASE fresh # {}
  <2>1. \E i \in fresh : \A j \in fresh : i <= j
    <3>1. fresh \subseteq Nat
      OBVIOUS
    <3> HIDE DEF fresh
    <3> QED
      BY <1>2, <3>1, Least
  <2>2. first \in fresh /\ \A j \in fresh : first <= j
    BY <2>1
  <2>3. Pruned(b, lag) = SubSeq(b, first, Len(b))
    BY <1>2 DEF Pruned
  <2> HIDE DEF first
  <2>4. Pruned(b, lag) \in Seq(Requests)
        /\ Len(Pruned(b, lag)) = Len(b) - first + 1
        /\ \A j \in 1..Len(Pruned(b, lag)) : Pruned(b, lag)[j] = b[first + j - 1]
    BY <2>2, <2>3
  <2>5. ASSUME NEW i \in 1..Len(b), Fresh(b[i], lag)
        PROVE  \E j \in 1..Len(Pruned(b, lag)) : Pruned(b, lag)[j] = b[i]
    <3>1. first <= i /\ first \in Nat /\ first >= 1 /\ Len(b) \in Nat
      BY <2>2, <2>5
    <3>2. (i - first + 1) \in 1..Len(Pruned(b, lag))
      BY <2>4, <3>1
    <3>3. first + (i - first + 1) - 1 = i
      BY <3>1
    <3> QED
      BY <2>4, <3>2, <3>3
  <2> QED
    BY <2>4, <2>5
<1> QED
  BY <1>1, <1>2

\* Looking for a bucket loses nothing that is in the window, and makes none.
LEMMA TouchedTable ==
    ASSUME NEW K, NEW t \in [K -> Buckets], NEW k \in K, NEW lag
    PROVE  /\ Touched(t, k, lag) \in [K -> Buckets]
           /\ \A j \in K, q \in Requests :
                 In(t, j, q) /\ Fresh(q, lag) => In(Touched(t, k, lag), j, q)
           /\ \A j \in K : Touched(t, k, lag)[j] # None => t[j] # None
           /\ t[k] # None => Touched(t, k, lag)[k] # None
<1>1. \A j \in K : t[j] # None =>
        /\ t[j] \in Seq(Requests) /\ Pruned(t[j], lag) \in Seq(Requests)
        /\ Pruned(t[j], lag) # None
        /\ \A q \in Requests : In(t, j, q) /\ Fresh(q, lag) =>
              Pruned(t[j], lag) # <<>>
              /\ \E i \in DOMAIN Pruned(t[j], lag) : Pruned(t[j], lag)[i] = q
  <2> SUFFICES ASSUME NEW j \in K, t[j] # None
               PROVE  /\ t[j] \in Seq(Requests) /\ Pruned(t[j], lag) \in Seq(Requests)
                      /\ Pruned(t[j], lag) # None
                      /\ \A q \in Requests : In(t, j, q) /\ Fresh(q, lag) =>
                            Pruned(t[j], lag) # <<>>
                            /\ \E i \in DOMAIN Pruned(t[j], lag) : Pruned(t[j], lag)[i] = q
    OBVIOUS
  <2>1. t[j] \in Seq(Requests)
    BY DEF Buckets
  <2>2. Pruned(t[j], lag) \in Seq(Requests) /\ Pruned(t[j], lag) # None
    BY <2>1, PrunedBucket, NoneAssumption
  <2>3. ASSUME NEW q \in Requests, In(t, j, q), Fresh(q, lag)
        PROVE  /\ Pruned(t[j], lag) # <<>>
               /\ \E i \in DOMAIN Pruned(t[j], lag) : Pruned(t[j], lag)[i] = q
    <3>1. PICK i \in 1..Len(t[j]) : t[j][i] = q
      BY <2>1, <2>3 DEF In
    <3>2. PICK m \in 1..Len(Pruned(t[j], lag)) : Pruned(t[j], lag)[m] = q
      BY <2>1, <2>3, <3>1, PrunedBucket
    <3> QED
      BY <2>2, <3>2
  <2> QED
    BY <2>1, <2>2, <2>3
<1>2. CASE t[k] = None
  <2>1. Touched(t, k, lag) = [j \in K |-> IF t[j] = None \/ Pruned(t[j], lag) = <<>>
                                         THEN None ELSE Pruned(t[j], lag)]
    BY <1>2 DEF Touched, PrunedTable
  <2> QED
    BY <1>1, <1>2, <2>1 DEF In, Buckets
<1>3. CASE t[k] # None
  <2>1. Touched(t, k, lag) = [t EXCEPT ![k] = Pruned(t[k], lag)]
    BY <1>3 DEF Touched
  <2> QED
    BY <1>1, <1>3, <2>1 DEF In, Buckets
<1> QED
  BY <1>2, <1>3

\* Putting a request into a bucket puts it there and takes nothing out.
LEMMA PutTable ==
    ASSUME NEW K, NEW t \in [K -> Buckets], NEW k \in K, NEW q \in Requests
    PROVE  /\ Put(t, k, q) \in [K -> Buckets]
           /\ In(Put(t, k, q), k, q)
           /\ \A j \in K : \A x : In(t, j, x) => In(Put(t, k, q), j, x)
           /\ \A j \in K : Put(t, k, q)[j] # None => t[j] # None \/ j = k
<1> DEFINE b == Bucket(t, k)
<1>1. b \in Seq(Requests)
  BY DEF Bucket, Buckets
<1>2. Put(t, k, q) = [t EXCEPT ![k] = Append(b, q)]
  BY DEF Put
<1>3. /\ Append(b, q) \in Seq(Requests) /\ Append(b, q) # None
      /\ DOMAIN Append(b, q) = 1..Len(b) + 1
      /\ Append(b, q)[Len(b) + 1] = q
      /\ \A i \in 1..Len(b) : Append(b, q)[i] = b[i]
  BY <1>1, NoneAssumption
<1>4. \A x : In(t, k, x) => \E i \in 1..Len(b) : b[i] = x
  BY <1>1 DEF In, Bucket
<1> HIDE DEF b
<1>5. Len(b) + 1 \in DOMAIN Append(b, q) /\ 1..Len(b) \subseteq DOMAIN Append(b, q)
  BY <1>1, <1>3
<1> QED
  BY <1>2, <1>3, <1>4, <1>5 DEF In, Buckets

\* What pruning leaves is the end of the bucket, and starts with an entry in the window.
LEMMA PrunedSuffix ==
    ASSUME NEW b \in Seq(Requests), NEW lag
    PROVE  /\ \E o \in Nat : /\ o + Len(Pruned(b, lag)) <= Len(b)
                             /\ \A i \in 1..Len(Pruned(b, lag)) : Pruned(b, lag)[i] = b[o + i]
           /\ Pruned(b, lag) # <<>> => Fresh(Pruned(b, lag)[1], lag)
<1> DEFINE fresh == {i \in 1..Len(b) : Fresh(b[i], lag)}
           first == CHOOSE i \in fresh : \A j \in fresh : i <= j
<1>1. CASE fresh = {}
  <2>1. Pruned(b, lag) = <<>> /\ Len(Pruned(b, lag)) = 0 /\ Len(b) \in Nat
    BY <1>1 DEF Pruned
  <2> QED
    BY <2>1
<1>2. CASE fresh # {}
  <2>1. \E i \in fresh : \A j \in fresh : i <= j
    <3>1. fresh \subseteq Nat
      OBVIOUS
    <3> HIDE DEF fresh
    <3> QED
      BY <1>2, <3>1, Least
  <2>2. first \in 1..Len(b) /\ Fresh(b[first], lag)
    <3>1. first \in fresh
      BY <2>1
    <3> HIDE DEF first
    <3> QED
      BY <3>1
  <2>3. Pruned(b, lag) = SubSeq(b, first, Len(b))
    BY <1>2 DEF Pruned
  <2> HIDE DEF first, fresh
  <2>4. /\ Len(Pruned(b, lag)) = Len(b) - first + 1
        /\ \A j \in 1..Len(Pruned(b, lag)) : Pruned(b, lag)[j] = b[(first - 1) + j]
    BY <2>2, <2>3
  <2>5. first - 1 \in Nat /\ Len(b) \in Nat /\ 1 \in 1..Len(Pruned(b, lag))
    BY <2>2, <2>4
  <2>6. Pruned(b, lag)[1] = b[first]
    BY <2>2, <2>4, <2>5
  <2>7. (first - 1) + Len(Pruned(b, lag)) <= Len(b)
    BY <2>2, <2>4, <2>5
  <2>8. \E o \in Nat : /\ o + Len(Pruned(b, lag)) <= Len(b)
                      /\ \A i \in 1..Len(Pruned(b, lag)) : Pruned(b, lag)[i] = b[o + i]
    <3> DEFINE o == first - 1
    <3> HIDE DEF o
    <3>1. o \in Nat /\ o = first - 1
      BY <2>5 DEF o
    <3> QED
      BY <2>4, <2>7, <3>1
  <2> QED
    BY <2>2, <2>6, <2>8
<1> QED
  BY <1>1, <1>2

\* So a pruned bucket is in order, adds nothing, and has nothing that is old.
LEMMA PrunedOrder ==
    ASSUME NEW b \in Seq(Requests), NEW lag \in 0..Lag, TypeOK,
           \A i, j \in 1..Len(b) : i < j => b[i] # b[j] /\ age[b[j]] <= age[b[i]] + Lag
    PROVE  /\ \A i, j \in 1..Len(Pruned(b, lag)) : i < j =>
                /\ Pruned(b, lag)[i] # Pruned(b, lag)[j]
                /\ age[Pruned(b, lag)[j]] <= age[Pruned(b, lag)[i]] + Lag
           /\ \A i \in 1..Len(Pruned(b, lag)) :
                /\ \E j \in 1..Len(b) : Pruned(b, lag)[i] = b[j]
                /\ age[Pruned(b, lag)[i]] < Old
<1> DEFINE p == Pruned(b, lag)
<1>1. PICK o \in Nat : o + Len(p) <= Len(b) /\ \A i \in 1..Len(p) : p[i] = b[o + i]
  BY PrunedSuffix
<1>2. p \in Seq(Requests) /\ Len(p) \in Nat /\ Len(b) \in Nat
      /\ (p # <<>> => Fresh(p[1], lag))
  BY PrunedBucket, PrunedSuffix
<1> HIDE DEF p
<1>3. \A i \in 1..Len(p) : o + i \in 1..Len(b) /\ p[i] \in Requests /\ age[p[i]] \in Nat
  <2> SUFFICES ASSUME NEW i \in 1..Len(p)
               PROVE  o + i \in 1..Len(b) /\ p[i] \in Requests /\ age[p[i]] \in Nat
    OBVIOUS
  <2>1. o + i \in 1..Len(b)
    BY <1>1, <1>2
  <2>2. p[i] \in Requests
    BY <1>2
  <2> QED
    BY <2>1, <2>2 DEF TypeOK
<1>4. \A i, j \in 1..Len(p) : i < j => p[i] # p[j] /\ age[p[j]] <= age[p[i]] + Lag
  <2> SUFFICES ASSUME NEW i \in 1..Len(p), NEW j \in 1..Len(p), i < j
               PROVE  p[i] # p[j] /\ age[p[j]] <= age[p[i]] + Lag
    OBVIOUS
  <2>1. o + i \in 1..Len(b) /\ o + j \in 1..Len(b) /\ o + i < o + j
    BY <1>3
  <2>2. p[i] = b[o + i] /\ p[j] = b[o + j]
    BY <1>1
  <2> QED
    BY <2>1, <2>2
<1>5. ASSUME NEW i \in 1..Len(p) PROVE age[p[i]] < Old
  <2>1. 1 \in 1..Len(p) /\ age[p[1]] < Window + lag /\ age[p[1]] \in Nat /\ age[p[i]] \in Nat
    BY <1>2, <1>3, <1>5 DEF Fresh
  <2>2. age[p[i]] <= age[p[1]] + Lag
    BY <1>4, <1>5, <2>1, TimeAssumption
  <2> QED
    BY <2>1, <2>2, TimeAssumption DEF Old
<1> QED
  BY <1>1, <1>3, <1>4, <1>5 DEF p

\* A table stays in order when a bucket is looked for, and no entry is added; where the
\* bucket is, or in all buckets when it is not there, what remains is not old.
LEMMA TouchedOrder ==
    ASSUME NEW K, NEW t \in [K -> Buckets], NEW k \in K, NEW lag \in 0..Lag, TypeOK, InOrder(t)
    PROVE  /\ InOrder(Touched(t, k, lag))
           /\ \A j \in K : \A x : In(Touched(t, k, lag), j, x) =>
                 /\ In(t, j, x) /\ x \in Requests
                 /\ (j = k \/ t[k] = None) => age[x] < Old
           /\ \A j \in K : t[k] = None /\ Touched(t, k, lag)[j] # None =>
                 \E x : In(Touched(t, k, lag), j, x)
<1> DEFINE u == Touched(t, k, lag)
<1>1. \A j \in K : t[j] # None =>
        /\ t[j] \in Seq(Requests) /\ Pruned(t[j], lag) \in Seq(Requests)
        /\ Pruned(t[j], lag) # None
        /\ \A i, m \in 1..Len(Pruned(t[j], lag)) : i < m =>
              /\ Pruned(t[j], lag)[i] # Pruned(t[j], lag)[m]
              /\ age[Pruned(t[j], lag)[m]] <= age[Pruned(t[j], lag)[i]] + Lag
        /\ \A i \in 1..Len(Pruned(t[j], lag)) :
              /\ In(t, j, Pruned(t[j], lag)[i]) /\ Pruned(t[j], lag)[i] \in Requests
              /\ age[Pruned(t[j], lag)[i]] < Old
  <2> SUFFICES ASSUME NEW j \in K, t[j] # None
               PROVE  /\ t[j] \in Seq(Requests) /\ Pruned(t[j], lag) \in Seq(Requests)
                      /\ Pruned(t[j], lag) # None
                      /\ \A i, m \in 1..Len(Pruned(t[j], lag)) : i < m =>
                            /\ Pruned(t[j], lag)[i] # Pruned(t[j], lag)[m]
                            /\ age[Pruned(t[j], lag)[m]] <= age[Pruned(t[j], lag)[i]] + Lag
                      /\ \A i \in 1..Len(Pruned(t[j], lag)) :
                            /\ In(t, j, Pruned(t[j], lag)[i])
                            /\ Pruned(t[j], lag)[i] \in Requests
                            /\ age[Pruned(t[j], lag)[i]] < Old
    OBVIOUS
  <2>1. t[j] \in Seq(Requests)
    BY DEF Buckets
  <2>2. Pruned(t[j], lag) \in Seq(Requests) /\ Pruned(t[j], lag) # None
    BY <2>1, PrunedBucket, NoneAssumption
  <2>3. \A i, m \in 1..Len(t[j]) : i < m => t[j][i] # t[j][m] /\ age[t[j][m]] <= age[t[j][i]] + Lag
    BY DEF InOrder
  <2>4. /\ \A i, m \in 1..Len(Pruned(t[j], lag)) : i < m =>
              /\ Pruned(t[j], lag)[i] # Pruned(t[j], lag)[m]
              /\ age[Pruned(t[j], lag)[m]] <= age[Pruned(t[j], lag)[i]] + Lag
        /\ \A i \in 1..Len(Pruned(t[j], lag)) :
              /\ \E m \in 1..Len(t[j]) : Pruned(t[j], lag)[i] = t[j][m]
              /\ age[Pruned(t[j], lag)[i]] < Old
    BY <2>1, <2>3, PrunedOrder
  <2>5. \A i \in 1..Len(Pruned(t[j], lag)) :
           In(t, j, Pruned(t[j], lag)[i]) /\ Pruned(t[j], lag)[i] \in Requests
    BY <2>1, <2>2, <2>4 DEF In
  <2> QED
    BY <2>1, <2>2, <2>4, <2>5
<1>2. CASE t[k] = None
  <2>1. u = [j \in K |-> IF t[j] = None \/ Pruned(t[j], lag) = <<>>
                        THEN None ELSE Pruned(t[j], lag)]
    BY <1>2 DEF Touched, PrunedTable
  <2> HIDE DEF u
  <2>2. \A j \in K : u[j] # None =>
          u[j] = Pruned(t[j], lag) /\ t[j] # None /\ u[j] # <<>> /\ DOMAIN u = K
    BY <2>1
  <2>3. InOrder(u)
    BY <1>1, <2>1, <2>2 DEF InOrder
  <2>4. ASSUME NEW j \in K, NEW x, In(u, j, x)
        PROVE  In(t, j, x) /\ x \in Requests /\ age[x] < Old
    <3>1. t[j] # None /\ u[j] = Pruned(t[j], lag) /\ Pruned(t[j], lag) \in Seq(Requests)
      BY <1>1, <2>2, <2>4 DEF In
    <3>2. PICK i \in DOMAIN u[j] : u[j][i] = x
      BY <2>4 DEF In
    <3>3. i \in 1..Len(Pruned(t[j], lag)) /\ Pruned(t[j], lag)[i] = x
      BY <3>1, <3>2
    <3> QED
      BY <1>1, <3>1, <3>3
  <2>5. ASSUME NEW j \in K, u[j] # None PROVE \E x : In(u, j, x)
    <3>1. u[j] \in Seq(Requests) /\ u[j] # <<>>
      BY <1>1, <2>2, <2>5
    <3>2. 1 \in DOMAIN u[j]
      BY <3>1
    <3> QED
      BY <2>5, <3>2 DEF In
  <2> QED
    BY <1>2, <2>3, <2>4, <2>5 DEF u
<1>3. CASE t[k] # None
  <2>1. u = [t EXCEPT ![k] = Pruned(t[k], lag)]
    BY <1>3 DEF Touched
  <2> HIDE DEF u
  <2>2. u[k] = Pruned(t[k], lag) /\ DOMAIN u = K /\ DOMAIN t = K
        /\ \A j \in K \ {k} : u[j] = t[j]
    BY <2>1
  <2>3. InOrder(u)
    BY <1>1, <1>3, <2>2 DEF InOrder
  <2>4. ASSUME NEW x, In(u, k, x)
        PROVE  In(t, k, x) /\ x \in Requests /\ age[x] < Old
    BY <1>1, <1>3, <2>2, <2>4 DEF In
  <2>5. ASSUME NEW j \in K, j # k, NEW x, In(u, j, x)
        PROVE  In(t, j, x) /\ x \in Requests
    <3>1. In(t, j, x)
      BY <2>2, <2>5 DEF In
    <3>2. t[j] \in Seq(Requests)
      BY <3>1 DEF In, Buckets
    <3> QED
      BY <3>1, <3>2 DEF In
  <2> QED
    BY <1>3, <2>3, <2>4, <2>5 DEF u
<1> QED
  BY <1>2, <1>3

\* A new entry comes last, where its clock belongs.
LEMMA PutOrder ==
    ASSUME NEW K, NEW t \in [K -> Buckets], NEW k \in K, NEW q \in Requests, TypeOK,
           InOrder(t), ~In(t, k, q), age[q] <= Lag
    PROVE  /\ InOrder(Put(t, k, q))
           /\ \A j \in K : \A x : In(Put(t, k, q), j, x) => In(t, j, x) \/ (j = k /\ x = q)
<1> DEFINE b == Bucket(t, k)
           c == Append(b, q)
<1>1. b \in Seq(Requests) /\ Len(b) \in Nat
  BY DEF Bucket, Buckets
<1>2. \A i \in 1..Len(b) : t[k] # None /\ b[i] = t[k][i] /\ i \in DOMAIN t[k] /\ b[i] # q
  BY <1>1 DEF Bucket, In
<1>3. \A i, j \in 1..Len(b) : i < j => b[i] # b[j] /\ age[b[j]] <= age[b[i]] + Lag
  BY DEF Bucket, InOrder
<1>4. Put(t, k, q) = [t EXCEPT ![k] = c]
  BY DEF Put
<1>5. /\ c # None /\ Len(c) = Len(b) + 1 /\ DOMAIN c = 1..Len(b) + 1
      /\ c[Len(b) + 1] = q /\ \A i \in 1..Len(b) : c[i] = b[i]
  BY <1>1, NoneAssumption
<1>6. \A i \in 1..Len(b) : b[i] \in Requests /\ age[b[i]] \in Nat
  BY <1>1 DEF TypeOK
<1> HIDE DEF b, c
<1>7. \A i, j \in 1..Len(c) : i < j => c[i] # c[j] /\ age[c[j]] <= age[c[i]] + Lag
  <2> SUFFICES ASSUME NEW i \in 1..Len(c), NEW j \in 1..Len(c), i < j
               PROVE  c[i] # c[j] /\ age[c[j]] <= age[c[i]] + Lag
    OBVIOUS
  <2>1. i \in 1..Len(b) /\ (j \in 1..Len(b) \/ j = Len(b) + 1)
    BY <1>1, <1>5
  <2>2. CASE j \in 1..Len(b)
    BY <1>3, <1>5, <2>1, <2>2
  <2>3. CASE j = Len(b) + 1
    <3>1. c[j] = q /\ c[i] = b[i] /\ b[i] # q /\ age[b[i]] \in Nat
      BY <1>2, <1>5, <1>6, <2>1, <2>3
    <3>2. age[q] \in Nat
      BY DEF TypeOK
    <3> QED
      BY <3>1, <3>2, TimeAssumption
  <2> QED
    BY <2>1, <2>2, <2>3
<1>8. InOrder(Put(t, k, q))
  <2>1. \A j \in K : Put(t, k, q)[j] = IF j = k THEN c ELSE t[j]
    BY <1>4
  <2>2. DOMAIN Put(t, k, q) = K /\ DOMAIN t = K
    BY <1>4
  <2> QED
    BY <1>7, <2>1, <2>2 DEF InOrder
<1>9. ASSUME NEW j \in K, NEW x, In(Put(t, k, q), j, x)
      PROVE  In(t, j, x) \/ (j = k /\ x = q)
  <2>1. CASE j # k
    BY <1>4, <1>9, <2>1 DEF In
  <2>2. CASE j = k
    <3>1. PICK i \in DOMAIN c : c[i] = x
      BY <1>4, <1>9, <2>2 DEF In
    <3>2. i = Len(b) + 1 \/ i \in 1..Len(b)
      BY <1>1, <1>5, <3>1
    <3> QED
      BY <1>2, <1>5, <2>2, <3>1, <3>2 DEF In
  <2> QED
    BY <2>1, <2>2
<1> QED
  BY <1>8, <1>9

(***************************************************************************)
(* Counting.                                                               *)
(***************************************************************************)
AtMost(S, n) == IsFiniteSet(S) /\ Cardinality(S) <= n

LEMMA AtMostSubset ==
    ASSUME NEW S, NEW U, NEW n \in Nat, AtMost(U, n), S \subseteq U
    PROVE  AtMost(S, n)
BY FS_Subset, FS_CardinalityType DEF AtMost

LEMMA AtMostAdd ==
    ASSUME NEW S, NEW n \in Nat, AtMost(S, n), NEW x
    PROVE  AtMost(S \cup {x}, n + 1)
<1>1. IsFiniteSet(S) /\ Cardinality(S) \in Nat /\ Cardinality(S) <= n
  BY FS_CardinalityType DEF AtMost
<1>2. IsFiniteSet(S \cup {x})
      /\ (Cardinality(S \cup {x}) = Cardinality(S)
            \/ Cardinality(S \cup {x}) = Cardinality(S) + 1)
  BY <1>1, FS_AddElement
<1> QED
  BY <1>1, <1>2 DEF AtMost

\* A bucket has no more different requests than entries.
LEMMA BucketCounts ==
    ASSUME NEW K, NEW t \in [K -> Buckets], NEW k \in K
    PROVE  AtMost({q \in Requests : In(t, k, q)}, Len(Bucket(t, k)))
           /\ Len(Bucket(t, k)) \in Nat
<1> DEFINE b == Bucket(t, k)
           S == {b[i] : i \in 1..Len(b)}
<1>1. b \in Seq(Requests) /\ Len(b) \in Nat
  BY DEF Bucket, Buckets
<1>2. IsFiniteSet(1..Len(b)) /\ Cardinality(1..Len(b)) = Len(b)
  BY <1>1, FS_Interval
<1>3. AtMost(S, Len(b))
  <2> DEFINE f == [i \in 1..Len(b) |-> b[i]]
  <2>1. f \in Surjection(1..Len(b), S)
    BY DEF Surjection
  <2> HIDE DEF f
  <2> QED
    BY <1>2, <2>1, FS_Surjection DEF AtMost
<1>4. {q \in Requests : In(t, k, q)} \subseteq S
  BY <1>1 DEF In, Bucket
<1> QED
  BY <1>1, <1>3, <1>4, AtMostSubset

(***************************************************************************)
(* What has been granted in the last window.                               *)
(***************************************************************************)
OfSource(s) == {q \in Admitted(Window) : from[q] = s}
OfPair(p) == {q \in Admitted(Window) : PairOf(q) = p}

LEMMA GrantsFinite ==
    /\ \A s : OfSource(s) \subseteq Requests /\ IsFiniteSet(OfSource(s))
    /\ \A p : OfPair(p) \subseteq Requests /\ IsFiniteSet(OfPair(p))
BY FiniteAssumption, FS_Subset DEF OfSource, OfPair, Admitted

LEMMA LimitsCounted ==
    WithinLimits <=>
        IF traffic = "operator"
        THEN \A s \in Sources : AtMost(OfSource(s), MaxFailures)
        ELSE /\ \A s \in Sources : AtMost(OfSource(s), MaxSourceRequests)
             /\ \A p \in Pairs : AtMost(OfPair(p), MaxRequests)
BY GrantsFinite DEF WithinLimits, AtMost, OfSource, OfPair

\* Nothing is granted, and perhaps something gets too old to count.
LEMMA NothingGranted ==
    ASSUME GrantsInv, traffic' = traffic,
           \A q \in Admitted(Window)' :
               q \in Admitted(Window) /\ from'[q] = from[q] /\ to'[q] = to[q]
    PROVE  WithinLimits'
<1>1. /\ \A s : OfSource(s)' \subseteq OfSource(s)
      /\ \A p : OfPair(p)' \subseteq OfPair(p)
  BY DEF OfSource, OfPair, PairOf
<1>2. /\ \A s : \A n \in Nat : AtMost(OfSource(s), n) => AtMost(OfSource(s)', n)
      /\ \A p : \A n \in Nat : AtMost(OfPair(p), n) => AtMost(OfPair(p)', n)
  BY <1>1, AtMostSubset
<1>3. IF traffic = "operator"
      THEN \A s \in Sources : AtMost(OfSource(s)', MaxFailures)
      ELSE /\ \A s \in Sources : AtMost(OfSource(s)', MaxSourceRequests)
           /\ \A p \in Pairs : AtMost(OfPair(p)', MaxRequests)
  <2>1. MaxFailures \in Nat /\ MaxSourceRequests \in Nat /\ MaxRequests \in Nat
    BY LimitAssumption
  <2>2. WithinLimits
    BY DEF GrantsInv
  <2>3. CASE traffic = "operator"
    BY <1>2, <2>1, <2>2, <2>3, LimitsCounted
  <2>4. CASE traffic # "operator"
    BY <1>2, <2>1, <2>2, <2>4, LimitsCounted
  <2> QED
    BY <2>3, <2>4
<1> QED
  BY <1>3 DEF WithinLimits, AtMost, OfSource, OfPair

\* One request is granted, and with it its source and pair keep to their limits.
LEMMA OneGranted ==
    ASSUME GrantsInv, NEW q \in Requests,
           verdict' = [verdict EXCEPT ![q] = "admitted"],
           UNCHANGED <<traffic, from, to, age>>,
           IF traffic = "operator"
           THEN AtMost(OfSource(from[q]) \cup {q}, MaxFailures)
           ELSE /\ AtMost(OfSource(from[q]) \cup {q}, MaxSourceRequests)
                /\ AtMost(OfPair(PairOf(q)) \cup {q}, MaxRequests)
    PROVE  WithinLimits'
<1>1. /\ \A s : s = from[q] => OfSource(s)' \subseteq OfSource(from[q]) \cup {q}
      /\ \A s : s # from[q] => OfSource(s)' \subseteq OfSource(s)
      /\ \A p : p = PairOf(q) => OfPair(p)' \subseteq OfPair(PairOf(q)) \cup {q}
      /\ \A p : p # PairOf(q) => OfPair(p)' \subseteq OfPair(p)
  BY DEF OfSource, OfPair, PairOf, Admitted, GrantsInv, TypeOK
<1>2. IF traffic = "operator"
      THEN \A s \in Sources : AtMost(OfSource(s)', MaxFailures)
      ELSE /\ \A s \in Sources : AtMost(OfSource(s)', MaxSourceRequests)
           /\ \A p \in Pairs : AtMost(OfPair(p)', MaxRequests)
  <2>1. MaxFailures \in Nat /\ MaxSourceRequests \in Nat /\ MaxRequests \in Nat
    BY LimitAssumption
  <2>2. WithinLimits
    BY DEF GrantsInv
  <2>3. CASE traffic = "operator"
    <3>1. ASSUME NEW s \in Sources PROVE AtMost(OfSource(s)', MaxFailures)
      BY <1>1, <2>1, <2>2, <2>3, LimitsCounted, AtMostSubset
    <3> QED
      BY <2>3, <3>1
  <2>4. CASE traffic # "operator"
    <3>1. ASSUME NEW s \in Sources PROVE AtMost(OfSource(s)', MaxSourceRequests)
      BY <1>1, <2>1, <2>2, <2>4, LimitsCounted, AtMostSubset
    <3>2. ASSUME NEW p \in Pairs PROVE AtMost(OfPair(p)', MaxRequests)
      <4>1. AtMost(OfPair(p), MaxRequests)
        BY <2>2, <2>4, LimitsCounted
      <4>2. CASE p = PairOf(q)
        BY <1>1, <2>1, <2>4, <4>2, AtMostSubset
      <4>3. CASE p # PairOf(q)
        BY <1>1, <2>1, <4>1, <4>3, AtMostSubset
      <4> QED
        BY <4>2, <4>3
    <3> QED
      BY <2>4, <3>1, <3>2
  <2> QED
    BY <2>3, <2>4
<1> QED
  BY <1>2 DEF WithinLimits, AtMost, OfSource, OfPair

\* Tables do not grow while buckets are only looked for, and by one with a new one.
LEMMA SizeOf ==
    ASSUME NEW K, IsFiniteSet(K), NEW t \in [K -> Buckets], NEW u \in [K -> Buckets],
           NEW n \in Nat, Size(t) <= n
    PROVE  /\ (\A j \in K : u[j] # None => t[j] # None) => Size(u) <= n
           /\ \A k \in K : (\A j \in K : u[j] # None => t[j] # None \/ j = k)
                 /\ Size(t) < n => Size(u) <= n
<1> DEFINE T == {k \in K : t[k] # None}
           U == {k \in K : u[k] # None}
<1>1. Size(t) = Cardinality(T) /\ Size(u) = Cardinality(U)
  BY DEF Size
<1>2. IsFiniteSet(T) /\ Cardinality(T) \in Nat
  BY FS_Subset, FS_CardinalityType
<1>3. AtMost(T, n) /\ (Size(t) < n => AtMost(T, n - 1))
  BY <1>1, <1>2 DEF AtMost
<1>4. ASSUME NEW k \in K, \A j \in K : u[j] # None => t[j] # None \/ j = k, Size(t) < n
      PROVE  Size(u) <= n
  <2>1. n - 1 \in Nat
    BY <1>1, <1>2, <1>4
  <2>2. AtMost(T \cup {k}, (n - 1) + 1)
    BY <1>3, <1>4, <2>1, AtMostAdd
  <2>3. U \subseteq T \cup {k} /\ (n - 1) + 1 = n
    BY <1>4
  <2> QED
    BY <1>1, <2>2, <2>3, AtMostSubset DEF AtMost
<1>5. ASSUME \A j \in K : u[j] # None => t[j] # None
      PROVE  Size(u) <= n
  BY <1>1, <1>3, <1>5, AtMostSubset DEF AtMost
<1> QED
  BY <1>4, <1>5

\* A table keeps to its bound when a bucket is looked for and, unless it is full, when
\* a request is put into that.
LEMMA TableStep ==
    ASSUME NEW K, IsFiniteSet(K), NEW t \in [K -> Buckets], NEW k \in K, NEW lag,
           NEW q \in Requests, NEW n \in Nat, Size(t) <= n
    PROVE  LET u == Touched(t, k, lag)
           IN  Size(u) <= n /\ (~Full(u, k, n) => Size(Put(u, k, q)) <= n)
<1> DEFINE u == Touched(t, k, lag)
<1>1. u \in [K -> Buckets] /\ \A j \in K : u[j] # None => t[j] # None
  BY TouchedTable
<1>2. Size(u) <= n
  BY <1>1, SizeOf
<1> HIDE DEF u
<1>3. /\ Put(u, k, q) \in [K -> Buckets]
      /\ \A j \in K : Put(u, k, q)[j] # None => u[j] # None \/ j = k
  BY <1>1, PutTable
<1>4. ASSUME ~Full(u, k, n) PROVE Size(Put(u, k, q)) <= n
  <2>1. CASE u[k] # None
    BY <1>1, <1>2, <1>3, <2>1, SizeOf
  <2>2. CASE u[k] = None
    <3>1. Size(u) \in Nat
      BY <1>1, FS_Subset, FS_CardinalityType DEF Size
    <3>2. Size(u) < n
      BY <1>2, <1>4, <2>2, <3>1 DEF Full
    <3> QED
      BY <1>1, <1>2, <1>3, <3>2, SizeOf
  <2> QED
    BY <2>1, <2>2
<1> QED
  BY <1>2, <1>4 DEF u

(***************************************************************************)
(* What the tables remember.                                               *)
(***************************************************************************)
\* Where request q is to be found once it has been admitted.
Found(q) ==
    CASE traffic = "operator" /\ backend = "memory" -> In(failures, from[q], q)
      [] traffic = "operator" /\ backend = "redis" -> q \in zFailures[from[q]]
      [] traffic = "webhook" /\ backend = "memory" ->
           In(bySource, from[q], q) /\ In(byPair, PairOf(q), q)
      [] traffic = "webhook" /\ backend = "redis" ->
           q \in zSource[from[q]] /\ q \in zPair[PairOf(q)]

LEMMA GrantsFound ==
    ASSUME GrantsInv, NEW q \in Admitted(Window)
    PROVE  /\ q \in Requests /\ Found(q) /\ from[q] \in Sources
           /\ traffic = "webhook" => to[q] \in Connections /\ PairOf(q) \in Pairs
BY DEF GrantsInv, Addressed, Remembered, Found, Admitted, Pairs, PairOf

\* The buckets keep what is recent.
LEMMA RecentKept ==
    ASSUME GrantsInv, UNCHANGED <<traffic, backend>>,
           NEW q \in Admitted(Window), from'[q] = from[q], to'[q] = to[q],
           \A s \in Sources : /\ In(failures, s, q) => In(failures', s, q)
                              /\ In(bySource, s, q) => In(bySource', s, q)
                              /\ q \in zFailures[s] => q \in zFailures'[s]
                              /\ q \in zSource[s] => q \in zSource'[s],
           \A p \in Pairs : /\ In(byPair, p, q) => In(byPair', p, q)
                            /\ q \in zPair[p] => q \in zPair'[p]
    PROVE  Found(q)'
<1>1. PairOf(q)' = PairOf(q)
  BY DEF PairOf
<1>2. Found(q) /\ from[q] \in Sources /\ (traffic = "webhook" => PairOf(q) \in Pairs)
  BY GrantsFound
<1>3. /\ traffic \in {"webhook", "operator"} /\ backend \in {"memory", "redis"}
  BY DEF GrantsInv, TypeOK
<1>4. CASE traffic = "operator" /\ backend = "memory"
  BY <1>2, <1>4 DEF Found, In
<1>5. CASE traffic = "operator" /\ backend = "redis"
  BY <1>2, <1>5 DEF Found
<1>6. CASE traffic = "webhook" /\ backend = "memory"
  BY <1>1, <1>2, <1>6 DEF Found, In
<1>7. CASE traffic = "webhook" /\ backend = "redis"
  BY <1>1, <1>2, <1>7 DEF Found
<1> QED
  BY <1>3, <1>4, <1>5, <1>6, <1>7

LEMMA ArriveKeeps ==
    ASSUME GrantsInv, NEW q \in Requests, NEW s \in Sources, NEW c \in Connections \cup {None},
           Arrive(q, s, c)
    PROVE  GrantsInv'
<1>1. TypeOK' /\ TablesBounded'
  BY DEF Arrive, GrantsInv, TypeOK, TablesBounded, memory, redis
<1>2. Addressed'
  BY DEF Arrive, GrantsInv, TypeOK, Addressed
<1>3. \A x \in Admitted(Window)' :
        x \in Admitted(Window) /\ from'[x] = from[x] /\ to'[x] = to[x]
  BY DEF Arrive, GrantsInv, TypeOK, Admitted
<1>4. WithinLimits'
  BY <1>3, NothingGranted DEF Arrive
<1>5. \A x \in Admitted(Window)' : Found(x)'
  BY <1>3, RecentKept DEF Arrive, memory, redis
<1>6. Remembered'
  BY <1>5 DEF Remembered, Found
<1> QED
  BY <1>1, <1>2, <1>4, <1>6 DEF GrantsInv

LEMMA TickKeeps ==
    ASSUME GrantsInv, Tick
    PROVE  GrantsInv'
<1>1. TypeOK' /\ TablesBounded'
  BY TimeAssumption DEF Tick, GrantsInv, TypeOK, TablesBounded, memory, redis, Old
<1>2. Addressed'
  BY DEF Tick, GrantsInv, TypeOK, Addressed
<1>3. \A x \in Admitted(Window)' :
        x \in Admitted(Window) /\ from'[x] = from[x] /\ to'[x] = to[x]
  BY TimeAssumption DEF Tick, GrantsInv, TypeOK, Admitted, Old
<1>4. WithinLimits'
  BY <1>3, NothingGranted DEF Tick
<1>5. \A x \in Admitted(Window)' : Found(x)'
  BY <1>3, RecentKept DEF Tick, memory, redis
<1>6. Remembered'
  BY <1>5 DEF Remembered, Found
<1> QED
  BY <1>1, <1>2, <1>4, <1>6 DEF GrantsInv

LEMMA ExpireKeeps ==
    ASSUME GrantsInv, Expire
    PROVE  GrantsInv'
<1>1. TypeOK' /\ TablesBounded'
  BY DEF Expire, GrantsInv, TypeOK, TablesBounded, memory, requests
<1>2. Addressed'
  BY DEF Expire, GrantsInv, TypeOK, Addressed, requests
<1>3. \A x \in Admitted(Window)' :
        x \in Admitted(Window) /\ from'[x] = from[x] /\ to'[x] = to[x]
  BY DEF Expire, Admitted, requests
<1>4. WithinLimits'
  BY <1>3, NothingGranted DEF Expire
<1>5. \A x \in Admitted(Window) :
        /\ \A s \in Sources : /\ x \in zFailures[s] => x \in zFailures'[s]
                              /\ x \in zSource[s] => x \in zSource'[s]
        /\ \A p \in Pairs : x \in zPair[p] => x \in zPair'[p]
  BY TimeAssumption DEF Expire, Outdated, Admitted, GrantsInv, TypeOK
<1>6. \A x \in Admitted(Window)' : Found(x)'
  BY <1>3, <1>5, RecentKept DEF Expire, memory
<1>7. Remembered'
  BY <1>6 DEF Remembered, Found
<1> QED
  BY <1>1, <1>2, <1>4, <1>7 DEF GrantsInv

(***************************************************************************)
(* The decisions.                                                          *)
(***************************************************************************)
\* Whatever is decided of a request, the other grants stay as they are.
LEMMA DecideGrants ==
    ASSUME GrantsInv, NEW q \in Requests, verdict[q] = "waiting",
           NEW admit \in BOOLEAN, Decide(q, admit), UNCHANGED <<traffic, from, to, age>>
    PROVE  /\ Addressed' /\ q \notin Admitted(Window)
           /\ verdict' \in [Requests -> {"none", "waiting", "admitted", "refused"}]
           /\ \A x \in Admitted(Window)' : x \in Admitted(Window) \/ (admit /\ x = q)
           /\ \A x \in Admitted(Window) : x \in Requests /\ age[x] < Window /\ age[x] \in Nat
           /\ from[q] \in Sources /\ age[q] \in Nat
           /\ traffic = "webhook" => PairOf(q) \in Pairs
           /\ ~admit => WithinLimits'
<1>1. /\ q \notin Admitted(Window)
      /\ verdict' \in [Requests -> {"none", "waiting", "admitted", "refused"}]
      /\ \A x \in Admitted(Window)' : x \in Admitted(Window) \/ (admit /\ x = q)
      /\ \A x \in Admitted(Window) : x \in Requests /\ age[x] < Window /\ age[x] \in Nat
      /\ age[q] \in Nat
  BY DEF Decide, Admitted, GrantsInv, TypeOK
<1>2. Addressed' /\ from[q] \in Sources /\ (traffic = "webhook" => PairOf(q) \in Pairs)
  BY DEF Decide, GrantsInv, TypeOK, Addressed, PairOf, Pairs
<1>3. ~admit => WithinLimits'
  BY <1>1, NothingGranted
<1> QED
  BY <1>1, <1>2, <1>3

\* The grants of a source are in any of its buckets that has them.
LEMMA GrantsInBucket ==
    ASSUME NEW K, NEW t \in [K -> Buckets], NEW k \in K, NEW S, NEW n \in Nat, NEW q,
           S \subseteq Requests, \A x \in S : In(t, k, x), Len(Bucket(t, k)) < n
    PROVE  AtMost(S \cup {q}, n)
<1>1. AtMost({x \in Requests : In(t, k, x)}, Len(Bucket(t, k)))
      /\ Len(Bucket(t, k)) \in Nat
  BY BucketCounts
<1>2. n - 1 \in Nat /\ AtMost({x \in Requests : In(t, k, x)}, n - 1) /\ (n - 1) + 1 = n
  BY <1>1, FS_CardinalityType DEF AtMost
<1>3. AtMost(S, n - 1)
  BY <1>2, AtMostSubset
<1> QED
  BY <1>2, <1>3, AtMostAdd

LEMMA ConsumeInMemoryKeeps ==
    ASSUME GrantsInv, NEW q \in Requests, ConsumeInMemory(q)
    PROVE  GrantsInv'
<1> DEFINE s == from[q]
           table == Touched(failures, s, age[q])
           admit == ~Full(table, s, MaxFailureBuckets)
                      /\ ~(Len(Bucket(table, s)) >= MaxFailures)
<1>1. /\ verdict[q] = "waiting" /\ traffic = "operator" /\ backend = "memory"
      /\ failures' = IF admit THEN Put(table, s, q) ELSE table
      /\ Decide(q, admit)
      /\ UNCHANGED <<traffic, backend, from, to, age, bySource, byPair, redis>>
  BY DEF ConsumeInMemory
<1>2. admit \in BOOLEAN
  OBVIOUS
<1>3. /\ Addressed' /\ q \notin Admitted(Window)
      /\ verdict' \in [Requests -> {"none", "waiting", "admitted", "refused"}]
      /\ \A x \in Admitted(Window)' : x \in Admitted(Window) \/ (admit /\ x = q)
      /\ \A x \in Admitted(Window) : x \in Requests /\ Fresh(x, age[q])
      /\ s \in Sources
      /\ ~admit => WithinLimits'
  <2> HIDE DEF admit
  <2> QED
    BY <1>1, <1>2, DecideGrants, TimeAssumption DEF Fresh
<1>4. failures \in [Sources -> Buckets]
  BY DEF GrantsInv, TypeOK
<1>5. /\ table \in [Sources -> Buckets]
      /\ \A j \in Sources, x \in Admitted(Window) : In(failures, j, x) => In(table, j, x)
      /\ \A j \in Sources : table[j] # None => failures[j] # None
  BY <1>3, <1>4, TouchedTable
<1> HIDE DEF table
<1>6. /\ Put(table, s, q) \in [Sources -> Buckets] /\ In(Put(table, s, q), s, q)
      /\ \A j \in Sources : \A x : In(table, j, x) => In(Put(table, s, q), j, x)
      /\ \A j \in Sources : Put(table, s, q)[j] # None => table[j] # None \/ j = s
  BY <1>3, <1>5, PutTable
<1>7. TypeOK'
  BY <1>1, <1>3, <1>5, <1>6 DEF GrantsInv, TypeOK, redis
<1>8. WithinLimits'
  <2>1. CASE admit
    <3>1. \A x \in OfSource(s) : x \in Admitted(Window) /\ In(table, s, x)
      BY <1>1, <1>3, <1>5, GrantsFound DEF OfSource, Found
    <3>2. MaxFailures \in Nat /\ Len(Bucket(table, s)) < MaxFailures
      BY <1>3, <1>5, <2>1, BucketCounts, LimitAssumption
    <3>3. AtMost(OfSource(s) \cup {q}, MaxFailures)
      BY <1>3, <1>5, <3>1, <3>2, GrantsFinite, GrantsInBucket
    <3>4. verdict' = [verdict EXCEPT ![q] = "admitted"]
      BY <1>1, <2>1 DEF Decide
    <3> QED
      BY <1>1, <3>3, <3>4, OneGranted
  <2> QED
    BY <1>3, <2>1
<1>9. Remembered'
  <2>1. \A x \in Admitted(Window) : Found(x)'
    <3>1. \A j \in Sources, x \in Admitted(Window) :
              In(failures, j, x) => In(failures', j, x)
      BY <1>1, <1>5, <1>6
    <3> QED
      BY <1>1, <3>1, RecentKept DEF redis
  <2>2. admit => Found(q)'
    BY <1>1, <1>6 DEF Found, In
  <2> QED
    BY <1>3, <2>1, <2>2 DEF Remembered, Found
<1>10. TablesBounded'
  <2>1. /\ Size(failures) <= MaxFailureBuckets /\ Size(byPair)' <= MaxConnectionBuckets
        /\ MaxFailureBuckets \in Nat /\ IsFiniteSet(Sources)
    BY <1>1, LimitAssumption, FiniteAssumption DEF GrantsInv, TablesBounded, Size
  <2>2. Size(table) <= MaxFailureBuckets
        /\ (admit => Size(Put(table, s, q)) <= MaxFailureBuckets)
    BY <1>3, <1>4, <2>1, TableStep DEF table
  <2>3. Size(failures)' <= MaxFailureBuckets
    BY <1>1, <2>2 DEF Size
  <2> QED
    BY <2>1, <2>3 DEF TablesBounded
<1> QED
  BY <1>3, <1>7, <1>8, <1>9, <1>10 DEF GrantsInv

LEMMA AllowInMemoryKeeps ==
    ASSUME GrantsInv, NEW q \in Requests, AllowInMemory(q)
    PROVE  GrantsInv'
<1> DEFINE s == from[q]
           p == PairOf(q)
           found == Touched(bySource, s, age[q])
           sources == [found EXCEPT ![s] = Bucket(found, s)]
           pairs == Touched(byPair, p, age[q])
           sourceFull == Len(sources[s]) >= MaxSourceRequests
           tableFull == Full(pairs, p, MaxConnectionBuckets)
           pairFull == Len(Bucket(pairs, p)) >= MaxRequests
           admit == ~sourceFull /\ ~tableFull /\ ~pairFull
<1>1. /\ verdict[q] = "waiting" /\ traffic = "webhook" /\ backend = "memory"
      /\ bySource' = IF admit THEN Put(sources, s, q) ELSE sources
      /\ byPair' = IF sourceFull THEN byPair ELSE IF admit THEN Put(pairs, p, q)
                   ELSE pairs
      /\ Decide(q, admit)
      /\ UNCHANGED <<traffic, backend, from, to, age, failures, redis>>
  BY DEF AllowInMemory
<1>2. admit \in BOOLEAN
  OBVIOUS
<1>3. /\ Addressed' /\ q \notin Admitted(Window)
      /\ verdict' \in [Requests -> {"none", "waiting", "admitted", "refused"}]
      /\ \A x \in Admitted(Window)' : x \in Admitted(Window) \/ (admit /\ x = q)
      /\ \A x \in Admitted(Window) : x \in Requests /\ Fresh(x, age[q])
      /\ s \in Sources /\ p \in Pairs
      /\ ~admit => WithinLimits'
  <2> HIDE DEF admit
  <2> QED
    BY <1>1, <1>2, DecideGrants, TimeAssumption DEF Fresh
<1>4. bySource \in [Sources -> Buckets] /\ byPair \in [Pairs -> Buckets]
  BY DEF GrantsInv, TypeOK
<1>5. /\ sources \in [Sources -> Buckets] /\ sources[s] = Bucket(sources, s)
      /\ \A j \in Sources, x \in Admitted(Window) : In(bySource, j, x) => In(sources, j, x)
  <2>1. /\ found \in [Sources -> Buckets]
        /\ \A j \in Sources, x \in Admitted(Window) : In(bySource, j, x) => In(found, j, x)
    BY <1>3, <1>4, TouchedTable
  <2> HIDE DEF found
  <2>2. Bucket(found, s) \in Seq(Requests) /\ Bucket(found, s) # None
    <3>1. found[s] = None \/ found[s] \in Seq(Requests)
      BY <1>3, <2>1 DEF Buckets
    <3>2. Bucket(found, s) \in Seq(Requests)
      BY <3>1 DEF Bucket
    <3> QED
      BY <3>2, NoneAssumption
  <2> QED
    BY <1>3, <2>1, <2>2 DEF In, Bucket, Buckets
<1>6. /\ pairs \in [Pairs -> Buckets]
      /\ \A j \in Pairs, x \in Admitted(Window) : In(byPair, j, x) => In(pairs, j, x)
  BY <1>3, <1>4, TouchedTable
<1>7. /\ Size(pairs) <= MaxConnectionBuckets
      /\ ~tableFull => Size(Put(pairs, p, q)) <= MaxConnectionBuckets
  <2>1. Size(byPair) <= MaxConnectionBuckets /\ MaxConnectionBuckets \in Nat
        /\ IsFiniteSet(Pairs)
    BY LimitAssumption, FiniteAssumption, FS_Product DEF GrantsInv, TablesBounded, Pairs
  <2> QED
    BY <1>3, <1>4, <2>1, TableStep
<1> HIDE DEF sources, pairs
<1>8. /\ Put(sources, s, q) \in [Sources -> Buckets] /\ In(Put(sources, s, q), s, q)
      /\ \A j \in Sources : \A x : In(sources, j, x) => In(Put(sources, s, q), j, x)
      /\ Put(pairs, p, q) \in [Pairs -> Buckets] /\ In(Put(pairs, p, q), p, q)
      /\ \A j \in Pairs : \A x : In(pairs, j, x) => In(Put(pairs, p, q), j, x)
  BY <1>3, <1>5, <1>6, PutTable
<1>9. TypeOK'
  BY <1>1, <1>3, <1>4, <1>5, <1>6, <1>8 DEF GrantsInv, TypeOK, redis
<1>10. WithinLimits'
  <2>1. CASE admit
    <3>1. /\ \A x \in OfSource(s) : x \in Admitted(Window) /\ In(sources, s, x)
          /\ \A x \in OfPair(p) : x \in Admitted(Window) /\ In(pairs, p, x)
      BY <1>1, <1>3, <1>5, <1>6, GrantsFound DEF OfSource, OfPair, Found
    <3>2. /\ MaxSourceRequests \in Nat /\ Len(Bucket(sources, s)) < MaxSourceRequests
          /\ MaxRequests \in Nat /\ Len(Bucket(pairs, p)) < MaxRequests
      BY <1>3, <1>5, <1>6, <2>1, BucketCounts, LimitAssumption
    <3>3. AtMost(OfSource(s) \cup {q}, MaxSourceRequests)
      BY <1>3, <1>5, <3>1, <3>2, GrantsFinite, GrantsInBucket
    <3>4. AtMost(OfPair(p) \cup {q}, MaxRequests)
      BY <1>3, <1>6, <3>1, <3>2, GrantsFinite, GrantsInBucket
    <3>5. verdict' = [verdict EXCEPT ![q] = "admitted"]
      BY <1>1, <2>1 DEF Decide
    <3> QED
      BY <1>1, <3>3, <3>4, <3>5, OneGranted
  <2> QED
    BY <1>3, <2>1
<1>11. Remembered'
  <2>1. \A x \in Admitted(Window) : Found(x)'
    <3>1. /\ \A j \in Sources, x \in Admitted(Window) :
                In(bySource, j, x) => In(bySource', j, x)
          /\ \A j \in Pairs, x \in Admitted(Window) : In(byPair, j, x) => In(byPair', j, x)
      BY <1>1, <1>5, <1>6, <1>8
    <3> QED
      BY <1>1, <3>1, RecentKept DEF redis
  <2>2. admit => Found(q)'
    BY <1>1, <1>8 DEF Found, In, PairOf
  <2> QED
    BY <1>3, <2>1, <2>2 DEF Remembered, Found
<1>12. TablesBounded'
  BY <1>1, <1>7 DEF GrantsInv, TablesBounded, Size
<1> QED
  BY <1>3, <1>9, <1>10, <1>11, <1>12 DEF GrantsInv

LEMMA ConsumeInRedisKeeps ==
    ASSUME GrantsInv, NEW q \in Requests, ConsumeInRedis(q)
    PROVE  GrantsInv'
<1> DEFINE s == from[q]
           current == InWindow(zFailures[s], age[q])
           admit == Cardinality(current) < MaxFailures
<1>1. /\ verdict[q] = "waiting" /\ traffic = "operator" /\ backend = "redis"
      /\ zFailures' = [zFailures EXCEPT ![s] = IF admit THEN current \cup {q} ELSE current]
      /\ Decide(q, admit)
      /\ UNCHANGED <<traffic, backend, from, to, age, memory, zSource, zPair, zSeen>>
  BY DEF ConsumeInRedis
<1>2. admit \in BOOLEAN
  OBVIOUS
<1>3. /\ Addressed' /\ q \notin Admitted(Window)
      /\ verdict' \in [Requests -> {"none", "waiting", "admitted", "refused"}]
      /\ \A x \in Admitted(Window)' : x \in Admitted(Window) \/ (admit /\ x = q)
      /\ \A x \in Admitted(Window) : x \in Requests /\ Fresh(x, age[q])
      /\ s \in Sources
      /\ ~admit => WithinLimits'
  <2> HIDE DEF admit
  <2> QED
    BY <1>1, <1>2, DecideGrants, TimeAssumption DEF Fresh
<1>4. zFailures \in [Sources -> SUBSET Requests] /\ current \subseteq Requests
  BY <1>3 DEF GrantsInv, TypeOK, InWindow
<1>5. \A x \in OfSource(s) : x \in current
  BY <1>1, <1>3, GrantsFound DEF OfSource, Found, InWindow
<1>6. \A j \in Sources, x \in Admitted(Window) : x \in zFailures[j] => x \in zFailures'[j]
  BY <1>1, <1>3, <1>4 DEF InWindow
<1> HIDE DEF current
<1>7. TypeOK'
  BY <1>1, <1>3, <1>4 DEF GrantsInv, TypeOK, memory
<1>8. WithinLimits'
  <2>1. CASE admit
    <3>1. AtMost(current, MaxFailures - 1) /\ MaxFailures \in Nat /\ MaxFailures - 1 \in Nat
      BY <1>4, <2>1, FiniteAssumption, LimitAssumption, FS_Subset, FS_CardinalityType
      DEF AtMost
    <3>2. AtMost(current \cup {q}, (MaxFailures - 1) + 1)
      BY <3>1, AtMostAdd
    <3>3. AtMost(OfSource(s) \cup {q}, MaxFailures)
      BY <1>5, <3>1, <3>2, AtMostSubset
    <3>4. verdict' = [verdict EXCEPT ![q] = "admitted"]
      BY <1>1, <2>1 DEF Decide
    <3> QED
      BY <1>1, <3>3, <3>4, OneGranted
  <2> QED
    BY <1>3, <2>1
<1>9. Remembered'
  <2>1. \A x \in Admitted(Window) : Found(x)'
    BY <1>1, <1>6, RecentKept DEF memory
  <2>2. admit => Found(q)'
    BY <1>1, <1>3, <1>4 DEF Found
  <2> QED
    BY <1>3, <2>1, <2>2 DEF Remembered, Found
<1>10. TablesBounded'
  BY <1>1 DEF GrantsInv, TablesBounded, memory, Size
<1> QED
  BY <1>3, <1>7, <1>8, <1>9, <1>10 DEF GrantsInv

LEMMA AllowInRedisKeeps ==
    ASSUME GrantsInv, NEW q \in Requests, AllowInRedis(q)
    PROVE  GrantsInv'
<1> DEFINE s == from[q]
           p == PairOf(q)
           ofSource == InWindow(zSource[s], age[q]) \cup {q}
           ofPair == InWindow(zPair[p], age[q]) \cup {q}
           stale(o) == o[1] = s /\ zSeen[o] # None /\ ~Fresh(zSeen[o], age[q])
           seen == [o \in Pairs |-> IF o = p THEN q
                                    ELSE IF stale(o) THEN None ELSE zSeen[o]]
           asked == Cardinality({o \in Pairs : o[1] = s /\ seen[o] # None})
           admit == /\ Cardinality(ofSource) <= MaxSourceRequests
                    /\ asked <= MaxConnectionBuckets
                    /\ Cardinality(ofPair) <= MaxRequests
<1>1. /\ verdict[q] = "waiting" /\ traffic = "webhook" /\ backend = "redis"
      /\ zSource' = [zSource EXCEPT ![s] = ofSource]
      /\ zPair' = [zPair EXCEPT ![p] = ofPair]
      /\ zSeen' = seen
      /\ Decide(q, admit)
      /\ UNCHANGED <<traffic, backend, from, to, age, memory, zFailures>>
  BY DEF AllowInRedis
<1>2. admit \in BOOLEAN
  OBVIOUS
<1>3. seen \in [Pairs -> Requests \cup {None}]
  BY DEF GrantsInv, TypeOK
<1> HIDE DEF seen, asked
<1>4. /\ Addressed' /\ q \notin Admitted(Window)
      /\ verdict' \in [Requests -> {"none", "waiting", "admitted", "refused"}]
      /\ \A x \in Admitted(Window)' : x \in Admitted(Window) \/ (admit /\ x = q)
      /\ \A x \in Admitted(Window) : x \in Requests /\ Fresh(x, age[q])
      /\ s \in Sources /\ p \in Pairs
      /\ ~admit => WithinLimits'
  <2> HIDE DEF admit
  <2> QED
    BY <1>1, <1>2, DecideGrants, TimeAssumption DEF Fresh
<1>5. /\ zSource \in [Sources -> SUBSET Requests] /\ zPair \in [Pairs -> SUBSET Requests]
      /\ ofSource \subseteq Requests /\ ofPair \subseteq Requests
  BY <1>4 DEF GrantsInv, TypeOK, InWindow
<1>6. OfSource(s) \cup {q} \subseteq ofSource /\ OfPair(p) \cup {q} \subseteq ofPair
  BY <1>1, <1>4, GrantsFound DEF OfSource, OfPair, Found, InWindow
<1>7. /\ \A j \in Sources, x \in Admitted(Window) : x \in zSource[j] => x \in zSource'[j]
      /\ \A j \in Pairs, x \in Admitted(Window) : x \in zPair[j] => x \in zPair'[j]
  BY <1>1, <1>4, <1>5 DEF InWindow
<1>8. q \in ofSource /\ q \in ofPair
  OBVIOUS
<1> HIDE DEF ofSource, ofPair
<1>9. TypeOK'
  BY <1>1, <1>3, <1>4, <1>5 DEF GrantsInv, TypeOK, memory
<1>10. WithinLimits'
  <2>1. CASE admit
    <3>1. AtMost(ofSource, MaxSourceRequests) /\ AtMost(ofPair, MaxRequests)
      BY <1>5, <2>1, FiniteAssumption, FS_Subset DEF AtMost
    <3>2. /\ AtMost(OfSource(s) \cup {q}, MaxSourceRequests)
          /\ AtMost(OfPair(p) \cup {q}, MaxRequests)
      BY <1>6, <3>1, LimitAssumption, AtMostSubset
    <3>3. verdict' = [verdict EXCEPT ![q] = "admitted"]
      BY <1>1, <2>1 DEF Decide
    <3> QED
      BY <1>1, <3>2, <3>3, OneGranted
  <2> QED
    BY <1>4, <2>1
<1>11. Remembered'
  <2>1. \A x \in Admitted(Window) : Found(x)'
    BY <1>1, <1>7, RecentKept DEF memory
  <2>2. admit => Found(q)'
    BY <1>1, <1>4, <1>5, <1>8 DEF Found, PairOf
  <2> QED
    BY <1>4, <2>1, <2>2 DEF Remembered, Found
<1>12. TablesBounded'
  BY <1>1 DEF GrantsInv, TablesBounded, memory, Size
<1> QED
  BY <1>4, <1>9, <1>10, <1>11, <1>12 DEF GrantsInv

(***************************************************************************)
(* What is counted has been granted.                                       *)
(***************************************************************************)
\* Tables that keep their order and get no entries keep what they say, while no request
\* that they hold is forgotten.
LEMMA CountsKept ==
    ASSUME GrantsInv, CountsInv,
           \A x \in Requests : age'[x] <= Old /\ (verdict'[x] = "waiting" => age'[x] <= Lag),
           InOrder(bySource)', InOrder(byPair)', InOrder(failures)',
           \A x \in Requests :
               /\ \A s \in Sources :
                   /\ In(bySource', s, x) => In(bySource, s, x)
                   /\ In(failures', s, x) => In(failures, s, x)
                   /\ x \in zFailures'[s] => x \in zFailures[s]
                   /\ x \in zSource'[s] => x \in zSource[s]
               /\ \A p \in Pairs :
                   /\ In(byPair', p, x) => In(byPair, p, x)
                   /\ x \in zPair'[p] => x \in zPair[p]
                   /\ zSeen'[p] = x => zSeen[p] = x,
           \A x \in Requests : Decided(x) /\ Referred(x) =>
               verdict'[x] = verdict[x] /\ from'[x] = from[x] /\ to'[x] = to[x]
    PROVE  CountsInv'
<1>1. ASSUME NEW x \in Requests, NEW s \in Sources,
             In(bySource', s, x) \/ In(failures', s, x) \/ x \in zFailures'[s]
      PROVE  Granted(x)' /\ from'[x] = s
  <2>1. In(bySource, s, x) \/ In(failures, s, x) \/ x \in zFailures[s]
    BY <1>1
  <2>2. Granted(x) /\ from[x] = s
    BY <2>1 DEF CountsInv
  <2>3. Referred(x)
    BY <2>1 DEF Referred, GrantsInv, TypeOK
  <2> QED
    BY <2>2, <2>3 DEF Granted, Decided
<1>2. ASSUME NEW x \in Requests, NEW s \in Sources, x \in zSource'[s]
      PROVE  Decided(x)' /\ from'[x] = s
  <2>1. x \in zSource[s] /\ Decided(x) /\ from[x] = s
    BY <1>2 DEF CountsInv
  <2>2. Referred(x)
    BY <2>1 DEF Referred, GrantsInv, TypeOK
  <2> QED
    BY <2>1, <2>2 DEF Decided
<1>3. ASSUME NEW x \in Requests, NEW p \in Pairs, In(byPair', p, x)
      PROVE  Granted(x)' /\ PairOf(x)' = p
  <2>1. In(byPair, p, x) /\ Granted(x) /\ PairOf(x) = p
    BY <1>3 DEF CountsInv
  <2>2. Referred(x)
    BY <2>1 DEF Referred, GrantsInv, TypeOK
  <2> QED
    BY <2>1, <2>2 DEF Granted, Decided, PairOf
<1>4. ASSUME NEW x \in Requests, NEW p \in Pairs, x \in zPair'[p] \/ zSeen'[p] = x
      PROVE  Decided(x)' /\ PairOf(x)' = p
  <2>1. (x \in zPair[p] \/ zSeen[p] = x) /\ Decided(x) /\ PairOf(x) = p
    BY <1>4 DEF CountsInv
  <2>2. Referred(x)
    BY <2>1 DEF Referred, GrantsInv, TypeOK
  <2> QED
    BY <2>1, <2>2 DEF Decided, PairOf
<1> QED
  BY <1>1, <1>2, <1>3, <1>4 DEF CountsInv, In

\* A decision changes no age and takes no earlier decision back.
LEMMA DecideCounts ==
    ASSUME GrantsInv, CountsInv, NEW q \in Requests, verdict[q] = "waiting",
           NEW admit \in BOOLEAN, Decide(q, admit), UNCHANGED <<from, to, age>>
    PROVE  /\ \A x \in Requests :
                  age'[x] <= Old /\ (verdict'[x] = "waiting" => age'[x] <= Lag)
           /\ \A x \in Requests :
                  /\ Granted(x) => Granted(x)'
                  /\ Decided(x) => Decided(x)'
                  /\ PairOf(x)' = PairOf(x)
           /\ Decided(q)' /\ (admit => Granted(q)')
           /\ ~Granted(q) /\ ~Decided(q) /\ age[q] <= Lag /\ age[q] \in 0..Lag
BY TimeAssumption DEF GrantsInv, TypeOK, CountsInv, Decide, Granted, Decided, PairOf

LEMMA ArriveCounts ==
    ASSUME GrantsInv, CountsInv, NEW q \in Requests, NEW s \in Sources,
           NEW c \in Connections \cup {None}, Arrive(q, s, c)
    PROVE  CountsInv'
<1>1. /\ verdict[q] = "none" /\ verdict' = [verdict EXCEPT ![q] = "waiting"]
      /\ from' = [from EXCEPT ![q] = s] /\ to' = [to EXCEPT ![q] = c]
      /\ age' = [age EXCEPT ![q] = 0] /\ UNCHANGED <<memory, redis>>
  BY DEF Arrive
<1>2. TypeOK
  BY DEF GrantsInv
<1>3. \A x \in Requests : age'[x] <= Old /\ (verdict'[x] = "waiting" => age'[x] <= Lag)
  BY <1>1, <1>2, TimeAssumption DEF CountsInv, TypeOK, Old
<1>4. ~Decided(q) /\ ~Granted(q)
  BY <1>1 DEF Decided, Granted
<1>5. ASSUME NEW K, NEW t \in [K -> Buckets], InOrder(t),
             \A k \in K : ~In(t, k, q)
      PROVE  \A k \in DOMAIN t : t[k] # None =>
                 \A i, j \in 1..Len(t[k]) : i < j =>
                     t[k][i] # t[k][j] /\ age'[t[k][j]] <= age'[t[k][i]] + Lag
  <2> SUFFICES ASSUME NEW k \in K, t[k] # None, NEW i \in 1..Len(t[k]),
                      NEW j \in 1..Len(t[k]), i < j
               PROVE  t[k][i] # t[k][j] /\ age'[t[k][j]] <= age'[t[k][i]] + Lag
    BY <1>5
  <2>1. t[k] \in Seq(Requests)
    BY <1>5 DEF Buckets
  <2>2. t[k][i] \in Requests \ {q} /\ t[k][j] \in Requests \ {q}
    BY <1>5, <2>1 DEF In
  <2>3. age'[t[k][i]] = age[t[k][i]] /\ age'[t[k][j]] = age[t[k][j]]
    BY <1>1, <1>2, <2>2 DEF TypeOK
  <2> QED
    BY <1>5, <2>3 DEF InOrder
<1>6. InOrder(bySource)' /\ InOrder(byPair)' /\ InOrder(failures)'
  <2>1. /\ \A k \in Sources : ~In(bySource, k, q) /\ ~In(failures, k, q)
        /\ \A k \in Pairs : ~In(byPair, k, q)
    BY <1>4 DEF CountsInv
  <2>2. /\ InOrder(bySource) /\ InOrder(byPair) /\ InOrder(failures)
        /\ bySource \in [Sources -> Buckets] /\ failures \in [Sources -> Buckets]
        /\ byPair \in [Pairs -> Buckets]
    BY <1>2 DEF CountsInv, TypeOK
  <2>3. /\ bySource' = bySource /\ byPair' = byPair /\ failures' = failures
    BY <1>1 DEF memory
  <2>4. InOrder(bySource)'
    BY <1>5, <2>1, <2>2, <2>3 DEF InOrder
  <2>5. InOrder(byPair)'
    BY <1>5, <2>1, <2>2, <2>3 DEF InOrder
  <2>6. InOrder(failures)'
    BY <1>5, <2>1, <2>2, <2>3 DEF InOrder
  <2> QED
    BY <2>4, <2>5, <2>6
<1>7. \A x \in Requests : Decided(x) /\ Referred(x) =>
          verdict'[x] = verdict[x] /\ from'[x] = from[x] /\ to'[x] = to[x]
  BY <1>1, <1>2, <1>4 DEF TypeOK
<1> QED
  BY <1>1, <1>3, <1>6, <1>7, CountsKept DEF memory, redis

LEMMA TickCounts ==
    ASSUME GrantsInv, CountsInv, Tick
    PROVE  CountsInv'
<1>1. /\ \A x \in Requests : verdict[x] = "waiting" => age[x] < Lag
      /\ verdict' = [x \in Requests |-> IF Forgotten(x) THEN "none" ELSE verdict[x]]
      /\ from' = [x \in Requests |-> IF Forgotten(x) THEN None ELSE from[x]]
      /\ to' = [x \in Requests |-> IF Forgotten(x) THEN None ELSE to[x]]
      /\ age' = [x \in Requests |->
                  IF verdict[x] = "none" \/ Forgotten(x) THEN 0
                  ELSE IF age[x] = Old THEN Old ELSE age[x] + 1]
      /\ UNCHANGED <<memory, redis>>
  BY DEF Tick
<1>2. TypeOK /\ Old \in Nat /\ Lag \in Nat /\ Window \in Nat /\ Lag <= Old
  BY TimeAssumption DEF GrantsInv, Old
<1>3. \A x \in Requests : age'[x] <= Old /\ (verdict'[x] = "waiting" => age'[x] <= Lag)
  <2> SUFFICES ASSUME NEW x \in Requests
               PROVE  age'[x] <= Old /\ (verdict'[x] = "waiting" => age'[x] <= Lag)
    OBVIOUS
  <2>1. age[x] <= Old /\ age[x] \in Nat
    BY <1>2 DEF CountsInv, TypeOK
  <2>2. age'[x] = IF verdict[x] = "none" \/ Forgotten(x) THEN 0
                  ELSE IF age[x] = Old THEN Old ELSE age[x] + 1
    BY <1>1
  <2>3. verdict'[x] = "waiting" => verdict[x] = "waiting" /\ age[x] < Lag
    BY <1>1 DEF Forgotten
  <2> QED
    BY <1>2, <2>1, <2>2, <2>3
<1>4. ASSUME NEW x \in Requests, Decided(x), Referred(x)
      PROVE  /\ verdict'[x] = verdict[x] /\ from'[x] = from[x] /\ to'[x] = to[x]
             /\ age'[x] = IF age[x] = Old THEN Old ELSE age[x] + 1
             /\ age[x] \in Nat /\ age[x] <= Old
  BY <1>1, <1>2, <1>4 DEF Forgotten, Decided, CountsInv, TypeOK
<1>5. ASSUME NEW K, NEW t \in [K -> Buckets], InOrder(t),
             \A k \in K : \A x \in Requests : In(t, k, x) => Decided(x) /\ Referred(x)
      PROVE  \A k \in DOMAIN t : t[k] # None =>
                 \A i, j \in 1..Len(t[k]) : i < j =>
                     t[k][i] # t[k][j] /\ age'[t[k][j]] <= age'[t[k][i]] + Lag
  <2> SUFFICES ASSUME NEW k \in K, t[k] # None, NEW i \in 1..Len(t[k]),
                      NEW j \in 1..Len(t[k]), i < j
               PROVE  t[k][i] # t[k][j] /\ age'[t[k][j]] <= age'[t[k][i]] + Lag
    BY <1>5
  <2>1. t[k] \in Seq(Requests)
    BY <1>5 DEF Buckets
  <2>2. t[k][i] \in Requests /\ t[k][j] \in Requests
        /\ In(t, k, t[k][i]) /\ In(t, k, t[k][j])
    BY <2>1 DEF In
  <2> DEFINE a == t[k][i]
             b == t[k][j]
  <2>3. /\ age'[a] = IF age[a] = Old THEN Old ELSE age[a] + 1
        /\ age'[b] = IF age[b] = Old THEN Old ELSE age[b] + 1
        /\ age[a] \in Nat /\ age[b] \in Nat /\ age[a] <= Old /\ age[b] <= Old
    BY <1>4, <1>5, <2>2
  <2>4. a # b /\ age[b] <= age[a] + Lag
    BY <1>5 DEF InOrder
  <2>5. age'[b] <= age'[a] + Lag
    <3> HIDE DEF a, b
    <3> QED
      BY <1>2, <2>3, <2>4
  <2> QED
    BY <2>4, <2>5
<1>6. InOrder(bySource)' /\ InOrder(byPair)' /\ InOrder(failures)'
  <2>1. /\ bySource \in [Sources -> Buckets] /\ failures \in [Sources -> Buckets]
        /\ byPair \in [Pairs -> Buckets]
    BY <1>2 DEF TypeOK
  <2>2. /\ \A k \in Sources : \A x \in Requests :
              In(bySource, k, x) \/ In(failures, k, x) => Decided(x) /\ Referred(x)
        /\ \A k \in Pairs : \A x \in Requests : In(byPair, k, x) => Decided(x) /\ Referred(x)
    BY <2>1 DEF CountsInv, Granted, Decided, Referred
  <2>3. /\ bySource' = bySource /\ byPair' = byPair /\ failures' = failures
    BY <1>1 DEF memory
  <2>4. InOrder(bySource) /\ InOrder(byPair) /\ InOrder(failures)
    BY DEF CountsInv
  <2>5. InOrder(bySource)'
    BY <1>5, <2>1, <2>2, <2>3, <2>4 DEF InOrder
  <2>6. InOrder(byPair)'
    BY <1>5, <2>1, <2>2, <2>3, <2>4 DEF InOrder
  <2>7. InOrder(failures)'
    BY <1>5, <2>1, <2>2, <2>3, <2>4 DEF InOrder
  <2> QED
    BY <2>5, <2>6, <2>7
<1> QED
  BY <1>1, <1>3, <1>4, <1>6, CountsKept DEF memory, redis

LEMMA ExpireCounts ==
    ASSUME GrantsInv, CountsInv, Expire
    PROVE  CountsInv'
<1>1. UNCHANGED <<requests, memory>>
  BY DEF Expire
<1>2. \A x \in Requests :
        /\ \A s \in Sources : /\ x \in zFailures'[s] => x \in zFailures[s]
                              /\ x \in zSource'[s] => x \in zSource[s]
        /\ \A p \in Pairs : /\ x \in zPair'[p] => x \in zPair[p]
                            /\ zSeen'[p] = x => zSeen[p] = x
  BY NoneAssumption DEF Expire, GrantsInv, TypeOK
<1>3. InOrder(bySource)' /\ InOrder(byPair)' /\ InOrder(failures)'
      /\ \A x \in Requests : age'[x] <= Old /\ (verdict'[x] = "waiting" => age'[x] <= Lag)
  BY <1>1 DEF CountsInv, InOrder, requests, memory
<1> QED
  BY <1>1, <1>2, <1>3, CountsKept DEF requests, memory

\* The order of a table is that of its entries' ages, which a decision leaves alone.
LEMMA OrderKept ==
    ASSUME age' = age, NEW t, NEW u, InOrder(t), u = t
    PROVE  \A k \in DOMAIN u : u[k] # None =>
               \A i, j \in 1..Len(u[k]) : i < j =>
                   u[k][i] # u[k][j] /\ age'[u[k][j]] <= age'[u[k][i]] + Lag
BY DEF InOrder

LEMMA ConsumeInMemoryCounts ==
    ASSUME GrantsInv, CountsInv, NEW q \in Requests, ConsumeInMemory(q)
    PROVE  CountsInv'
<1> DEFINE s == from[q]
           table == Touched(failures, s, age[q])
           tableFull == Full(table, s, MaxFailureBuckets)
           spent == Len(Bucket(table, s)) >= MaxFailures
           admit == ~tableFull /\ ~spent
<1>1. /\ verdict[q] = "waiting" /\ traffic = "operator"
      /\ failures' = IF admit THEN Put(table, s, q) ELSE table
      /\ Decide(q, admit)
      /\ UNCHANGED <<from, to, age, bySource, byPair, redis>>
  BY DEF ConsumeInMemory
<1>2. admit \in BOOLEAN
  OBVIOUS
<1> HIDE DEF admit
<1>3. /\ \A x \in Requests :
            age'[x] <= Old /\ (verdict'[x] = "waiting" => age'[x] <= Lag)
      /\ \A x \in Requests :
            /\ Granted(x) => Granted(x)'
            /\ Decided(x) => Decided(x)'
            /\ PairOf(x)' = PairOf(x)
      /\ Decided(q)' /\ (admit => Granted(q)')
      /\ ~Granted(q) /\ ~Decided(q) /\ age[q] <= Lag /\ age[q] \in 0..Lag
  BY <1>1, <1>2, DecideCounts
<1>4. TypeOK /\ failures \in [Sources -> Buckets] /\ s \in Sources /\ InOrder(failures)
  BY <1>1 DEF GrantsInv, TypeOK, Addressed, CountsInv
<1>5. /\ InOrder(table) /\ table \in [Sources -> Buckets]
      /\ \A j \in Sources : \A x : In(table, j, x) => In(failures, j, x) /\ x \in Requests
  BY <1>3, <1>4, TouchedOrder, TouchedTable
<1>6. \A j \in Sources : \A x \in Requests : In(failures, j, x) => Granted(x) /\ from[x] = j
  BY DEF CountsInv
<1> HIDE DEF table
<1>7. /\ InOrder(Put(table, s, q))
      /\ \A j \in Sources : \A x : In(Put(table, s, q), j, x) =>
            In(table, j, x) \/ (j = s /\ x = q)
  BY <1>3, <1>4, <1>5, <1>6, PutOrder
<1>8. InOrder(failures)' /\ InOrder(bySource)' /\ InOrder(byPair)'
  <2>1. InOrder(failures') /\ InOrder(bySource) /\ InOrder(byPair)
    BY <1>1, <1>5, <1>7 DEF CountsInv
  <2>2. age' = age /\ bySource' = bySource /\ byPair' = byPair
    BY <1>1
  <2> QED
    BY <2>1, <2>2, OrderKept DEF InOrder
<1>9. \A j \in Sources : \A x \in Requests :
        In(failures', j, x) => Granted(x)' /\ from'[x] = j
  BY <1>1, <1>3, <1>5, <1>6, <1>7
<1>10. CountsInv'
  BY <1>1, <1>3, <1>8, <1>9 DEF CountsInv, In, redis
<1> QED
  BY <1>10

LEMMA AllowInMemoryCounts ==
    ASSUME GrantsInv, CountsInv, NEW q \in Requests, AllowInMemory(q)
    PROVE  CountsInv'
<1> DEFINE s == from[q]
           p == PairOf(q)
           found == Touched(bySource, s, age[q])
           sources == [found EXCEPT ![s] = Bucket(found, s)]
           pairs == Touched(byPair, p, age[q])
           sourceFull == Len(sources[s]) >= MaxSourceRequests
           tableFull == Full(pairs, p, MaxConnectionBuckets)
           pairFull == Len(Bucket(pairs, p)) >= MaxRequests
           admit == ~sourceFull /\ ~tableFull /\ ~pairFull
<1>1. /\ verdict[q] = "waiting" /\ traffic = "webhook"
      /\ bySource' = IF admit THEN Put(sources, s, q) ELSE sources
      /\ byPair' = IF sourceFull THEN byPair ELSE IF admit THEN Put(pairs, p, q)
                   ELSE pairs
      /\ Decide(q, admit)
      /\ UNCHANGED <<from, to, age, failures, redis>>
  BY DEF AllowInMemory
<1>2. admit \in BOOLEAN
  OBVIOUS
<1> HIDE DEF admit, sourceFull
<1>3. /\ \A x \in Requests :
            age'[x] <= Old /\ (verdict'[x] = "waiting" => age'[x] <= Lag)
      /\ \A x \in Requests :
            /\ Granted(x) => Granted(x)'
            /\ Decided(x) => Decided(x)'
            /\ PairOf(x)' = PairOf(x)
      /\ Decided(q)' /\ (admit => Granted(q)')
      /\ ~Granted(q) /\ ~Decided(q) /\ age[q] <= Lag /\ age[q] \in 0..Lag
  BY <1>1, <1>2, DecideCounts
<1>4. /\ TypeOK /\ bySource \in [Sources -> Buckets] /\ byPair \in [Pairs -> Buckets]
      /\ s \in Sources /\ p \in Pairs /\ InOrder(bySource) /\ InOrder(byPair)
  BY <1>1 DEF GrantsInv, TypeOK, Addressed, CountsInv, PairOf, Pairs
<1>5. /\ InOrder(sources) /\ sources \in [Sources -> Buckets]
      /\ \A j \in Sources : \A x : In(sources, j, x) => In(bySource, j, x) /\ x \in Requests
  <2>1. /\ InOrder(found) /\ found \in [Sources -> Buckets]
        /\ \A j \in Sources : \A x : In(found, j, x) => In(bySource, j, x) /\ x \in Requests
    BY <1>3, <1>4, TouchedOrder, TouchedTable
  <2> HIDE DEF found
  <2>2. CASE found[s] # None
    <3>1. sources = found
      BY <1>4, <2>1, <2>2 DEF Bucket
    <3> QED
      BY <2>1, <3>1
  <2>3. CASE found[s] = None
    <3>1. /\ sources \in [Sources -> Buckets] /\ sources[s] = <<>> /\ Len(sources[s]) = 0
          /\ \A j \in Sources \ {s} : sources[j] = found[j]
      BY <1>4, <2>1, <2>3 DEF Bucket, Buckets
    <3> HIDE DEF sources
    <3>2. InOrder(sources)
      <4> SUFFICES ASSUME NEW k \in Sources, sources[k] # None, NEW i \in 1..Len(sources[k]),
                          NEW j \in 1..Len(sources[k]), i < j
                   PROVE  /\ sources[k][i] # sources[k][j]
                          /\ age[sources[k][j]] <= age[sources[k][i]] + Lag
        BY <3>1 DEF InOrder
      <4>1. k # s
        BY <3>1
      <4> QED
        BY <2>1, <3>1, <4>1 DEF InOrder
    <3>3. \A j \in Sources : \A x : In(sources, j, x) => In(found, j, x)
      BY <3>1 DEF In
    <3> QED
      BY <2>1, <3>1, <3>2, <3>3
  <2> QED
    BY <2>2, <2>3
<1>6. /\ InOrder(pairs) /\ pairs \in [Pairs -> Buckets]
      /\ \A j \in Pairs : \A x : In(pairs, j, x) => In(byPair, j, x) /\ x \in Requests
  BY <1>3, <1>4, TouchedOrder, TouchedTable
<1>7. /\ \A j \in Sources : \A x \in Requests : In(bySource, j, x) => Granted(x) /\ from[x] = j
      /\ \A j \in Pairs : \A x \in Requests : In(byPair, j, x) => Granted(x) /\ PairOf(x) = j
  BY DEF CountsInv
<1> HIDE DEF sources, pairs
<1>8. /\ InOrder(Put(sources, s, q))
      /\ \A j \in Sources : \A x : In(Put(sources, s, q), j, x) =>
            In(sources, j, x) \/ (j = s /\ x = q)
  BY <1>3, <1>4, <1>5, <1>7, PutOrder
<1>9. /\ InOrder(Put(pairs, p, q))
      /\ \A j \in Pairs : \A x : In(Put(pairs, p, q), j, x) =>
            In(pairs, j, x) \/ (j = p /\ x = q)
  BY <1>3, <1>4, <1>6, <1>7, PutOrder
<1>10. InOrder(failures)' /\ InOrder(bySource)' /\ InOrder(byPair)'
  <2>1. InOrder(failures) /\ InOrder(bySource') /\ InOrder(byPair')
    BY <1>1, <1>4, <1>5, <1>6, <1>8, <1>9 DEF CountsInv
  <2>2. age' = age /\ failures' = failures
    BY <1>1
  <2> QED
    BY <2>1, <2>2, OrderKept DEF InOrder
<1>11. \A j \in Sources : \A x \in Requests :
        In(bySource', j, x) => Granted(x)' /\ from'[x] = j
  BY <1>1, <1>3, <1>5, <1>7, <1>8
<1>12. \A j \in Pairs : \A x \in Requests :
        In(byPair', j, x) => Granted(x)' /\ PairOf(x)' = j
  BY <1>1, <1>3, <1>6, <1>7, <1>9
<1> QED
  BY <1>1, <1>3, <1>10, <1>11, <1>12 DEF CountsInv, In, redis

LEMMA ConsumeInRedisCounts ==
    ASSUME GrantsInv, CountsInv, NEW q \in Requests, ConsumeInRedis(q)
    PROVE  CountsInv'
<1> DEFINE s == from[q]
           current == InWindow(zFailures[s], age[q])
           admit == Cardinality(current) < MaxFailures
<1>1. /\ verdict[q] = "waiting"
      /\ zFailures' = [zFailures EXCEPT ![s] = IF admit THEN current \cup {q} ELSE current]
      /\ Decide(q, admit)
      /\ UNCHANGED <<from, to, age, memory, zSource, zPair, zSeen>>
  BY DEF ConsumeInRedis
<1>2. admit \in BOOLEAN
  OBVIOUS
<1> HIDE DEF admit
<1>3. /\ \A x \in Requests :
            age'[x] <= Old /\ (verdict'[x] = "waiting" => age'[x] <= Lag)
      /\ \A x \in Requests :
            /\ Granted(x) => Granted(x)'
            /\ Decided(x) => Decided(x)'
            /\ PairOf(x)' = PairOf(x)
      /\ Decided(q)' /\ (admit => Granted(q)')
      /\ ~Granted(q) /\ ~Decided(q) /\ age[q] <= Lag /\ age[q] \in 0..Lag
  BY <1>1, <1>2, DecideCounts
<1>4. /\ zFailures \in [Sources -> SUBSET Requests]
      /\ \A j \in Sources : zFailures'[j] \subseteq
            zFailures[j] \cup (IF j = s /\ admit THEN {q} ELSE {})
  BY <1>1 DEF GrantsInv, TypeOK, InWindow
<1>5. \A j \in Sources : \A x \in Requests :
        x \in zFailures'[j] => Granted(x)' /\ from'[x] = j
  BY <1>1, <1>3, <1>4 DEF CountsInv
<1>6. InOrder(failures)' /\ InOrder(bySource)' /\ InOrder(byPair)'
  BY <1>1 DEF CountsInv, InOrder, memory
<1> QED
  BY <1>1, <1>3, <1>5, <1>6 DEF CountsInv, In, memory

LEMMA AllowInRedisCounts ==
    ASSUME GrantsInv, CountsInv, NEW q \in Requests, AllowInRedis(q)
    PROVE  CountsInv'
<1> DEFINE s == from[q]
           p == PairOf(q)
           ofSource == InWindow(zSource[s], age[q]) \cup {q}
           ofPair == InWindow(zPair[p], age[q]) \cup {q}
           stale(o) == o[1] = s /\ zSeen[o] # None /\ ~Fresh(zSeen[o], age[q])
           seen == [o \in Pairs |-> IF o = p THEN q
                                    ELSE IF stale(o) THEN None ELSE zSeen[o]]
           asked == Cardinality({o \in Pairs : o[1] = s /\ seen[o] # None})
           admit == /\ Cardinality(ofSource) <= MaxSourceRequests
                    /\ asked <= MaxConnectionBuckets
                    /\ Cardinality(ofPair) <= MaxRequests
<1>1. /\ verdict[q] = "waiting"
      /\ zSource' = [zSource EXCEPT ![s] = ofSource]
      /\ zPair' = [zPair EXCEPT ![p] = ofPair]
      /\ zSeen' = seen
      /\ Decide(q, admit)
      /\ UNCHANGED <<from, to, age, memory, zFailures>>
  BY DEF AllowInRedis
<1>2. admit \in BOOLEAN
  OBVIOUS
<1>3. \A o \in Pairs : \A x \in Requests : seen[o] = x => zSeen[o] = x \/ (o = p /\ x = q)
  BY NoneAssumption
<1> HIDE DEF admit, seen
<1>4. /\ \A x \in Requests :
            age'[x] <= Old /\ (verdict'[x] = "waiting" => age'[x] <= Lag)
      /\ \A x \in Requests :
            /\ Granted(x) => Granted(x)'
            /\ Decided(x) => Decided(x)'
            /\ PairOf(x)' = PairOf(x)
      /\ Decided(q)' /\ (admit => Granted(q)')
      /\ ~Granted(q) /\ ~Decided(q) /\ age[q] <= Lag /\ age[q] \in 0..Lag
  BY <1>1, <1>2, DecideCounts
<1>5. /\ zSource \in [Sources -> SUBSET Requests] /\ zPair \in [Pairs -> SUBSET Requests]
      /\ \A j \in Sources : \A x \in zSource'[j] : x \in zSource[j] \/ (j = s /\ x = q)
      /\ \A j \in Pairs : \A x \in zPair'[j] : x \in zPair[j] \/ (j = p /\ x = q)
  BY <1>1 DEF GrantsInv, TypeOK, InWindow
<1>6. \A j \in Sources : \A x \in Requests :
        x \in zSource'[j] => Decided(x)' /\ from'[x] = j
  BY <1>1, <1>4, <1>5 DEF CountsInv
<1>7. \A j \in Pairs : \A x \in Requests :
        x \in zPair'[j] \/ zSeen'[j] = x => Decided(x)' /\ PairOf(x)' = j
  BY <1>1, <1>3, <1>4, <1>5 DEF CountsInv
<1>8. InOrder(failures)' /\ InOrder(bySource)' /\ InOrder(byPair)'
  BY <1>1 DEF CountsInv, InOrder, memory
<1> QED
  BY <1>1, <1>4, <1>6, <1>7, <1>8 DEF CountsInv, In, memory

LEMMA CountsStep == GrantsInv /\ CountsInv /\ [Next]_vars => CountsInv'
<1> SUFFICES ASSUME GrantsInv, CountsInv, [Next]_vars PROVE CountsInv'
  OBVIOUS
<1>1. CASE UNCHANGED vars
  BY <1>1
  DEF vars, requests, memory, redis, CountsInv, InOrder, Granted, Decided, In, PairOf
<1> QED
  BY <1>1, ArriveCounts, TickCounts, ExpireCounts, AllowInMemoryCounts,
     ConsumeInMemoryCounts, AllowInRedisCounts, ConsumeInRedisCounts
  DEF Next

(***************************************************************************)
(* Why requests are refused.                                               *)
(***************************************************************************)
\* A bucket in order has as many requests as entries.
LEMMA BucketFills ==
    ASSUME NEW K, NEW t \in [K -> Buckets], NEW k \in K, InOrder(t),
           NEW S, IsFiniteSet(S), \A x : In(t, k, x) => x \in S
    PROVE  Cardinality(S) >= Len(Bucket(t, k)) /\ Len(Bucket(t, k)) \in Nat
<1> DEFINE b == Bucket(t, k)
           f == [i \in 1..Len(b) |-> b[i]]
<1>1. b \in Seq(Requests) /\ Len(b) \in Nat
  BY DEF Bucket, Buckets
<1>2. \A i \in 1..Len(b) : t[k] # None /\ b = t[k] /\ b[i] \in S
  BY <1>1 DEF Bucket, In
<1>3. \A i, j \in 1..Len(b) : b[i] = b[j] => i = j
  <2> SUFFICES ASSUME NEW i \in 1..Len(b), NEW j \in 1..Len(b), i # j
               PROVE  b[i] # b[j]
    OBVIOUS
  <2>1. i < j \/ j < i
    OBVIOUS
  <2>2. \A m, n \in 1..Len(b) : m < n => b[m] # b[n]
    BY <1>2 DEF InOrder
  <2> QED
    BY <2>1, <2>2
<1> HIDE DEF b
<1>4. f \in Injection(1..Len(b), S)
  BY <1>2, <1>3 DEF Injection, IsInjective
<1> HIDE DEF f
<1>5. Cardinality(1..Len(b)) = Len(b)
  BY <1>1, FS_Interval
<1>6. Cardinality(1..Len(b)) <= Cardinality(S)
  BY <1>4, FS_Injection
<1>7. Cardinality(S) \in Nat
  BY FS_CardinalityType
<1> QED
  BY <1>1, <1>5, <1>6, <1>7 DEF b

\* A full table has a request for each of its buckets.
LEMMA TableFills ==
    ASSUME NEW K, IsFiniteSet(K), NEW t \in [K -> Buckets], NEW S, IsFiniteSet(S),
           \A k \in K : t[k] # None => k \in S
    PROVE  Cardinality(S) >= Size(t) /\ Size(t) \in Nat /\ Cardinality(S) \in Nat
<1>1. {k \in K : t[k] # None} \subseteq S
  OBVIOUS
<1> QED
  BY <1>1, FS_Subset, FS_CardinalityType DEF Size

\* One fewer, without the request that is being decided.
LEMMA AllButOne ==
    ASSUME NEW T, IsFiniteSet(T), NEW S, IsFiniteSet(S), NEW y, y \notin S,
           T \subseteq S \cup {y}, NEW n \in Nat, Cardinality(T) > n
    PROVE  Cardinality(S) >= n
<1>1. /\ IsFiniteSet(S \cup {y}) /\ Cardinality(S \cup {y}) = Cardinality(S) + 1
      /\ Cardinality(S) \in Nat
  BY FS_AddElement, FS_CardinalityType
<1>2. Cardinality(T) <= Cardinality(S \cup {y}) /\ Cardinality(T) \in Nat
  BY <1>1, FS_Subset, FS_CardinalityType
<1> QED
  BY <1>1, <1>2

LEMMA ImageFinite ==
    ASSUME NEW S, IsFiniteSet(S), NEW f
    PROVE  IsFiniteSet({f[x] : x \in S})
<1> DEFINE g == [x \in S |-> f[x]]
<1>1. g \in Surjection(S, {f[x] : x \in S})
  BY DEF Surjection
<1> HIDE DEF g
<1> QED
  BY <1>1, FS_Surjection

\* The requests that may be counted against another are finitely many.
Mine(q) == {x \in Counted(q) : from[x] = from[q]}

LEMMA CountedFinite ==
    ASSUME NEW q \in Requests
    PROVE  /\ IsFiniteSet(Counted(q)) /\ IsFiniteSet(Mine(q))
           /\ IsFiniteSet({x \in Mine(q) : to[x] = to[q]})
           /\ IsFiniteSet({from[x] : x \in Counted(q) \ Mine(q)})
           /\ IsFiniteSet({PairOf(x) : x \in Counted(q)} \ {PairOf(q)})
           /\ IsFiniteSet({PairOf(x) : x \in Mine(q)} \ {PairOf(q)})
<1>1. /\ Counted(q) \subseteq Requests /\ Mine(q) \subseteq Requests
      /\ {x \in Mine(q) : to[x] = to[q]} \subseteq Requests
      /\ Counted(q) \ Mine(q) \subseteq Requests
  BY DEF Counted, Mine
<1>2. /\ IsFiniteSet(Counted(q)) /\ IsFiniteSet(Mine(q))
      /\ IsFiniteSet({x \in Mine(q) : to[x] = to[q]})
      /\ IsFiniteSet(Counted(q) \ Mine(q))
  BY <1>1, FiniteAssumption, FS_Subset
<1>3. IsFiniteSet({from[x] : x \in Counted(q) \ Mine(q)})
  BY <1>2, ImageFinite
<1>4. IsFiniteSet({PairOf(x) : x \in Counted(q)}) /\ IsFiniteSet({PairOf(x) : x \in Mine(q)})
  <2> DEFINE pair == [x \in Requests |-> PairOf(x)]
  <2>1. /\ {PairOf(x) : x \in Counted(q)} = {pair[x] : x \in Counted(q)}
        /\ {PairOf(x) : x \in Mine(q)} = {pair[x] : x \in Mine(q)}
    BY <1>1
  <2> HIDE DEF pair
  <2>2. IsFiniteSet({pair[x] : x \in Counted(q)})
    BY <1>2, ImageFinite
  <2>3. IsFiniteSet({pair[x] : x \in Mine(q)})
    BY <1>2, ImageFinite
  <2> QED
    BY <2>1, <2>2, <2>3
<1> QED
  BY <1>2, <1>3, <1>4, FS_Subset, FS_Difference

LEMMA OperatorsRefused ==
    ASSUME LimitsInv, NEW q \in Requests, ConsumeInMemory(q), verdict'[q] = "refused"
    PROVE  Cause(q)
<1> DEFINE s == from[q]
           table == Touched(failures, s, age[q])
<1>1. /\ verdict[q] = "waiting" /\ traffic = "operator" /\ backend = "memory"
      /\ Full(table, s, MaxFailureBuckets) \/ Len(Bucket(table, s)) >= MaxFailures
  BY DEF ConsumeInMemory, Decide, LimitsInv, GrantsInv, TypeOK
<1>2. /\ TypeOK /\ failures \in [Sources -> Buckets] /\ s \in Sources /\ InOrder(failures)
      /\ age[q] \in 0..Lag
  BY <1>1, TimeAssumption DEF LimitsInv, GrantsInv, TypeOK, Addressed, CountsInv
<1>3. /\ InOrder(table) /\ table \in [Sources -> Buckets]
      /\ \A j \in Sources : \A x : In(table, j, x) =>
            /\ In(failures, j, x) /\ x \in Requests
            /\ (j = s \/ failures[s] = None) => age[x] < Old
      /\ \A j \in Sources : failures[s] = None /\ table[j] # None => \E x : In(table, j, x)
      /\ failures[s] # None => table[s] # None
  BY <1>2, TouchedOrder, TouchedTable
<1>4. \A j \in Sources : \A x \in Requests :
        In(failures, j, x) => verdict[x] = "admitted" /\ from[x] = j
  BY DEF LimitsInv, CountsInv, Granted
<1> HIDE DEF table
<1>5. \A x : In(table, s, x) => x \in Mine(q)
  BY <1>1, <1>3, <1>4, <1>2 DEF Mine, Counted
<1>6. Len(Bucket(table, s)) >= MaxFailures => Cardinality(Mine(q)) >= MaxFailures
  <2>1. Cardinality(Mine(q)) >= Len(Bucket(table, s)) /\ Len(Bucket(table, s)) \in Nat
    BY <1>2, <1>3, <1>5, BucketFills, CountedFinite
  <2>2. Cardinality(Mine(q)) \in Nat /\ MaxFailures \in Nat
    BY CountedFinite, FS_CardinalityType, LimitAssumption
  <2> QED
    BY <2>1, <2>2
<1>7. ASSUME Full(table, s, MaxFailureBuckets)
      PROVE  Cardinality({from[x] : x \in Counted(q) \ Mine(q)}) >= MaxFailureBuckets
  <2> DEFINE others == {from[x] : x \in Counted(q) \ Mine(q)}
  <2>1. failures[s] = None /\ table[s] = None
    BY <1>3, <1>7 DEF Full
  <2>2. ASSUME NEW j \in Sources, table[j] # None
        PROVE  j \in others
    <3>1. PICK x : In(table, j, x)
      BY <1>3, <2>1, <2>2
    <3>2. x \in Requests /\ age[x] < Old /\ verdict[x] = "admitted" /\ from[x] = j
      BY <1>3, <1>4, <2>1, <3>1
    <3>3. x # q /\ j # s
      BY <1>1, <2>1, <2>2, <3>2
    <3>4. x \in Counted(q) \ Mine(q)
      BY <3>2, <3>3 DEF Counted, Mine
    <3> QED
      BY <3>2, <3>4
  <2>3. IsFiniteSet(others)
    BY CountedFinite
  <2> HIDE DEF others
  <2>4. Cardinality(others) >= Size(table) /\ Size(table) \in Nat /\ Cardinality(others) \in Nat
    BY <1>3, <2>2, <2>3, TableFills, FiniteAssumption
  <2>5. Size(table) >= MaxFailureBuckets /\ MaxFailureBuckets \in Nat
    BY <1>7, LimitAssumption DEF Full
  <2>6. Cardinality(others) >= MaxFailureBuckets
    BY <2>4, <2>5
  <2> QED
    BY <2>6 DEF others
<1> QED
  BY <1>1, <1>6, <1>7 DEF Cause, Mine

LEMMA OperatorsRefusedInRedis ==
    ASSUME LimitsInv, NEW q \in Requests, ConsumeInRedis(q), verdict'[q] = "refused"
    PROVE  Cause(q)
<1> DEFINE current == InWindow(zFailures[from[q]], age[q])
<1>1. /\ verdict[q] = "waiting" /\ traffic = "operator"
      /\ ~(Cardinality(current) < MaxFailures)
  BY DEF ConsumeInRedis, Decide, LimitsInv, GrantsInv, TypeOK
<1>2. from[q] \in Sources /\ zFailures \in [Sources -> SUBSET Requests] /\ age[q] \in 0..Lag
      /\ \A x \in Requests : age[x] \in Nat
  BY <1>1, TimeAssumption DEF LimitsInv, GrantsInv, TypeOK, Addressed, CountsInv
<1>3. ASSUME NEW x \in current
      PROVE  x \in Mine(q)
  <2>1. x \in Requests /\ x \in zFailures[from[q]] /\ age[x] < Window + age[q]
    BY <1>2 DEF InWindow, Fresh
  <2>2. verdict[x] = "admitted" /\ from[x] = from[q]
    BY <1>2, <2>1 DEF LimitsInv, CountsInv, Granted
  <2>3. age[x] < Old /\ x # q
    BY <1>1, <1>2, <2>1, <2>2, TimeAssumption DEF Old
  <2> QED
    BY <2>1, <2>2, <2>3 DEF Mine, Counted
<1> HIDE DEF current
<1>4. Cardinality(current) <= Cardinality(Mine(q)) /\ Cardinality(Mine(q)) \in Nat
      /\ Cardinality(current) \in Nat
  BY <1>3, CountedFinite, FS_Subset, FS_CardinalityType
<1>5. Cardinality(Mine(q)) >= MaxFailures
  BY <1>1, <1>4, LimitAssumption
<1> QED
  BY <1>1, <1>5 DEF Cause, Mine

LEMMA WebhooksRefused ==
    ASSUME LimitsInv, NEW q \in Requests, AllowInMemory(q), verdict'[q] = "refused"
    PROVE  Cause(q)
<1> DEFINE s == from[q]
           p == PairOf(q)
           found == Touched(bySource, s, age[q])
           sources == [found EXCEPT ![s] = Bucket(found, s)]
           pairs == Touched(byPair, p, age[q])
           room == {x \in Mine(q) : to[x] = to[q]}
           others == {PairOf(x) : x \in Counted(q)} \ {PairOf(q)}
<1>1. /\ verdict[q] = "waiting" /\ traffic = "webhook" /\ backend = "memory"
      /\ \/ Len(sources[s]) >= MaxSourceRequests
         \/ Full(pairs, p, MaxConnectionBuckets)
         \/ Len(Bucket(pairs, p)) >= MaxRequests
  BY DEF AllowInMemory, Decide, LimitsInv, GrantsInv, TypeOK
<1>2. /\ TypeOK /\ bySource \in [Sources -> Buckets] /\ byPair \in [Pairs -> Buckets]
      /\ s \in Sources /\ p \in Pairs /\ InOrder(bySource) /\ InOrder(byPair)
      /\ age[q] \in 0..Lag
  BY <1>1, TimeAssumption
  DEF LimitsInv, GrantsInv, TypeOK, Addressed, CountsInv, PairOf, Pairs
<1>3. /\ InOrder(found) /\ found \in [Sources -> Buckets]
      /\ \A x : In(found, s, x) => In(bySource, s, x) /\ x \in Requests /\ age[x] < Old
  BY <1>2, TouchedOrder, TouchedTable
<1>4. /\ InOrder(pairs) /\ pairs \in [Pairs -> Buckets]
      /\ \A j \in Pairs : \A x : In(pairs, j, x) =>
            /\ In(byPair, j, x) /\ x \in Requests
            /\ (j = p \/ byPair[p] = None) => age[x] < Old
      /\ \A j \in Pairs : byPair[p] = None /\ pairs[j] # None => \E x : In(pairs, j, x)
      /\ byPair[p] # None => pairs[p] # None
  BY <1>2, TouchedOrder, TouchedTable
<1>5. sources[s] = Bucket(found, s)
  BY <1>2, <1>3
<1>6. /\ \A x \in Requests : In(bySource, s, x) => verdict[x] = "admitted" /\ from[x] = s
      /\ \A j \in Pairs : \A x \in Requests :
            In(byPair, j, x) => verdict[x] = "admitted" /\ PairOf(x) = j
  BY <1>2 DEF LimitsInv, CountsInv, Granted
<1> HIDE DEF sources, found, pairs
<1>7. Len(sources[s]) >= MaxSourceRequests => Cardinality(Mine(q)) >= MaxSourceRequests
  <2>1. \A x : In(found, s, x) => x \in Mine(q)
    BY <1>1, <1>3, <1>6 DEF Mine, Counted
  <2>2. Cardinality(Mine(q)) >= Len(Bucket(found, s)) /\ Len(Bucket(found, s)) \in Nat
    BY <1>2, <1>3, <2>1, BucketFills, CountedFinite
  <2>3. Cardinality(Mine(q)) \in Nat /\ MaxSourceRequests \in Nat
    BY CountedFinite, FS_CardinalityType, LimitAssumption
  <2> QED
    BY <1>5, <2>2, <2>3
<1>8. Len(Bucket(pairs, p)) >= MaxRequests => Cardinality(room) >= MaxRequests
  <2>1. \A x : In(pairs, p, x) => x \in room
    BY <1>1, <1>2, <1>4, <1>6 DEF Mine, Counted, PairOf
  <2>2. IsFiniteSet(room)
    BY CountedFinite
  <2> HIDE DEF room
  <2>3. Cardinality(room) >= Len(Bucket(pairs, p)) /\ Len(Bucket(pairs, p)) \in Nat
    BY <1>2, <1>4, <2>1, <2>2, BucketFills
  <2>4. Cardinality(room) \in Nat /\ MaxRequests \in Nat
    BY <2>2, FS_CardinalityType, LimitAssumption
  <2> QED
    BY <2>3, <2>4
<1>9. ASSUME Full(pairs, p, MaxConnectionBuckets)
      PROVE  Cardinality(others) >= MaxConnectionBuckets
  <2>1. byPair[p] = None /\ pairs[p] = None
    BY <1>4, <1>9 DEF Full
  <2>2. ASSUME NEW j \in Pairs, pairs[j] # None
        PROVE  j \in others
    <3>1. PICK x : In(pairs, j, x)
      BY <1>4, <2>1, <2>2
    <3>2. x \in Requests /\ age[x] < Old /\ verdict[x] = "admitted" /\ PairOf(x) = j
      BY <1>4, <1>6, <2>1, <3>1
    <3>3. x # q /\ j # PairOf(q)
      BY <1>1, <2>1, <2>2, <3>2
    <3>4. x \in Counted(q)
      BY <3>2, <3>3 DEF Counted
    <3> QED
      BY <3>2, <3>3, <3>4
  <2>3. IsFiniteSet(others)
    BY CountedFinite
  <2> HIDE DEF others
  <2>4. IsFiniteSet(Pairs)
    BY FiniteAssumption, FS_Product DEF Pairs
  <2>5. Cardinality(others) >= Size(pairs) /\ Size(pairs) \in Nat /\ Cardinality(others) \in Nat
    BY <1>4, <2>2, <2>3, <2>4, TableFills
  <2>6. Size(pairs) >= MaxConnectionBuckets /\ MaxConnectionBuckets \in Nat
    BY <1>9, LimitAssumption DEF Full
  <2> QED
    BY <2>5, <2>6
<1>10. traffic # "operator"
  BY <1>1
<1> QED
  BY <1>1, <1>7, <1>8, <1>9, <1>10 DEF Cause, Mine

LEMMA WebhooksRefusedInRedis ==
    ASSUME LimitsInv, NEW q \in Requests, AllowInRedis(q), verdict'[q] = "refused"
    PROVE  Cause(q)
<1> DEFINE s == from[q]
           p == PairOf(q)
           ofSource == InWindow(zSource[s], age[q]) \cup {q}
           ofPair == InWindow(zPair[p], age[q]) \cup {q}
           stale(o) == o[1] = s /\ zSeen[o] # None /\ ~Fresh(zSeen[o], age[q])
           seen == [o \in Pairs |-> IF o = p THEN q
                                    ELSE IF stale(o) THEN None ELSE zSeen[o]]
           asked == {o \in Pairs : o[1] = s /\ seen[o] # None}
           room == {x \in Mine(q) : to[x] = to[q]}
           others == {PairOf(x) : x \in Mine(q)} \ {PairOf(q)}
<1>1. /\ verdict[q] = "waiting" /\ traffic = "webhook" /\ backend = "redis"
      /\ \/ ~(Cardinality(ofSource) <= MaxSourceRequests)
         \/ ~(Cardinality(asked) <= MaxConnectionBuckets)
         \/ ~(Cardinality(ofPair) <= MaxRequests)
  BY DEF AllowInRedis, Decide, LimitsInv, GrantsInv, TypeOK
<1>2. /\ s \in Sources /\ p \in Pairs /\ age[q] \in 0..Lag
      /\ zSource \in [Sources -> SUBSET Requests] /\ zPair \in [Pairs -> SUBSET Requests]
      /\ zSeen \in [Pairs -> Requests \cup {None}]
      /\ verdict \in [Requests -> {"none", "waiting", "admitted", "refused"}]
      /\ \A x \in Requests : age[x] \in Nat
  BY <1>1, TimeAssumption
  DEF LimitsInv, GrantsInv, TypeOK, Addressed, CountsInv, PairOf, Pairs
<1>3. /\ \A x \in zSource[s] : Decided(x) /\ from[x] = s
      /\ \A j \in Pairs : \A x \in Requests :
            x \in zPair[j] \/ zSeen[j] = x => Decided(x) /\ PairOf(x) = j
  BY <1>2 DEF LimitsInv, CountsInv
<1>4. ASSUME NEW x \in Requests, Decided(x), Fresh(x, age[q]), from[x] = s
      PROVE  x \in Mine(q) /\ x # q
  <2>1. x # q
    BY <1>1, <1>4 DEF Decided
  <2>2. age[x] < Old
    BY <1>2, <1>4, TimeAssumption DEF Fresh, Old
  <2> QED
    BY <1>1, <1>2, <1>4, <2>1, <2>2 DEF Mine, Counted, Decided
<1>5. \A x \in InWindow(zSource[s], age[q]) : x \in Mine(q)
  BY <1>2, <1>3, <1>4 DEF InWindow
<1>6. \A x \in InWindow(zPair[p], age[q]) : x \in room
  BY <1>2, <1>3, <1>4 DEF InWindow, PairOf
<1>7. \A o \in asked : o \in others \cup {p}
  <2> SUFFICES ASSUME NEW o \in Pairs, o[1] = s, seen[o] # None, o # p
               PROVE  o \in others
    OBVIOUS
  <2>1. zSeen[o] # None /\ zSeen[o] \in Requests /\ Fresh(zSeen[o], age[q])
    BY <1>2
  <2>2. Decided(zSeen[o]) /\ PairOf(zSeen[o]) = o
    BY <1>3, <2>1
  <2>3. from[zSeen[o]] = s
    BY <2>2 DEF PairOf
  <2>4. zSeen[o] \in Mine(q)
    BY <1>4, <2>1, <2>2, <2>3
  <2> QED
    BY <2>2, <2>4
<1>8. /\ IsFiniteSet(Mine(q)) /\ IsFiniteSet(room) /\ IsFiniteSet(others) /\ IsFiniteSet(Pairs)
      /\ q \notin Mine(q) /\ q \notin room /\ p \notin others
  BY CountedFinite, FiniteAssumption, FS_Product DEF Mine, Counted, Pairs
<1>9. /\ IsFiniteSet(ofSource) /\ ofSource \subseteq Mine(q) \cup {q}
      /\ IsFiniteSet(ofPair) /\ ofPair \subseteq room \cup {q}
      /\ IsFiniteSet(asked) /\ asked \subseteq others \cup {p}
  <2>1. ofSource \subseteq Mine(q) \cup {q} /\ ofPair \subseteq room \cup {q}
        /\ asked \subseteq others \cup {p}
    BY <1>5, <1>6, <1>7
  <2> HIDE DEF ofSource, ofPair, asked, room, others
  <2>2. IsFiniteSet(Mine(q) \cup {q}) /\ IsFiniteSet(room \cup {q})
        /\ IsFiniteSet(others \cup {p})
    BY <1>8, FS_AddElement
  <2> QED
    BY <2>1, <2>2, FS_Subset
<1>10. MaxSourceRequests \in Nat /\ MaxRequests \in Nat /\ MaxConnectionBuckets \in Nat
  BY LimitAssumption
<1>11. \/ Cardinality(Mine(q)) >= MaxSourceRequests
       \/ Cardinality(room) >= MaxRequests
       \/ Cardinality(others) >= MaxConnectionBuckets
  <2> HIDE DEF ofSource, ofPair, asked, room, others, s, p
  <2>1. /\ Cardinality(ofSource) \in Nat /\ Cardinality(ofPair) \in Nat
        /\ Cardinality(asked) \in Nat
    BY <1>9, FS_CardinalityType
  <2>2. CASE Cardinality(ofSource) > MaxSourceRequests
    BY <1>8, <1>9, <1>10, <2>2, AllButOne
  <2>3. CASE Cardinality(ofPair) > MaxRequests
    BY <1>8, <1>9, <1>10, <2>3, AllButOne
  <2>4. CASE Cardinality(asked) > MaxConnectionBuckets
    BY <1>8, <1>9, <1>10, <2>4, AllButOne
  <2> QED
    BY <1>1, <1>10, <2>1, <2>2, <2>3, <2>4
<1> QED
  BY <1>1, <1>11 DEF Cause, Mine

\* Nobody but the limiter refuses a waiting request.
LEMMA CauseStep ==
    ASSUME LimitsInv, [Next]_vars, NEW q \in Requests,
           verdict[q] = "waiting", verdict'[q] = "refused"
    PROVE  Cause(q)
<1>1. verdict \in [Requests -> {"none", "waiting", "admitted", "refused"}]
  BY DEF LimitsInv, GrantsInv, TypeOK
<1>2. AllowInMemory(q) \/ ConsumeInMemory(q) \/ AllowInRedis(q) \/ ConsumeInRedis(q)
  <2>1. verdict' # verdict
    OBVIOUS
  <2>2. ~Tick /\ ~Expire
    BY <1>1 DEF Tick, Expire, requests
  <2>3. ASSUME NEW x \in Requests, NEW s \in Sources, NEW c \in Connections \cup {None},
               Arrive(x, s, c)
        PROVE  FALSE
    BY <1>1, <2>3 DEF Arrive
  <2>4. ASSUME NEW x \in Requests,
               \/ AllowInMemory(x) \/ ConsumeInMemory(x)
               \/ AllowInRedis(x) \/ ConsumeInRedis(x)
        PROVE  x = q
    <3> DEFINE Verdict == \/ verdict' = [verdict EXCEPT ![x] = "admitted"]
                          \/ verdict' = [verdict EXCEPT ![x] = "refused"]
    <3>1. AllowInMemory(x) => Verdict
      BY DEF AllowInMemory, Decide
    <3>2. ConsumeInMemory(x) => Verdict
      BY DEF ConsumeInMemory, Decide
    <3>3. AllowInRedis(x) => Verdict
      BY DEF AllowInRedis, Decide
    <3>4. ConsumeInRedis(x) => Verdict
      BY DEF ConsumeInRedis, Decide
    <3> QED
      BY <1>1, <2>4, <3>1, <3>2, <3>3, <3>4
  <2> QED
    BY <2>1, <2>2, <2>3, <2>4 DEF Next, vars, requests
<1> QED
  BY <1>2, WebhooksRefused, OperatorsRefused, WebhooksRefusedInRedis,
     OperatorsRefusedInRedis

(***************************************************************************)
(* The theorems.                                                           *)
(***************************************************************************)
LEMMA GrantsStep == GrantsInv /\ [Next]_vars => GrantsInv'
<1> SUFFICES ASSUME GrantsInv, [Next]_vars PROVE GrantsInv'
  OBVIOUS
<1>1. CASE UNCHANGED vars
  BY <1>1
  DEF vars, requests, memory, redis, GrantsInv, TypeOK, Addressed, Remembered, Admitted,
      In, PairOf, WithinLimits, TablesBounded, Size
<1> QED
  BY <1>1, ArriveKeeps, TickKeeps, ExpireKeeps, AllowInMemoryKeeps, ConsumeInMemoryKeeps,
     AllowInRedisKeeps, ConsumeInRedisKeeps
  DEF Next

\* Recent grants stay in the buckets that count them.
LEMMA GrantsInvariant == Spec => []GrantsInv
<1>1. Init => GrantsInv
  <2> SUFFICES ASSUME Init PROVE GrantsInv
    OBVIOUS
  <2>1. TypeOK /\ Addressed /\ Admitted(Window) = {}
    BY DEF Init, TypeOK, Addressed, Admitted, Buckets
  <2>2. Remembered
    BY <2>1 DEF Remembered
  <2>3. WithinLimits
    <3>1. \A s : OfSource(s) = {}
      BY <2>1 DEF OfSource
    <3>2. \A p : OfPair(p) = {}
      BY <2>1 DEF OfPair
    <3>3. \A n \in Nat : AtMost({}, n)
      BY FS_EmptySet DEF AtMost
    <3> QED
      BY <3>1, <3>2, <3>3, LimitsCounted, LimitAssumption
  <2>4. TablesBounded
    <3>1. {k \in DOMAIN byPair : byPair[k] # None} = {}
          /\ {k \in DOMAIN failures : failures[k] # None} = {}
      BY DEF Init
    <3> QED
      BY <3>1, FS_EmptySet, LimitAssumption DEF TablesBounded, Size
  <2> QED
    BY <2>1, <2>2, <2>3, <2>4 DEF GrantsInv
<1> QED
  BY <1>1, GrantsStep, PTL DEF Spec

\* The invariant of the runs: recent grants stay in the buckets that count them, and
\* what a bucket or a set counts has been granted or, where Redis counts that too, refused.
THEOREM LimitsInvariant == Spec => []LimitsInv
<1>1. Init => CountsInv
  BY NoneAssumption, TimeAssumption DEF Init, CountsInv, InOrder, In, Old
<1>2. CountsInv /\ GrantsInv /\ GrantsInv' /\ [Next]_vars => CountsInv'
  BY CountsStep
<1>3. GrantsInv /\ CountsInv => LimitsInv
  BY DEF LimitsInv
<1> QED
  BY <1>1, <1>2, <1>3, GrantsInvariant, PTL DEF Spec

\* No source ever passes more often in a window than it may, for any limits, window and
\* lag (_allow_github_webhook_request, _allow_gitlab_webhook_request,
\* consume_operator_auth_failure_budget, in memory and in Redis).
THEOREM LimitsHold == Spec => []WithinLimits
<1>1. GrantsInv => WithinLimits
  BY DEF GrantsInv
<1> QED
  BY <1>1, GrantsInvariant, PTL

\* The bounded tables of a process never outgrow their bounds.
THEOREM TablesKeepBounds == Spec => []TablesBounded
<1>1. GrantsInv => TablesBounded
  BY DEF GrantsInv
<1> QED
  BY <1>1, GrantsInvariant, PTL

\* No request is refused before a limit is used up by others that are recent enough to
\* count: a lagging clock, pruning or the expiry of keys never makes a limit stricter than
\* the window and the lag allow (the same functions).
THEOREM RefusalsHaveCause == Spec => RefusedForCause
<1>1. LimitsInv /\ [Next]_vars =>
        [\A q \in Requests : verdict[q] = "waiting" /\ verdict'[q] = "refused" => Cause(q)]_vars
  BY CauseStep
<1> QED
  BY <1>1, LimitsInvariant, PTL DEF Spec, RefusedForCause
===============================================================================
