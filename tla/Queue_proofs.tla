---------------------------- MODULE Queue_proofs -----------------------------
(***************************************************************************)
(* Proofs about PointerQueue and StructQueue, for every number and size of *)
(* buckets and every allowance: the inductive invariant of each, what it   *)
(* implies, and that the queue implements FIFOQueue.                       *)
(***************************************************************************)
EXTENDS StructQueue, NumberFacts

(* Two loops from the same bucket pass the same buckets: the first walk    *)
(* is a prefix of the second ...                                           *)
LEMMA WalkPrefix ==
    ASSUME NEW p, NEW c \in Seq(Bucket), NEW d \in Seq(Bucket),
           IsWalk(c, p), IsWalk(d, p)
    PROVE  \A i \in DOMAIN c : i \in DOMAIN d /\ c[i] = d[i]
<1> DEFINE T == {i \in DOMAIN c : ~ (i \in DOMAIN d /\ c[i] = d[i])}
<1> SUFFICES ASSUME T # {} PROVE FALSE
  OBVIOUS
<1>1. PICK m \in T : \A i \in T : m <= i
  <2>1. T \subseteq Nat
    OBVIOUS
  <2> QED
    BY <2>1, LeastNat
<1>2. CASE m = 1
  BY <1>1, <1>2, QueueAssumption DEF IsWalk
<1>3. CASE m # 1
  <2>1. m - 1 \in DOMAIN c /\ m - 1 \notin T
    BY <1>1, <1>3
  <2>2. m - 1 \in DOMAIN d /\ c[m - 1] = d[m - 1]
    BY <2>1
  <2>3. next[c[m - 1]] = c[m] /\ c[m] # NULL
    <3>1. m \in 1 .. Len(c) /\ m - 1 # Len(c) /\ (m - 1) + 1 = m
      BY <1>1
    <3>2. next[c[m - 1]] = IF m - 1 = Len(c) THEN NULL ELSE c[(m - 1) + 1]
      BY <2>1 DEF IsWalk
    <3>3. c[m] \in Bucket
      BY <3>1
    <3> QED
      BY <3>1, <3>2, <3>3, QueueAssumption
  <2>4. m - 1 # Len(d)
    BY <2>2, <2>3 DEF IsWalk
  <2>5. m \in DOMAIN d
    BY <2>2, <2>4, <1>1
  <2>6. next[d[m - 1]] = d[m]
    BY <2>2, <2>4, <1>1 DEF IsWalk
  <2> QED
    BY <2>2, <2>3, <2>5, <2>6, <1>1
<1> QED
  BY <1>2, <1>3

(* ... and so is the second of the first.                                  *)
LEMMA WalkUnique ==
    ASSUME NEW p, NEW c \in Seq(Bucket), NEW d \in Seq(Bucket),
           IsWalk(c, p), IsWalk(d, p)
    PROVE  c = d
<1>1. \A i \in DOMAIN c : i \in DOMAIN d /\ c[i] = d[i]
  BY WalkPrefix
<1>2. \A i \in DOMAIN d : i \in DOMAIN c
  BY WalkPrefix
<1>3. DOMAIN c = DOMAIN d
  BY <1>1, <1>2
<1> QED
  BY <1>1, <1>3

-----------------------------------------------------------------------------
(* Sequences of buckets *)

LEMMA BoundedIsSeq ==
    BoundedSeq(Bucket, Cardinality(Bucket)) \subseteq Seq(Bucket)
<1>1. Cardinality(Bucket) \in Nat
  BY FS_CardinalityType, QueueAssumption
<1> QED
  BY <1>1 DEF BoundedSeq, SeqOf

(* A sequence that has no bucket twice is not longer than there are        *)
(* buckets, so the bound of Walks loses none.                              *)
LEMMA InjectiveIsBounded ==
    ASSUME NEW c \in Seq(Bucket), IsInjective(c)
    PROVE  c \in BoundedSeq(Bucket, Cardinality(Bucket))
<1> DEFINE n == Len(c)
<1>1. n \in Nat /\ c \in [1 .. n -> Bucket]
  OBVIOUS
<1>2. c \in Injection(1 .. n, Bucket)
  BY <1>1 DEF Injection
<1>3. IsFiniteSet(Bucket) /\ Cardinality(Bucket) \in Nat
  BY FS_CardinalityType, QueueAssumption
<1>4. Cardinality(1 .. n) <= Cardinality(Bucket)
  BY <1>2, <1>3, FS_Injection
<1>5. Cardinality(1 .. n) = n
  BY <1>1, FS_Interval
<1> QED
  BY <1>1, <1>3, <1>4, <1>5 DEF BoundedSeq, SeqOf

LEMMA WalkIsSeq ==
    ASSUME NEW p, NEW c \in Walks(p)
    PROVE  c \in Seq(Bucket) /\ IsWalk(c, p)
BY BoundedIsSeq DEF Walks

LEMMA WalksUnique ==
    ASSUME NEW p, NEW c \in Walks(p), NEW d \in Walks(p)
    PROVE  c = d
BY WalkIsSeq, WalkUnique

(* A chain is empty when its first pointer is NULL, and otherwise starts   *)
(* with that bucket and goes on with what its _next points to.             *)
LEMMA WalkStarts ==
    ASSUME NEW p, NEW c \in Walks(p)
    PROVE  /\ p = NULL <=> c = <<>>
           /\ c # <<>> => /\ c[1] = p /\ p \in Bucket
                          /\ Len(c) = 1 <=> next[p] = NULL
                          /\ Len(c) > 1 => next[p] = c[2]
<1>1. c \in Seq(Bucket) /\ IsWalk(c, p)
  BY WalkIsSeq
<1>2. CASE c = <<>>
  BY <1>1, <1>2 DEF IsWalk
<1>3. CASE c # <<>>
  <2>1. Len(c) \in Nat /\ Len(c) >= 1 /\ 1 \in DOMAIN c /\ c[1] \in Bucket
    BY <1>1, <1>3
  <2>2. p = c[1] /\ p # NULL
    BY <1>1, <1>3, <2>1, QueueAssumption DEF IsWalk
  <2>3. Len(c) > 1 => c[2] \in Bucket
    <3>1. DOMAIN c = 1 .. Len(c) /\ c \in [1 .. Len(c) -> Bucket]
      BY <1>1
    <3> QED
      BY <2>1, <3>1
  <2>4. next[p] = IF 1 = Len(c) THEN NULL ELSE c[2]
    <3>1. \A i \in DOMAIN c : next[c[i]] = IF i = Len(c) THEN NULL ELSE c[i + 1]
      BY <1>1 DEF IsWalk
    <3>2. next[c[1]] = IF 1 = Len(c) THEN NULL ELSE c[1 + 1]
      BY <2>1, <3>1
    <3> QED
      BY <2>2, <3>2
  <2>5. Len(c) = 1 <=> next[p] = NULL
    <3>1. CASE Len(c) = 1
      BY <3>1, <2>4
    <3>2. CASE Len(c) > 1
      <4>1. next[p] = c[2] /\ c[2] \in Bucket
        BY <3>2, <2>3, <2>4
      <4> QED
        BY <3>2, <4>1, QueueAssumption
    <3>3. Len(c) = 1 \/ Len(c) > 1
      BY <2>1
    <3> QED
      BY <3>1, <3>2, <3>3
  <2>6. Len(c) > 1 => next[p] = c[2]
    BY <2>1, <2>4
  <2> QED
    BY <1>3, <2>1, <2>2, <2>5, <2>6
<1> QED
  BY <1>2, <1>3

(* What tlapm has to know of Tail, Append and of a sequence with one more  *)
(* element in front, index by index.                                       *)
LEMMA TailFacts ==
    ASSUME NEW S, NEW c \in Seq(S), Len(c) >= 1
    PROVE  /\ Tail(c) \in Seq(S) /\ Len(Tail(c)) = Len(c) - 1
           /\ DOMAIN Tail(c) = 1 .. Len(c) - 1
           /\ \A i \in 1 .. Len(c) - 1 : Tail(c)[i] = c[i + 1]
OBVIOUS

LEMMA EmptyFacts ==
    ASSUME NEW S, NEW c \in Seq(S), Len(c) = 0
    PROVE  c = <<>>
OBVIOUS

LEMMA ConsFacts ==
    ASSUME NEW S, NEW x \in S, NEW s \in Seq(S)
    PROVE  /\ <<x>> \o s \in Seq(S) /\ Len(<<x>> \o s) = Len(s) + 1
           /\ DOMAIN (<<x>> \o s) = 1 .. Len(s) + 1
           /\ (<<x>> \o s)[1] = x
           /\ \A i \in 1 .. Len(s) : (<<x>> \o s)[i + 1] = s[i]
OBVIOUS

LEMMA AppendFacts ==
    ASSUME NEW S, NEW x \in S, NEW s \in Seq(S)
    PROVE  /\ Append(s, x) \in Seq(S) /\ Len(Append(s, x)) = Len(s) + 1
           /\ DOMAIN Append(s, x) = 1 .. Len(s) + 1
           /\ Append(s, x)[Len(s) + 1] = x
           /\ \A i \in 1 .. Len(s) : Append(s, x)[i] = s[i]
OBVIOUS

(* A walk, index by index.                                                 *)
LEMMA WalkIndices ==
    ASSUME NEW p, NEW c \in Walks(p)
    PROVE  /\ c \in Seq(Bucket) /\ Len(c) \in Nat /\ DOMAIN c = 1 .. Len(c)
           /\ p = IF Len(c) = 0 THEN NULL ELSE c[1]
           /\ \A i \in 1 .. Len(c) :
                /\ c[i] \in Bucket
                /\ next[c[i]] = IF i = Len(c) THEN NULL ELSE c[i + 1]
<1>1. c \in Seq(Bucket) /\ IsWalk(c, p)
  BY WalkIsSeq
<1>2. Len(c) \in Nat /\ DOMAIN c = 1 .. Len(c) /\ \A i \in 1 .. Len(c) : c[i] \in Bucket
  BY <1>1
<1>3. /\ p = IF Len(c) = 0 THEN NULL ELSE c[1]
      /\ \A i \in 1 .. Len(c) : next[c[i]] = IF i = Len(c) THEN NULL ELSE c[i + 1]
  <2>1. c = <<>> <=> Len(c) = 0
    BY <1>1
  <2> QED
    BY <1>1, <1>2, <2>1 DEF IsWalk
<1> QED
  BY <1>1, <1>2, <1>3

LEMMA InjectiveIndices ==
    ASSUME NEW n \in Nat, NEW c, DOMAIN c = 1 .. n
    PROVE  IsInjective(c) <=> \A i, j \in 1 .. n : c[i] = c[j] => i = j
BY DEF IsInjective

-----------------------------------------------------------------------------
(* Buckets *)

(* free_bucket on the first bucket of the chain: the chain is what follows *)
(* it, and it is the first of the spares or gone.                          *)
LEMMA FreeBucketLinked ==
    ASSUME TypeOK, NEW c \in Walks(read), NEW s \in Walks(spares),
           Linked(c, s), c # <<>>,
           FreeBucket(read), read' = next[read], allowance' = allowance
    PROVE  /\ Tail(c) \in Walks(read)'
           /\ \E t \in Walks(spares)' : Linked(Tail(c), t)'
<1> DEFINE n == Len(c)
           k == Len(s)
<1>1. /\ c \in Seq(Bucket) /\ n \in Nat /\ n >= 1 /\ DOMAIN c = 1 .. n
      /\ s \in Seq(Bucket) /\ k \in Nat /\ DOMAIN s = 1 .. k
  <2>1. c \in Seq(Bucket) /\ s \in Seq(Bucket)
    BY WalkIsSeq
  <2> QED
    BY <2>1
<1>2. /\ read = c[1] /\ read \in Bucket
      /\ \A i \in 1 .. n : c[i] \in Bucket /\ next[c[i]] = IF i = n THEN NULL ELSE c[i + 1]
      /\ \A i, j \in 1 .. n : c[i] = c[j] => i = j
  <2>1. read = c[1] /\ read \in Bucket
    BY WalkStarts
  <2>2. \A i, j \in 1 .. n : c[i] = c[j] => i = j
    BY <1>1, InjectiveIndices DEF Linked
  <2>3. \A i \in 1 .. n : c[i] \in Bucket /\ next[c[i]] = IF i = n THEN NULL ELSE c[i + 1]
    BY WalkIndices
  <2> QED
    BY <2>1, <2>2, <2>3
<1>3. /\ spares = IF k = 0 THEN NULL ELSE s[1]
      /\ \A i \in 1 .. k : s[i] \in Bucket /\ next[s[i]] = IF i = k THEN NULL ELSE s[i + 1]
      /\ \A i, j \in 1 .. k : s[i] = s[j] => i = j
  <2>1. \A i, j \in 1 .. k : s[i] = s[j] => i = j
    BY <1>1, InjectiveIndices DEF Linked
  <2> QED
    BY <2>1, WalkIndices
<1>4. PICK d \in Seq(Bucket) : d = Tail(c)
  BY <1>1, TailFacts
<1>5. /\ Len(d) = n - 1 /\ DOMAIN d = 1 .. n - 1
      /\ \A i \in 1 .. n - 1 : d[i] = c[i + 1]
  BY <1>1, <1>4, TailFacts
<1> HIDE DEF n, k
<1>6. IsInjective(d)
  BY <1>1, <1>2, <1>5 DEF IsInjective
<1>7. Blocks(d) = Blocks(c) \ {read} /\ read \in Blocks(c)
  <2>1. Blocks(c) = {c[i] : i \in 1 .. n} /\ Blocks(d) = {c[i + 1] : i \in 1 .. n - 1}
    BY <1>1, <1>5 DEF Blocks
  <2>2. ASSUME NEW i \in 1 .. n, c[i] # read PROVE c[i] \in Blocks(d)
    <3>1. i - 1 \in 1 .. n - 1 /\ c[i] = c[(i - 1) + 1]
      BY <1>1, <1>2, <2>2
    <3> QED
      BY <2>1, <3>1
  <2>3. ASSUME NEW i \in 1 .. n - 1 PROVE c[i + 1] \in Blocks(c) /\ c[i + 1] # read
    BY <1>1, <1>2, <2>1
  <2> QED
    BY <1>1, <1>2, <2>1, <2>2, <2>3
<1>8. read \notin Blocks(s) /\ Blocks(c) \cap Blocks(s) = {}
  BY <1>7 DEF Linked
<1>9. \A b \in Bucket : b # read => next'[b] = next[b]
  BY <1>2 DEF FreeBucket, TypeOK
<1>10. IsWalk(d, read)'
  <2>1. ASSUME NEW i \in 1 .. n - 1
        PROVE  next'[d[i]] = IF i = n - 1 THEN NULL ELSE d[i + 1]
    <3>1. d[i] = c[i + 1] /\ i + 1 \in 1 .. n /\ c[i + 1] \in Bucket /\ c[i + 1] # read
      BY <1>1, <1>2, <1>5
    <3>2. next[c[i + 1]] = IF i + 1 = n THEN NULL ELSE c[(i + 1) + 1]
      BY <1>2, <3>1
    <3>3. i # n - 1 => d[i + 1] = c[(i + 1) + 1]
      BY <1>1, <1>5
    <3> QED
      BY <1>1, <1>9, <3>1, <3>2, <3>3
  <2>2. read' = IF n - 1 = 0 THEN NULL ELSE d[1]
    <3>1. read' = IF 1 = n THEN NULL ELSE c[1 + 1]
      BY <1>1, <1>2
    <3>2. n # 1 => d[1] = c[1 + 1]
      BY <1>1, <1>5
    <3> QED
      BY <1>1, <3>1, <3>2
  <2> QED
    BY <1>1, <1>5, <2>1, <2>2 DEF IsWalk
<1>11. d \in Walks(read)'
  BY <1>6, <1>10, InjectiveIsBounded DEF Walks
<1>12. CASE spareAllowance = 0
  <2>1. /\ next' = next /\ spares' = spares /\ spareAllowance' = spareAllowance
        /\ allocated' = allocated \ {read}
    BY <1>12 DEF FreeBucket
  <2>2. s \in Walks(spares)'
    BY <2>1 DEF Walks, IsWalk
  <2>3. Linked(d, s)'
    BY <1>6, <1>7, <1>8, <2>1 DEF Linked
  <2> QED
    BY <1>4, <1>11, <2>2, <2>3
<1>13. CASE spareAllowance # 0
  <2>1. /\ next' = [next EXCEPT ![read] = spares] /\ spares' = read
        /\ spareAllowance' = spareAllowance - 1 /\ allocated' = allocated
    BY <1>13 DEF FreeBucket
  <2>2. PICK u \in Seq(Bucket) : u = <<read>> \o s
    BY <1>1, <1>2, ConsFacts
  <2>3. /\ Len(u) = k + 1 /\ DOMAIN u = 1 .. k + 1 /\ u[1] = read
        /\ \A i \in 1 .. k : u[i + 1] = s[i]
    BY <1>1, <1>2, <2>2, ConsFacts DEF k
  <2>4. \A i \in 1 .. k + 1 : i # 1 => i - 1 \in 1 .. k /\ u[i] = s[i - 1] /\ s[i - 1] # read
    <3> SUFFICES ASSUME NEW i \in 1 .. k + 1, i # 1
                 PROVE  i - 1 \in 1 .. k /\ u[i] = s[i - 1] /\ s[i - 1] # read
      OBVIOUS
    <3>1. i - 1 \in 1 .. k /\ u[(i - 1) + 1] = s[i - 1] /\ (i - 1) + 1 = i
      BY <1>1, <2>3
    <3>2. s[i - 1] # read
      BY <1>1, <1>8, <3>1 DEF Blocks
    <3> QED
      BY <3>1, <3>2
  <2>5. IsInjective(u)
    <3> SUFFICES ASSUME NEW i \in 1 .. k + 1, NEW j \in 1 .. k + 1, u[i] = u[j]
                 PROVE  i = j
      BY <2>3 DEF IsInjective
    <3>1. CASE i = 1 \/ j = 1
      BY <2>3, <2>4, <3>1
    <3>2. CASE i # 1 /\ j # 1
      <4>1. i - 1 = j - 1
        BY <1>3, <2>4, <3>2
      <4> QED
        BY <1>1, <4>1
    <3> QED
      BY <3>1, <3>2
  <2>6. Blocks(u) = Blocks(s) \cup {read}
    <3>1. ASSUME NEW i \in 1 .. k + 1 PROVE u[i] \in Blocks(s) \cup {read}
      BY <1>1, <2>3, <2>4 DEF Blocks
    <3>2. ASSUME NEW i \in 1 .. k PROVE s[i] \in Blocks(u)
      <4>1. i + 1 \in 1 .. k + 1 /\ u[i + 1] = s[i]
        BY <1>1, <2>3
      <4> QED
        BY <2>3, <4>1 DEF Blocks
    <3>3. read \in Blocks(u)
      <4>1. 1 \in DOMAIN u
        BY <1>1, <2>3
      <4> QED
        BY <2>3, <4>1 DEF Blocks
    <3> QED
      BY <1>1, <2>3, <3>1, <3>2, <3>3 DEF Blocks
  <2>7. ASSUME NEW i \in 1 .. k + 1
        PROVE  next'[u[i]] = IF i = k + 1 THEN NULL ELSE u[i + 1]
    <3>1. CASE i = 1
      <4>1. next'[u[1]] = IF k = 0 THEN NULL ELSE s[1]
        BY <1>2, <1>3, <2>1, <2>3 DEF TypeOK
      <4>2. k # 0 => u[1 + 1] = s[1]
        BY <1>1, <2>3
      <4> QED
        BY <1>1, <3>1, <4>1, <4>2
    <3>2. CASE i # 1
      <4>1. i - 1 \in 1 .. k /\ u[i] = s[i - 1] /\ s[i - 1] # read /\ s[i - 1] \in Bucket
        BY <1>3, <2>4, <3>2
      <4>2. next'[u[i]] = IF i - 1 = k THEN NULL ELSE s[(i - 1) + 1]
        BY <1>3, <1>9, <4>1
      <4>3. i # k + 1 => s[(i - 1) + 1] = u[i + 1]
        BY <1>1, <2>3
      <4> QED
        BY <1>1, <4>2, <4>3
    <3> QED
      BY <3>1, <3>2
  <2>8. IsWalk(u, spares)'
    BY <1>1, <2>1, <2>3, <2>7 DEF IsWalk
  <2>9. u \in Walks(spares)'
    BY <2>5, <2>8, InjectiveIsBounded DEF Walks
  <2>10. Len(u) + spareAllowance' = allowance'
    BY <1>1, <2>1, <2>3 DEF Linked, TypeOK, k
  <2>11. Linked(d, u)'
    BY <1>6, <1>7, <1>8, <2>1, <2>5, <2>6, <2>10 DEF Linked
  <2> QED
    BY <1>4, <1>11, <2>9, <2>11
<1> QED
  BY <1>12, <1>13

(* grow: the new bucket is the last of the chain, and taken from the       *)
(* spares if there were any.                                               *)
LEMMA GrowLinked ==
    ASSUME TypeOK, NEW c \in Walks(read), NEW s \in Walks(spares), Linked(c, s),
           write = IF c = <<>> THEN NULL ELSE c[Len(c)],
           NEW p \in Bucket, Grow(p), allowance' = allowance
    PROVE  /\ Append(c, p) \in Walks(read)'
           /\ \E t \in Walks(spares)' : Linked(Append(c, p), t)'
<1> DEFINE n == Len(c)
           k == Len(s)
<1>1. /\ c \in Seq(Bucket) /\ n \in Nat /\ DOMAIN c = 1 .. n
      /\ s \in Seq(Bucket) /\ k \in Nat /\ DOMAIN s = 1 .. k
      /\ c = <<>> <=> n = 0
  <2>1. c \in Seq(Bucket) /\ s \in Seq(Bucket)
    BY WalkIsSeq
  <2> QED
    BY <2>1
<1>2. /\ read = IF n = 0 THEN NULL ELSE c[1]
      /\ \A i \in 1 .. n : c[i] \in Bucket /\ next[c[i]] = IF i = n THEN NULL ELSE c[i + 1]
      /\ \A i, j \in 1 .. n : c[i] = c[j] => i = j
  <2>1. \A i, j \in 1 .. n : c[i] = c[j] => i = j
    BY <1>1, InjectiveIndices DEF Linked
  <2> QED
    BY <2>1, WalkIndices
<1>3. /\ spares = IF k = 0 THEN NULL ELSE s[1]
      /\ \A i \in 1 .. k : s[i] \in Bucket /\ next[s[i]] = IF i = k THEN NULL ELSE s[i + 1]
      /\ \A i, j \in 1 .. k : s[i] = s[j] => i = j
  <2>1. \A i, j \in 1 .. k : s[i] = s[j] => i = j
    BY <1>1, InjectiveIndices DEF Linked
  <2> QED
    BY <2>1, WalkIndices
<1>4. PICK e \in Seq(Bucket) : e = Append(c, p)
  BY <1>1, AppendFacts
<1>5. /\ Len(e) = n + 1 /\ DOMAIN e = 1 .. n + 1 /\ e[n + 1] = p
      /\ \A i \in 1 .. n : e[i] = c[i]
  BY <1>1, <1>4, AppendFacts
<1>6. /\ write = IF n = 0 THEN NULL ELSE c[n]
      /\ next' = [b \in Bucket |-> IF b = p THEN NULL
                                   ELSE IF b = write THEN p ELSE next[b]]
      /\ read' = IF read = NULL THEN p ELSE read
      /\ NewBucket(p)
  BY <1>1 DEF Grow
<1> HIDE DEF n, k
<1>7. p \notin Blocks(c) /\ \A i \in 1 .. n : c[i] # p
  <2>1. p \notin Blocks(c)
    <3>1. CASE spares # NULL /\ p = spares
      <4>1. 1 \in DOMAIN s /\ p = s[1]
        BY <1>1, <1>3, <3>1
      <4> QED
        BY <4>1 DEF Linked, Blocks
    <3>2. CASE p \notin allocated
      BY <3>2 DEF Linked
    <3> QED
      BY <1>6, <3>1, <3>2 DEF NewBucket
  <2> QED
    BY <1>1, <2>1 DEF Blocks
<1>8. IsInjective(e)
  <2> SUFFICES ASSUME NEW i \in 1 .. n + 1, NEW j \in 1 .. n + 1, e[i] = e[j]
               PROVE  i = j
    BY <1>5 DEF IsInjective
  <2>1. CASE i \in 1 .. n /\ j \in 1 .. n
    BY <1>2, <1>5, <2>1
  <2>2. CASE i = n + 1 \/ j = n + 1
    BY <1>1, <1>5, <1>7, <2>2
  <2> QED
    BY <1>1, <2>1, <2>2
<1>9. Blocks(e) = Blocks(c) \cup {p}
  <2>1. ASSUME NEW i \in 1 .. n + 1 PROVE e[i] \in Blocks(c) \cup {p}
    <3>1. CASE i = n + 1
      BY <1>5, <3>1
    <3>2. CASE i \in 1 .. n
      BY <1>1, <1>5, <3>2 DEF Blocks
    <3> QED
      BY <1>1, <3>1, <3>2
  <2>2. ASSUME NEW i \in 1 .. n PROVE c[i] \in Blocks(e)
    <3>1. i \in DOMAIN e /\ e[i] = c[i]
      BY <1>1, <1>5
    <3> QED
      BY <3>1 DEF Blocks
  <2>3. p \in Blocks(e)
    <3>1. n + 1 \in DOMAIN e
      BY <1>1, <1>5
    <3> QED
      BY <1>5, <3>1 DEF Blocks
  <2> QED
    BY <1>1, <1>5, <2>1, <2>2, <2>3 DEF Blocks
<1>10. IsWalk(e, read)'
  <2>1. read' = e[1]
    <3>1. CASE n = 0
      BY <1>2, <1>5, <1>6, <3>1
    <3>2. CASE n # 0
      <4>1. 1 \in 1 .. n
        BY <1>1, <3>2
      <4>2. read = c[1] /\ read # NULL
        BY <1>2, <3>2, <4>1, QueueAssumption
      <4> QED
        BY <1>5, <1>6, <4>1, <4>2
    <3> QED
      BY <3>1, <3>2
  <2>2. ASSUME NEW i \in 1 .. n + 1
        PROVE  next'[e[i]] = IF i = n + 1 THEN NULL ELSE e[i + 1]
    <3>1. CASE i = n + 1
      BY <1>5, <1>6, <3>1
    <3>2. CASE i = n /\ n # 0
      <4>1. e[i] = c[n] /\ c[n] \in Bucket /\ c[n] # p /\ write = c[n]
        BY <1>1, <1>2, <1>5, <1>6, <1>7, <3>2
      <4> QED
        BY <1>1, <1>5, <1>6, <3>2, <4>1
    <3>3. CASE i \in 1 .. n /\ i # n
      <4>1. e[i] = c[i] /\ c[i] \in Bucket /\ c[i] # p /\ n \in 1 .. n
        BY <1>1, <1>2, <1>5, <1>7, <3>3
      <4>2. c[i] # write
        BY <1>2, <1>6, <3>3, <4>1
      <4>3. next'[c[i]] = next[c[i]]
        BY <1>6, <4>1, <4>2
      <4>4. i + 1 \in 1 .. n /\ e[i + 1] = c[i + 1] /\ i # n + 1
        BY <1>1, <1>5, <3>3
      <4> QED
        BY <1>2, <3>3, <4>1, <4>3, <4>4
    <3> QED
      BY <1>1, <3>1, <3>2, <3>3
  <2>3. e # <<>>
    BY <1>1, <1>5
  <2> QED
    BY <1>1, <1>5, <2>1, <2>2, <2>3 DEF IsWalk
<1>11. e \in Walks(read)'
  BY <1>8, <1>10, InjectiveIsBounded DEF Walks
<1>12. ASSUME NEW b \in Blocks(s), b # p PROVE b \in Bucket /\ next'[b] = next[b]
  <2>1. b \in Bucket
    BY <1>1, <1>3, <1>12 DEF Blocks
  <2>2. b # write
    <3>1. CASE n = 0
      BY <1>6, <2>1, <3>1, QueueAssumption
    <3>2. CASE n # 0
      <4>1. c[n] \in Blocks(c)
        BY <1>1, <3>2 DEF Blocks
      <4> QED
        BY <1>6, <1>12, <3>2, <4>1 DEF Linked
    <3> QED
      BY <3>1, <3>2
  <2> QED
    BY <1>6, <1>12, <2>1, <2>2
<1>13. CASE spares = NULL /\ p \notin allocated /\ allocated' = allocated \cup {p}
            /\ spares' = spares /\ spareAllowance' = spareAllowance
  <2>1. p \notin Blocks(s)
    BY <1>13 DEF Linked
  <2>2. \A i \in 1 .. k : next'[s[i]] = next[s[i]]
    BY <1>1, <1>12, <2>1 DEF Blocks
  <2>3. IsWalk(s, spares)'
    BY <1>1, <1>3, <1>13, <2>2 DEF IsWalk
  <2>4. s \in Walks(spares)'
    BY <1>1, <2>3, InjectiveIsBounded DEF Walks, Linked
  <2>5. Linked(e, s)'
    BY <1>7, <1>8, <1>9, <1>13, <2>1 DEF Linked
  <2> QED
    BY <1>4, <1>11, <2>4, <2>5
<1>14. CASE spares # NULL /\ p = spares /\ allocated' = allocated
            /\ spares' = next[p] /\ spareAllowance' = spareAllowance + 1
  <2>1. k >= 1 /\ p = s[1] /\ 1 \in 1 .. k
    BY <1>1, <1>3, <1>14
  <2>2. PICK t \in Seq(Bucket) : t = Tail(s)
    BY <1>1, <2>1, TailFacts DEF k
  <2>3. /\ Len(t) = k - 1 /\ DOMAIN t = 1 .. k - 1
        /\ \A i \in 1 .. k - 1 : t[i] = s[i + 1]
    BY <1>1, <2>1, <2>2, TailFacts DEF k
  <2>4. ASSUME NEW i \in 1 .. k - 1
        PROVE  i + 1 \in 1 .. k /\ s[i + 1] # p /\ s[i + 1] \in Blocks(s)
    <3>1. i + 1 \in 1 .. k /\ i + 1 # 1
      BY <1>1
    <3>2. s[i + 1] # s[1]
      BY <1>3, <2>1, <3>1
    <3> QED
      BY <1>1, <2>1, <3>1, <3>2 DEF Blocks
  <2>5. IsInjective(t)
    <3> SUFFICES ASSUME NEW i \in 1 .. k - 1, NEW j \in 1 .. k - 1, t[i] = t[j]
                 PROVE  i = j
      BY <2>3 DEF IsInjective
    <3>1. i + 1 = j + 1
      BY <1>3, <2>3, <2>4
    <3> QED
      BY <1>1, <3>1
  <2>6. Blocks(t) = Blocks(s) \ {p}
    <3>1. ASSUME NEW i \in 1 .. k, s[i] # p PROVE s[i] \in Blocks(t)
      <4>1. i - 1 \in 1 .. k - 1 /\ s[i] = s[(i - 1) + 1]
        BY <1>1, <2>1, <3>1
      <4>2. i - 1 \in DOMAIN t /\ t[i - 1] = s[i]
        BY <2>3, <4>1
      <4> QED
        BY <4>2 DEF Blocks
    <3>2. ASSUME NEW i \in 1 .. k - 1 PROVE t[i] \in Blocks(s) \ {p}
      BY <2>3, <2>4
    <3> QED
      BY <1>1, <2>3, <3>1, <3>2 DEF Blocks
  <2>7. IsWalk(t, spares)'
    <3>1. spares' = IF k - 1 = 0 THEN NULL ELSE t[1]
      <4>1. spares' = IF 1 = k THEN NULL ELSE s[1 + 1]
        BY <1>3, <1>14, <2>1
      <4>2. k # 1 => t[1] = s[1 + 1]
        BY <1>1, <2>1, <2>3
      <4> QED
        BY <1>1, <4>1, <4>2
    <3>2. ASSUME NEW i \in 1 .. k - 1
          PROVE  next'[t[i]] = IF i = k - 1 THEN NULL ELSE t[i + 1]
      <4>1. next'[t[i]] = next[s[i + 1]]
        BY <1>12, <2>3, <2>4
      <4>2. next[s[i + 1]] = IF i + 1 = k THEN NULL ELSE s[(i + 1) + 1]
        BY <1>3, <2>4
      <4>3. i # k - 1 => t[i + 1] = s[(i + 1) + 1]
        BY <1>1, <2>3
      <4> QED
        BY <1>1, <4>1, <4>2, <4>3
    <3>3. t = <<>> <=> k - 1 = 0
      BY <1>1, <2>3
    <3> QED
      BY <1>1, <2>3, <3>1, <3>2, <3>3 DEF IsWalk
  <2>8. t \in Walks(spares)'
    BY <2>5, <2>7, InjectiveIsBounded DEF Walks
  <2>9. Len(t) + spareAllowance' = allowance'
    BY <1>1, <1>14, <2>3 DEF Linked, TypeOK, k
  <2>10. p \in Blocks(s)
    BY <1>1, <2>1 DEF Blocks
  <2>11. Linked(e, t)'
    BY <1>7, <1>8, <1>9, <1>14, <2>5, <2>6, <2>9, <2>10 DEF Linked
  <2> QED
    BY <1>4, <1>11, <2>8, <2>11
<1> QED
  BY <1>6, <1>13, <1>14 DEF NewBucket

(* What reset writes to _next: each of the first n buckets of the chain    *)
(* points to the one before, the first to the spares.                      *)
LEMMA ResetNext ==
    ASSUME TypeOK, NEW c \in Walks(read), NEW s \in Walks(spares), Linked(c, s),
           NEW n \in 0 .. Len(c),
           next' = OnSpares(c, n)
    PROVE  /\ n > 0 => next'[c[1]] = spares
           /\ \A i \in 2 .. n : next'[c[i]] = c[i - 1]
           /\ \A j \in 1 .. Len(s) : next'[s[j]] = next[s[j]]
<1> DEFINE m == Len(c)
           k == Len(s)
<1>1. /\ m \in Nat /\ n \in Nat /\ n <= m
      /\ \A i \in 1 .. m : c[i] \in Bucket
      /\ \A i \in 1 .. k : s[i] \in Bucket
  BY WalkIndices
<1>2. \A i, j \in 1 .. m : c[i] = c[j] => i = j
  BY WalkIndices, InjectiveIndices DEF Linked
<1>4. \A i \in 1 .. m, j \in 1 .. k : c[i] # s[j]
  <2>1. DOMAIN c = 1 .. m /\ DOMAIN s = 1 .. k
    BY WalkIndices
  <2> QED
    BY <2>1 DEF Linked, Blocks
<1> HIDE DEF m, k
<1>5. n > 0 => next'[c[1]] = spares
  <2>1. n > 0 => 1 \in 1 .. m
    BY <1>1
  <2> QED
    BY <1>1, <2>1 DEF OnSpares
<1>6. ASSUME NEW i \in 2 .. n PROVE next'[c[i]] = c[i - 1]
  <2>1. i \in 1 .. m /\ 1 \in 1 .. m /\ c[i] \in Bucket /\ c[i] # c[1]
    BY <1>1, <1>2
  <2>2. \A j \in 2 .. n : c[i] = c[j] => j = i
    BY <1>1, <1>2, <2>1
  <2>3. (CHOOSE j \in 2 .. n : c[i] = c[j]) = i
    BY <2>2
  <2>4. \E j \in 2 .. n : c[i] = c[j]
    OBVIOUS
  <2> QED
    BY <2>1, <2>3, <2>4 DEF OnSpares
<1>7. ASSUME NEW j \in 1 .. k PROVE next'[s[j]] = next[s[j]]
  <2>1. \A i \in 1 .. n : s[j] # c[i]
    BY <1>1, <1>4
  <2>2. ~ (n > 0 /\ s[j] = c[1])
    BY <2>1
  <2>3. ~ \E i \in 2 .. n : s[j] = c[i]
    BY <2>1
  <2> QED
    BY <1>1, <2>2, <2>3 DEF OnSpares
<1> QED
  BY <1>5, <1>6, <1>7 DEF k

(* reset: the first n buckets of the chain are pushed in front of the      *)
(* spares one by one, the others are freed.                                *)
LEMMA ResetLinked ==
    ASSUME TypeOK, NEW c \in Walks(read), NEW s \in Walks(spares), Linked(c, s),
           NEW n \in 0 .. Len(c), n <= spareAllowance,
           n > 0 => next'[c[1]] = spares,
           \A i \in 2 .. n : next'[c[i]] = c[i - 1],
           \A j \in 1 .. Len(s) : next'[s[j]] = next[s[j]],
           spares' = IF n = 0 THEN spares ELSE c[n],
           spareAllowance' = spareAllowance - n,
           allocated' = allocated \ {c[i] : i \in n + 1 .. Len(c)},
           allowance' = allowance
    PROVE  \E t \in Walks(spares)' : Linked(<<>>, t)'
<1> DEFINE m == Len(c)
           k == Len(s)
<1>1. /\ c \in Seq(Bucket) /\ m \in Nat /\ DOMAIN c = 1 .. m
      /\ s \in Seq(Bucket) /\ k \in Nat /\ DOMAIN s = 1 .. k
      /\ n \in Nat /\ n <= m
  BY WalkIndices
<1>2. /\ \A i \in 1 .. m : c[i] \in Bucket
      /\ \A i, j \in 1 .. m : c[i] = c[j] => i = j
  <2>1. \A i, j \in 1 .. m : c[i] = c[j] => i = j
    BY <1>1, InjectiveIndices DEF Linked
  <2> QED
    BY <2>1, WalkIndices
<1>3. /\ spares = IF k = 0 THEN NULL ELSE s[1]
      /\ \A i \in 1 .. k : s[i] \in Bucket /\ next[s[i]] = IF i = k THEN NULL ELSE s[i + 1]
      /\ \A i, j \in 1 .. k : s[i] = s[j] => i = j
  <2>1. \A i, j \in 1 .. k : s[i] = s[j] => i = j
    BY <1>1, InjectiveIndices DEF Linked
  <2> QED
    BY <2>1, WalkIndices
<1> HIDE DEF m, k
<1>4. \A i \in 1 .. m, j \in 1 .. k : c[i] # s[j]
  <2>1. \A i \in 1 .. m : c[i] \in Blocks(c)
    BY <1>1 DEF Blocks
  <2>2. \A j \in 1 .. k : s[j] \in Blocks(s)
    BY <1>1 DEF Blocks
  <2> QED
    BY <2>1, <2>2 DEF Linked
<1> DEFINE f == [i \in 1 .. n + k |-> IF i <= n THEN c[n + 1 - i] ELSE s[i - n]]
<1>8. \A i \in 1 .. n + k : IF i <= n THEN n + 1 - i \in 1 .. n ELSE i - n \in 1 .. k
  BY <1>1
<1>9. f \in [1 .. n + k -> Bucket]
  BY <1>1, <1>2, <1>3, <1>8
<1>10. PICK t \in Seq(Bucket) : t = f
  <2>1. n + k \in Nat
    BY <1>1
  <2>2. f \in Seq(Bucket)
    <3> HIDE DEF f
    <3> QED
      BY <1>9, <2>1
  <2> QED
    BY <2>2
<1>11. /\ Len(t) = n + k /\ DOMAIN t = 1 .. n + k
       /\ \A i \in 1 .. n + k : t[i] = IF i <= n THEN c[n + 1 - i] ELSE s[i - n]
  BY <1>1, <1>9, <1>10
<1> HIDE DEF f
<1>12. IsInjective(t)
  <2> SUFFICES ASSUME NEW i \in 1 .. n + k, NEW j \in 1 .. n + k, t[i] = t[j]
               PROVE  i = j
    BY <1>11 DEF IsInjective
  <2>1. CASE i <= n /\ j <= n
    <3>1. n + 1 - i \in 1 .. m /\ n + 1 - j \in 1 .. m /\ c[n + 1 - i] = c[n + 1 - j]
      BY <1>1, <1>8, <1>11, <2>1
    <3>2. n + 1 - i = n + 1 - j
      BY <1>2, <3>1
    <3> QED
      BY <3>2
  <2>2. CASE ~ (i <= n) /\ ~ (j <= n)
    <3>1. i - n \in 1 .. k /\ j - n \in 1 .. k /\ s[i - n] = s[j - n]
      BY <1>8, <1>11, <2>2
    <3>2. i - n = j - n
      BY <1>3, <3>1
    <3> QED
      BY <3>2
  <2>3. CASE (i <= n /\ ~ (j <= n)) \/ (~ (i <= n) /\ j <= n)
    BY <1>1, <1>4, <1>8, <1>11, <2>3
  <2> QED
    BY <2>1, <2>2, <2>3
<1>13. Blocks(t) = {c[i] : i \in 1 .. n} \cup Blocks(s)
  <2>1. ASSUME NEW i \in 1 .. n + k PROVE t[i] \in {c[j] : j \in 1 .. n} \cup Blocks(s)
    BY <1>1, <1>8, <1>11 DEF Blocks
  <2>4. Blocks(t) = {t[i] : i \in 1 .. n + k} /\ Blocks(s) = {s[j] : j \in 1 .. k}
    BY <1>1, <1>11 DEF Blocks
  <2>2. ASSUME NEW j \in 1 .. n PROVE c[j] \in Blocks(t)
    <3>1. n + 1 - j \in DOMAIN t /\ t[n + 1 - j] = c[j]
      <4>1. n + 1 - j \in 1 .. n + k /\ n + 1 - j <= n /\ n + 1 - (n + 1 - j) = j
        BY <1>1
      <4> QED
        BY <1>11, <4>1
    <3> QED
      BY <3>1 DEF Blocks
  <2>3. ASSUME NEW j \in 1 .. k PROVE s[j] \in Blocks(t)
    <3>1. j + n \in DOMAIN t /\ t[j + n] = s[j]
      <4>1. j + n \in 1 .. n + k /\ ~ (j + n <= n) /\ (j + n) - n = j
        BY <1>1
      <4> QED
        BY <1>11, <4>1
    <3> QED
      BY <3>1 DEF Blocks
  <2>5. Blocks(t) \subseteq {c[i] : i \in 1 .. n} \cup Blocks(s)
    BY <2>1, <2>4
  <2>6. {c[i] : i \in 1 .. n} \subseteq Blocks(t)
    BY <2>2
  <2>7. Blocks(s) \subseteq Blocks(t)
    BY <2>3, <2>4
  <2> QED
    BY <2>5, <2>6, <2>7
<1>14. IsWalk(t, spares)'
  <2>1. spares' = IF n + k = 0 THEN NULL ELSE t[1]
    <3>1. CASE n = 0
      BY <1>1, <1>3, <1>11, <3>1
    <3>2. CASE n # 0
      <4>1. 1 \in 1 .. n + k /\ 1 <= n /\ n + 1 - 1 = n /\ n + k # 0
        BY <1>1, <3>2
      <4> QED
        BY <1>11, <3>2, <4>1
    <3> QED
      BY <3>1, <3>2
  <2>2. ASSUME NEW i \in 1 .. n + k
        PROVE  next'[t[i]] = IF i = n + k THEN NULL ELSE t[i + 1]
    <3>1. CASE i < n
      <4>1. t[i] = c[n + 1 - i] /\ n + 1 - i \in 2 .. n /\ (n + 1 - i) - 1 = n - i
        BY <1>1, <1>11, <3>1
      <4>2. t[i + 1] = c[n - i]
        <5>1. i + 1 \in 1 .. n + k /\ i + 1 <= n /\ n + 1 - (i + 1) = n - i
          BY <1>1, <3>1
        <5> QED
          BY <1>11, <5>1
      <4>3. next'[t[i]] = c[(n + 1 - i) - 1]
        BY <4>1
      <4> QED
        BY <1>1, <3>1, <4>1, <4>2, <4>3
    <3>2. CASE i = n
      <4>1. n + 1 - i = 1 /\ n > 0
        BY <1>1, <3>2
      <4>2. next'[t[i]] = spares
        BY <1>11, <3>2, <4>1
      <4>3. k # 0 => t[i + 1] = s[1]
        <5>1. k # 0 => i + 1 \in 1 .. n + k /\ ~ (i + 1 <= n) /\ (i + 1) - n = 1
          BY <1>1, <3>2
        <5> QED
          BY <1>11, <5>1
      <4> QED
        BY <1>1, <1>3, <3>2, <4>2, <4>3
    <3>3. CASE i > n
      <4>1. t[i] = s[i - n] /\ i - n \in 1 .. k
        BY <1>1, <1>8, <1>11, <3>3
      <4>2. next'[t[i]] = IF i - n = k THEN NULL ELSE s[(i - n) + 1]
        BY <1>3, <4>1 DEF k
      <4>3. i # n + k => t[i + 1] = s[(i - n) + 1]
        <5>1. i \in Nat /\ n + k \in Nat /\ i <= n + k
          BY <1>1
        <5>2. i # n + k => i + 1 \in 1 .. n + k
          BY <5>1
        <5>3. ~ (i + 1 <= n) /\ (i + 1) - n = (i - n) + 1
          BY <1>1, <3>3, <5>1
        <5> QED
          BY <1>11, <5>2, <5>3
      <4>4. i - n = k <=> i = n + k
        BY <1>1
      <4> QED
        BY <4>2, <4>3, <4>4
    <3> QED
      BY <3>1, <3>2, <3>3
  <2>3. t = <<>> <=> n + k = 0
    BY <1>1, <1>11
  <2> QED
    BY <1>11, <2>1, <2>2, <2>3 DEF IsWalk
<1>15. t \in Walks(spares)'
  BY <1>12, <1>14, InjectiveIsBounded DEF Walks
<1>16. allocated' = Blocks(t)
  <2>1. allocated = Blocks(c) \cup Blocks(s) /\ Blocks(c) = {c[i] : i \in 1 .. m}
    BY <1>1 DEF Linked, Blocks
  <2>2. allocated' = allocated \ {c[i] : i \in n + 1 .. m}
    BY DEF m
  <2>3. ASSUME NEW i \in 1 .. m
        PROVE  c[i] \in {c[j] : j \in n + 1 .. m} <=> c[i] \notin {c[j] : j \in 1 .. n}
    <3>1. i \in 1 .. n \/ i \in n + 1 .. m
      BY <1>1
    <3>2. \A j \in 1 .. n : j \in 1 .. m /\ j \notin n + 1 .. m
      BY <1>1
    <3>3. \A j \in n + 1 .. m : j \in 1 .. m
      BY <1>1
    <3> QED
      BY <1>2, <3>1, <3>2, <3>3
  <2>4. \A b \in Blocks(s) : b \notin {c[j] : j \in n + 1 .. m}
    <3>1. \A j \in n + 1 .. m : j \in 1 .. m
      BY <1>1
    <3> QED
      BY <1>1, <1>4, <3>1 DEF Blocks
  <2>5. {c[j] : j \in 1 .. n} \subseteq Blocks(c)
    <3>1. \A j \in 1 .. n : j \in 1 .. m
      BY <1>1
    <3> QED
      BY <2>1, <3>1
  <2> DEFINE gone == {c[j] : j \in n + 1 .. m}
             kept == {c[j] : j \in 1 .. n}
  <2>6. \A b \in Blocks(c) : b \in gone <=> b \notin kept
    BY <2>1, <2>3
  <2>7. /\ kept \subseteq Blocks(c) /\ Blocks(t) = kept \cup Blocks(s)
        /\ allocated' = allocated \ gone
        /\ \A b \in Blocks(s) : b \notin gone
    BY <1>13, <2>2, <2>4, <2>5
  <2> HIDE DEF gone, kept
  <2> QED
    BY <2>1, <2>6, <2>7
<1>17. Len(t) + spareAllowance' = allowance'
  <2>1. k + spareAllowance = allowance
    BY DEF Linked, k
  <2>2. spareAllowance \in Nat /\ allowance \in Nat
    BY QueueAssumption DEF TypeOK
  <2>3. spareAllowance' = spareAllowance - n /\ allowance' = allowance
    OBVIOUS
  <2> QED
    BY <1>1, <1>11, <2>1, <2>2, <2>3
<1>18. Linked(<<>>, t)'
  <2>1. IsInjective(<<>>) /\ Blocks(<<>>) = {}
    BY DEF IsInjective, Blocks
  <2> QED
    BY <1>12, <1>16, <1>17, <2>1 DEF Linked
<1> QED
  BY <1>15, <1>18

-----------------------------------------------------------------------------
(* The inductive invariant *)

LEMMA OneOrMore ==
    ASSUME NEW n \in Nat, n >= 1
    PROVE  n = 1 \/ n > 1
OBVIOUS

LEMMA ZeroPlus ==
    ASSUME NEW n \in Nat
    PROVE  0 + n = n
OBVIOUS

LEMMA Product ==
    ASSUME NEW n \in Nat, NEW b \in Nat, n >= 1
    PROVE  (n - 1) * b \in Nat /\ n * b = (n - 1) * b + b
OBVIOUS

(* Division by the size of a bucket: which bucket, and which place in it.  *)
LEMMA Division ==
    ASSUME NEW n \in Nat, NEW b \in Nat, b > 0
    PROVE  n \div b \in Nat /\ n % b \in 0 .. b - 1 /\ n = (n \div b) * b + (n % b)
OBVIOUS

LEMMA Quotient ==
    ASSUME NEW q \in Nat, NEW r \in Nat, NEW b \in Nat, r < b
    PROVE  (q * b + r) \div b = q /\ (q * b + r) % b = r
<1>1. (q * b + r) \div b = q
  OBVIOUS
<1>2. (q * b + r) % b = r
  OBVIOUS
<1> QED
  BY <1>1, <1>2

LEMMA ProductOrder ==
    ASSUME NEW p \in Nat, NEW q \in Nat, NEW b \in Nat, p < q
    PROVE  p * b \in Nat /\ q * b >= p * b + b
OBVIOUS

LEMMA ProductType ==
    ASSUME NEW p \in Nat, NEW b \in Nat
    PROVE  p * b \in Nat
OBVIOUS

(* The i-th item of the queue is at the place (q, r) that is readIndex + i *)
(* - 1 places behind the start of the chain.                               *)
LEMMA ContentsAt ==
    ASSUME TypeOK, NEW c \in Walks(read), NEW i \in 1 .. count,
           NEW q \in 1 .. Len(c), NEW r \in Index,
           readIndex + i - 1 = (q - 1) * BucketSize + r
    PROVE  Contents[i] = storage[c[q]][r]
<1>1. (CHOOSE d \in Walks(read) : TRUE) = c
  BY WalksUnique
<1>2. q - 1 \in Nat /\ r \in Nat /\ BucketSize \in Nat /\ r < BucketSize /\ (q - 1) + 1 = q
  <2>1. Len(c) \in Nat
    BY WalkIndices
  <2> QED
    BY <2>1, QueueAssumption DEF Index
<1>3. /\ (readIndex + i - 1) \div BucketSize = q - 1
      /\ (readIndex + i - 1) % BucketSize = r
  <2>1. \A k \in Nat : /\ (k * BucketSize + r) \div BucketSize = k
                       /\ (k * BucketSize + r) % BucketSize = r
    BY <1>2, Quotient
  <2> QED
    BY <1>2, <2>1
<1> QED
  BY <1>1, <1>2, <1>3 DEF Contents

(* Every item of the queue has a place in the chain, before the write      *)
(* position and not before the read position.                              *)
LEMMA ContentsPlace ==
    ASSUME TypeOK, NEW c \in Walks(read), Positioned(c), NEW i \in 1 .. count
    PROVE  \E q \in 1 .. Len(c), r \in Index :
              /\ readIndex + i - 1 = (q - 1) * BucketSize + r
              /\ q = Len(c) => r < writeIndex
              /\ q = 1 => readIndex <= r
<1> DEFINE at == readIndex + i - 1
           k  == at \div BucketSize
           r  == at % BucketSize
<1>1. /\ Len(c) \in Nat /\ BucketSize \in Nat /\ BucketSize > 0 /\ i \in Nat /\ i >= 1
      /\ readIndex \in Nat /\ readIndex <= BucketSize
      /\ writeIndex \in Nat /\ writeIndex <= BucketSize
      /\ count \in Nat /\ i <= count
  <2>1. Len(c) \in Nat
    BY WalkIndices
  <2> QED
    BY <2>1, QueueAssumption DEF TypeOK
<1>2. c # <<>> /\ Len(c) >= 1 /\ count = (Len(c) - 1) * BucketSize + writeIndex - readIndex
  <2>1. c # <<>>
    BY <1>1 DEF Positioned
  <2>2. c \in Seq(Bucket)
    BY WalkIndices
  <2> QED
    BY <2>1, <2>2 DEF Positioned
<1>3. at \in Nat
  BY <1>1
<1>4. k \in Nat /\ r \in 0 .. BucketSize - 1 /\ at = k * BucketSize + r
  <2> HIDE DEF at
  <2> QED
    BY <1>1, <1>3, Division
<1>5. at < (Len(c) - 1) * BucketSize + writeIndex
  <2>1. (Len(c) - 1) * BucketSize \in Nat
    BY <1>1, <1>2, Product
  <2> QED
    BY <1>1, <1>2, <2>1
<1>6. readIndex <= at
  BY <1>1
<1> HIDE DEF k, r, at
<1>7. k < Len(c)
  <2> SUFFICES ASSUME Len(c) <= k PROVE FALSE
    BY <1>1, <1>4
  <2>1. k * BucketSize >= (Len(c) - 1) * BucketSize + BucketSize
    <3>1. Len(c) - 1 \in Nat /\ Len(c) - 1 < k
      BY <1>1, <1>2, <1>4
    <3> QED
      BY <1>1, <1>4, <3>1, ProductOrder
  <2>2. (Len(c) - 1) * BucketSize \in Nat /\ k * BucketSize \in Nat
    BY <1>1, <1>2, <1>4, Product, ProductType
  <2> QED
    BY <1>1, <1>4, <1>5, <2>1, <2>2
<1>8. k + 1 \in 1 .. Len(c) /\ (k + 1) - 1 = k /\ r \in Index
  BY <1>1, <1>4, <1>7 DEF Index
<1>9. k + 1 = Len(c) => r < writeIndex
  <2> SUFFICES ASSUME k + 1 = Len(c) PROVE r < writeIndex
    OBVIOUS
  <2>1. k = Len(c) - 1
    BY <1>1, <1>4
  <2>2. k * BucketSize \in Nat
    BY <1>1, <1>4, ProductType
  <2>3. k * BucketSize + r < k * BucketSize + writeIndex
    BY <1>4, <1>5, <2>1
  <2> QED
    BY <1>1, <1>4, <2>2, <2>3
<1>10. k + 1 = 1 => readIndex <= r
  <2> SUFFICES ASSUME k + 1 = 1 PROVE readIndex <= r
    OBVIOUS
  <2>1. k = 0
    BY <1>4
  <2>2. 0 * BucketSize = 0
    BY <1>1
  <2> QED
    BY <1>1, <1>4, <1>6, <2>1, <2>2
<1> QED
  BY <1>4, <1>8, <1>9, <1>10 DEF at

(* What is queued is a sequence of count items.                            *)
LEMMA ContentsType ==
    ASSUME TypeOK, NEW c \in Walks(read), Positioned(c)
    PROVE  /\ Contents \in Seq(Item \cup {NULL})
           /\ Len(Contents) = count /\ DOMAIN Contents = 1 .. count
<1>1. count \in Nat
  BY DEF TypeOK
<1>2. ASSUME NEW i \in 1 .. count PROVE Contents[i] \in Item \cup {NULL}
  <2>1. PICK q \in 1 .. Len(c), r \in Index :
               readIndex + i - 1 = (q - 1) * BucketSize + r
    BY ContentsPlace
  <2>2. c[q] \in Bucket
    BY WalkIndices
  <2>3. Contents[i] = storage[c[q]][r]
    BY <2>1, ContentsAt
  <2> QED
    BY <2>2, <2>3 DEF TypeOK
<1>3. DOMAIN Contents = 1 .. count /\ Contents = [i \in 1 .. count |-> Contents[i]]
  BY DEF Contents
<1>4. Contents \in [1 .. count -> Item \cup {NULL}]
  BY <1>2, <1>3
<1> QED
  BY <1>1, <1>4

(* While an enumerator is not open on the new state, the invariant is a    *)
(* matter of types, links and positions.                                   *)
LEMMA Establish ==
    ASSUME TypeOK', live', NEW c \in Walks(read)', NEW s \in Walks(spares)',
           Linked(c, s)', Positioned(c)', rover' \in {None, Stale}
    PROVE  QueueInv'
<1>1. Enumerating(c)'
  BY DEF Enumerating
<1> QED
  BY <1>1 DEF QueueInv

LEMMA InitInv == Init => QueueInv
<1> SUFFICES ASSUME Init PROVE QueueInv
  OBVIOUS
<1>1. TypeOK
  BY QueueAssumption DEF Init, TypeOK, Void, Index
<1>2. <<>> \in Seq(Bucket) /\ IsInjective(<<>>) /\ Blocks(<<>>) = {} /\ Len(<<>>) = 0
  BY DEF IsInjective, Blocks
<1>3. IsWalk(<<>>, NULL)
  BY DEF IsWalk
<1>4. <<>> \in Walks(read) /\ <<>> \in Walks(spares)
  BY <1>2, <1>3, InjectiveIsBounded DEF Walks, Init
<1>5. Linked(<<>>, <<>>) /\ Positioned(<<>>) /\ Enumerating(<<>>)
  BY <1>2, QueueAssumption DEF Linked, Positioned, Enumerating, Init
<1> QED
  BY <1>1, <1>4, <1>5 DEF QueueInv, Init

LEMMA PushInv ==
    ASSUME QueueInv, NEW x \in Item, Push(x)
    PROVE  QueueInv'
<1>1. TypeOK /\ live /\ live' = live /\ allowance' = allowance /\ rover' \in {None, Stale}
  BY DEF QueueInv, Push, Modify
<1>2. PICK c \in Walks(read), s \in Walks(spares) : Linked(c, s) /\ Positioned(c)
  BY <1>1 DEF QueueInv
<1>3. /\ c \in Seq(Bucket) /\ Len(c) \in Nat /\ DOMAIN c = 1 .. Len(c)
      /\ \A i \in 1 .. Len(c) : c[i] \in Bucket
      /\ c = <<>> <=> Len(c) = 0
  BY WalkIndices
<1>4. /\ BucketSize \in Nat /\ BucketSize > 0
      /\ readIndex \in Nat /\ readIndex <= BucketSize
      /\ writeIndex \in Nat /\ writeIndex <= BucketSize /\ count \in Nat
      /\ count' = count + 1 /\ ret' = None
  BY <1>1, QueueAssumption DEF TypeOK, Push
<1>5. CASE PushIntoBucket(x)
  <2>1. /\ next' = next /\ allocated' = allocated /\ read' = read /\ write' = write
        /\ spares' = spares /\ readIndex' = readIndex /\ spareAllowance' = spareAllowance
        /\ writeIndex' = writeIndex + 1 /\ writeIndex < BucketSize
        /\ storage' = [storage EXCEPT ![write][writeIndex] = x]
    BY <1>5 DEF PushIntoBucket
  <2>2. TypeOK'
    <3>1. storage' \in [Bucket -> [Index -> Item \cup {NULL}]]
      <4>1. [storage[write] EXCEPT ![writeIndex] = x] \in [Index -> Item \cup {NULL}]
            \/ write \notin Bucket
        BY <1>1 DEF TypeOK
      <4> QED
        BY <1>1, <2>1, <4>1 DEF TypeOK
    <3>2. writeIndex' \in 0 .. BucketSize /\ count' \in Nat
      BY <1>4, <2>1
    <3> QED
      BY <1>1, <1>4, <2>1, <3>1, <3>2 DEF TypeOK
  <2>3. c \in Walks(read)' /\ s \in Walks(spares)'
    BY <2>1 DEF Walks, IsWalk
  <2>4. Linked(c, s)'
    BY <1>1, <1>2, <2>1 DEF Linked
  <2>5. Positioned(c)'
    BY <1>2, <1>3, <1>4, <2>1 DEF Positioned
  <2> QED
    BY <1>1, <2>2, <2>3, <2>4, <2>5, Establish
<1>6. CASE PushAndGrow(x)
  <2>1. PICK p \in Bucket : Grow(p) /\ storage' = [storage EXCEPT ![p][0] = x]
    BY <1>6 DEF PushAndGrow
  <2>2. /\ writeIndex = BucketSize /\ writeIndex' = 1
        /\ write' = p /\ readIndex' = IF read = NULL THEN 0 ELSE readIndex
        /\ read' = IF read = NULL THEN p ELSE read
    BY <1>4, <1>6, <2>1 DEF PushAndGrow, Grow
  <2>3. /\ Append(c, p) \in Walks(read)'
        /\ \E t \in Walks(spares)' : Linked(Append(c, p), t)'
    BY <1>1, <1>2, <2>1, GrowLinked DEF Positioned
  <2>4. PICK e \in Seq(Bucket) : e = Append(c, p)
    BY <1>3, AppendFacts
  <2>5. /\ Len(e) = Len(c) + 1 /\ e[Len(c) + 1] = p /\ e # <<>>
    <3>1. Len(e) = Len(c) + 1 /\ e[Len(c) + 1] = p
      BY <1>3, <2>4, AppendFacts
    <3> QED
      BY <1>3, <3>1
  <2>6. PICK t \in Walks(spares)' : Linked(e, t)'
    BY <2>3, <2>4
  <2>7. read = NULL <=> c = <<>>
    BY WalkStarts
  <2>8. count' = Len(c) * BucketSize + 1 - readIndex'
    <3>1. CASE c = <<>>
      BY <1>2, <1>3, <1>4, <2>2, <2>7, <3>1 DEF Positioned
    <3>2. CASE c # <<>>
      <4>1. count = (Len(c) - 1) * BucketSize + BucketSize - readIndex /\ Len(c) >= 1
        BY <1>2, <1>3, <2>2, <3>2 DEF Positioned
      <4>2. (Len(c) - 1) * BucketSize \in Nat
            /\ Len(c) * BucketSize = (Len(c) - 1) * BucketSize + BucketSize
        BY <1>3, <1>4, <4>1, Product
      <4>3. readIndex' = readIndex
        BY <2>2, <2>7, <3>2
      <4> QED
        BY <1>4, <4>1, <4>2, <4>3
    <3> QED
      BY <3>1, <3>2
  <2>9. TypeOK'
    <3>1. /\ next' \in [Bucket -> Bucket \cup {NULL}] /\ allocated' \subseteq Bucket
          /\ spares' \in Bucket \cup {NULL}
      BY <1>1, <2>1 DEF Grow, NewBucket, TypeOK
    <3>2. spareAllowance' \in 0 .. allowance'
      <4>1. t \in Seq(Bucket)
        BY <2>6, BoundedIsSeq DEF Walks
      <4>2. Len(t) \in Nat /\ Len(t) + spareAllowance' = allowance'
        BY <2>6, <4>1 DEF Linked
      <4>3. spareAllowance' \in Nat /\ allowance' \in Nat
        BY <1>1, <2>1, QueueAssumption DEF Grow, NewBucket, TypeOK
      <4> QED
        BY <4>2, <4>3
    <3>3. storage' \in [Bucket -> [Index -> Item \cup {NULL}]]
      BY <1>1, <1>4, <2>1 DEF TypeOK, Index
    <3>4. /\ {read', write'} \subseteq Bucket \cup {NULL}
          /\ readIndex' \in 0 .. BucketSize /\ writeIndex' \in 0 .. BucketSize
      BY <1>1, <1>4, <2>2 DEF TypeOK
    <3> QED
      BY <1>1, <1>4, <3>1, <3>2, <3>3, <3>4 DEF TypeOK
  <2>10. Positioned(e)'
    <3>1. Len(e) - 1 = Len(c) /\ (Len(e) = 1 => c = <<>>)
      BY <1>3, <2>5
    <3>2. Len(e) = 1 => readIndex' <= writeIndex'
      BY <1>4, <2>2, <2>7, <3>1
    <3> QED
      BY <2>2, <2>5, <2>8, <3>1, <3>2 DEF Positioned
  <2> QED
    BY <1>1, <2>3, <2>4, <2>6, <2>9, <2>10, Establish
<1> QED
  BY <1>5, <1>6 DEF Push

(* What the positions say about count at the places where pop looks: the   *)
(* assertions of shrink and of pop_noshrink.                               *)
LEMMA Reading ==
    ASSUME TypeOK, NEW c \in Walks(read), Positioned(c), c # <<>>, IsInjective(c)
    PROVE  /\ Len(c) \in Nat /\ Len(c) >= 1
           /\ Len(c) = 1 <=> read = write
           /\ readIndex < BucketSize /\ (read # write \/ readIndex # writeIndex) => count > 0
           /\ read = write /\ readIndex = writeIndex => count = 0
           /\ readIndex = BucketSize /\ Len(c) = 1 => writeIndex = BucketSize /\ count = 0
           /\ Len(c) > 1 => /\ next[read] = c[2]
                            /\ Len(c) = 2 <=> next[read] = write
                            /\ readIndex = BucketSize /\ (Len(c) = 2 => writeIndex > 0) => count > 0
                            /\ readIndex = BucketSize /\ Len(c) = 2 /\ writeIndex = 0 => count = 0
<1>1. /\ Len(c) \in Nat /\ Len(c) >= 1 /\ DOMAIN c = 1 .. Len(c)
      /\ read = c[1] /\ write = c[Len(c)]
      /\ count = (Len(c) - 1) * BucketSize + writeIndex - readIndex
      /\ Len(c) = 1 => readIndex <= writeIndex
  <2>1. c \in Seq(Bucket) /\ DOMAIN c = 1 .. Len(c) /\ read = c[1]
    BY WalkIndices, WalkStarts
  <2>2. Len(c) \in Nat /\ Len(c) >= 1
    BY <2>1
  <2> QED
    BY <2>1, <2>2 DEF Positioned
<1>2. /\ BucketSize \in Nat /\ BucketSize > 0
      /\ readIndex \in Nat /\ readIndex <= BucketSize
      /\ writeIndex \in Nat /\ writeIndex <= BucketSize
  BY QueueAssumption DEF TypeOK
<1>3. Len(c) = 1 <=> read = write
  <2>1. 1 \in DOMAIN c /\ Len(c) \in DOMAIN c
    BY <1>1
  <2> QED
    BY <1>1, <2>1 DEF IsInjective
<1>4. CASE Len(c) = 1
  <2>1. count = writeIndex - readIndex /\ read = write
    BY <1>1, <1>2, <1>3, <1>4
  <2> QED
    BY <1>1, <1>2, <1>4, <2>1
<1>5. CASE Len(c) > 1
  <2>1. Len(c) - 1 \in Nat /\ Len(c) - 1 >= 1
    BY <1>1, <1>5
  <2>2. /\ (Len(c) - 1 - 1) * BucketSize \in Nat
        /\ (Len(c) - 1) * BucketSize = (Len(c) - 1 - 1) * BucketSize + BucketSize
    BY <1>2, <2>1, Product
  <2>3. readIndex < BucketSize => count > 0
    BY <1>1, <1>2, <2>2
  <2>4. next[read] = c[2] /\ (Len(c) = 2 <=> next[read] = write)
    <3>1. next[read] = c[2]
      BY <1>5, WalkStarts
    <3>2. 2 \in DOMAIN c /\ Len(c) \in DOMAIN c
      BY <1>1, <1>5
    <3> QED
      BY <1>1, <3>1, <3>2 DEF IsInjective
  <2>5. CASE Len(c) = 2
    <3>1. (Len(c) - 1) * BucketSize = BucketSize
      BY <1>2, <2>5
    <3>2. count = BucketSize + writeIndex - readIndex
      BY <1>1, <3>1
    <3> QED
      BY <1>1, <1>2, <1>3, <1>5, <2>3, <2>4, <2>5, <3>2
  <2>6. CASE Len(c) > 2
    <3>1. /\ (Len(c) - 2 - 1) * BucketSize \in Nat
          /\ (Len(c) - 2) * BucketSize = (Len(c) - 2 - 1) * BucketSize + BucketSize
      <4>1. Len(c) - 2 \in Nat /\ Len(c) - 2 >= 1
        BY <1>1, <2>6
      <4> QED
        BY <1>2, <4>1, Product
    <3>2. Len(c) - 1 - 1 = Len(c) - 2
      BY <1>1
    <3>3. count > 0
      BY <1>1, <1>2, <2>2, <3>1, <3>2
    <3> QED
      BY <1>1, <1>2, <1>3, <1>5, <2>4, <2>6, <3>3
  <2>7. Len(c) = 2 \/ Len(c) > 2
    BY <1>1, <1>5
  <2> QED
    BY <2>5, <2>6, <2>7
<1> QED
  BY <1>1, <1>4, <1>5

(* shrink on a chain: the first bucket goes, and everything stays typed.   *)
LEMMA ShrinkLinked ==
    ASSUME TypeOK, NEW c \in Walks(read), NEW s \in Walks(spares), Linked(c, s),
           read # NULL, FreeBucket(read), read' = next[read], allowance' = allowance
    PROVE  /\ c # <<>> /\ read \in Bucket
           /\ Tail(c) \in Walks(read)'
           /\ \E t \in Walks(spares)' : Linked(Tail(c), t)'
           /\ next' \in [Bucket -> Bucket \cup {NULL}] /\ allocated' \subseteq Bucket
           /\ read' \in Bucket \cup {NULL} /\ spares' \in Bucket \cup {NULL}
           /\ spareAllowance' \in 0 .. allowance'
           /\ storage' \in [Bucket -> [Index -> Item \cup {NULL}]]
<1>1. c # <<>> /\ read \in Bucket
  BY WalkStarts
<1>2. Tail(c) \in Walks(read)' /\ \E t \in Walks(spares)' : Linked(Tail(c), t)'
  BY <1>1, FreeBucketLinked
<1>3. /\ next' \in [Bucket -> Bucket \cup {NULL}] /\ allocated' \subseteq Bucket
      /\ spares' \in Bucket \cup {NULL} /\ read' \in Bucket \cup {NULL}
  BY <1>1 DEF FreeBucket, TypeOK
<1>4. spareAllowance' \in 0 .. allowance'
  BY QueueAssumption DEF FreeBucket, TypeOK
<1>5. storage' \in [Bucket -> [Index -> Item \cup {NULL}]]
  BY DEF FreeBucket, TypeOK, Void
<1> QED
  BY <1>1, <1>2, <1>3, <1>4, <1>5

LEMMA PopInv ==
    ASSUME QueueInv, Pop
    PROVE  QueueInv'
<1>1. TypeOK /\ live /\ live' = live /\ allowance' = allowance
  BY DEF QueueInv, Pop
<1>2. PICK c \in Walks(read), s \in Walks(spares) :
         Linked(c, s) /\ Positioned(c) /\ Enumerating(c)
  BY <1>1 DEF QueueInv
<1>3. /\ c \in Seq(Bucket) /\ Len(c) \in Nat /\ DOMAIN c = 1 .. Len(c)
      /\ \A i \in 1 .. Len(c) : c[i] \in Bucket
  BY WalkIndices
<1>4. /\ BucketSize \in Nat /\ BucketSize > 0
      /\ readIndex \in Nat /\ readIndex <= BucketSize
      /\ writeIndex \in Nat /\ writeIndex <= BucketSize /\ count \in Nat
  BY <1>1, QueueAssumption DEF TypeOK
<1>5. read # NULL <=> c # <<>>
  BY WalkStarts
<1>6. CASE PopNothing
  <2>1. /\ UNCHANGED <<blocks, fields, rover, allowance, live>> /\ ret' = NULL
    BY <1>1, <1>6 DEF PopNothing
  <2>2. TypeOK'
    BY <1>1, <2>1 DEF TypeOK, blocks, fields
  <2>3. Walks(read)' = Walks(read) /\ Walks(spares)' = Walks(spares)
    BY <2>1 DEF Walks, IsWalk, blocks, fields
  <2>4. Contents' = Contents
    BY <2>1, <2>3 DEF Contents, blocks, fields
  <2>5. Linked(c, s)' /\ Positioned(c)' /\ Enumerating(c)'
    BY <1>2, <2>1, <2>4 DEF Linked, Positioned, Enumerating, Limit, blocks, fields
  <2> QED
    BY <1>1, <2>1, <2>2, <2>3, <2>5 DEF QueueInv
<1>7. CASE PopFromBucket
  <2>1. /\ next' = next /\ storage' = storage /\ allocated' = allocated /\ read' = read
        /\ write' = write /\ spares' = spares /\ writeIndex' = writeIndex
        /\ spareAllowance' = spareAllowance
        /\ readIndex' = readIndex + 1 /\ count' = count - 1
        /\ ret' = storage[read][readIndex] /\ rover' \in {None, Stale}
        /\ readIndex < BucketSize /\ (read # write \/ readIndex # writeIndex)
    BY <1>7 DEF PopFromBucket, Modify, blocks
  <2>2. c # <<>>
    BY <1>2, <1>4, <2>1 DEF Positioned
  <2>3. read \in Bucket /\ count > 0 /\ (Len(c) = 1 <=> read = write)
    BY <1>1, <1>2, <2>1, <2>2, WalkStarts, Reading DEF Linked
  <2>4. TypeOK'
    <3>1. ret' \in Item \cup {NULL}
      <4>1. readIndex \in Index /\ storage[read] \in [Index -> Item \cup {NULL}]
        BY <1>1, <1>4, <2>1, <2>3 DEF TypeOK, Index
      <4> QED
        BY <2>1, <4>1
    <3>2. readIndex' \in 0 .. BucketSize /\ count' \in Nat
      BY <1>4, <2>1, <2>3
    <3> QED
      BY <1>1, <2>1, <3>1, <3>2 DEF TypeOK
  <2>5. c \in Walks(read)' /\ s \in Walks(spares)'
    BY <2>1 DEF Walks, IsWalk
  <2>6. Linked(c, s)'
    BY <1>1, <1>2, <2>1 DEF Linked
  <2>7. Positioned(c)'
    <3>1. /\ count = (Len(c) - 1) * BucketSize + writeIndex - readIndex
          /\ Len(c) = 1 => readIndex < writeIndex
      BY <1>2, <1>4, <2>1, <2>2, <2>3 DEF Positioned
    <3>2. Len(c) >= 1 /\ (Len(c) - 1) * BucketSize \in Nat
      <4>1. Len(c) >= 1
        BY <1>3, <2>2
      <4> QED
        BY <1>3, <1>4, <4>1, Product
    <3>3. count' = (Len(c) - 1) * BucketSize + writeIndex' - readIndex'
      BY <1>4, <2>1, <3>1, <3>2
    <3>4. Len(c) = 1 => readIndex' <= writeIndex'
      BY <1>4, <2>1, <3>1
    <3> QED
      BY <1>2, <2>1, <2>2, <3>1, <3>3, <3>4 DEF Positioned
  <2> QED
    BY <1>1, <2>1, <2>4, <2>5, <2>6, <2>7, Establish
<1>8. ASSUME PopLastBucket \/ PopNextBucket
      PROVE  /\ c # <<>> /\ read \in Bucket /\ readIndex = BucketSize
             /\ rover' \in {None, Stale} /\ read' = next[read] /\ FreeBucket(read)
             /\ Tail(c) \in Walks(read)'
             /\ \E t \in Walks(spares)' : Linked(Tail(c), t)'
             /\ next' \in [Bucket -> Bucket \cup {NULL}] /\ allocated' \subseteq Bucket
             /\ read' \in Bucket \cup {NULL} /\ spares' \in Bucket \cup {NULL}
             /\ spareAllowance' \in 0 .. allowance'
             /\ storage' \in [Bucket -> [Index -> Item \cup {NULL}]]
  <2>1. /\ readIndex = BucketSize /\ read # NULL /\ read' = next[read] /\ FreeBucket(read)
        /\ rover' \in {None, Stale}
    BY <1>4, <1>8 DEF PopLastBucket, PopNextBucket, Modify
  <2> QED
    BY <1>1, <1>2, <2>1, ShrinkLinked
<1>9. CASE PopLastBucket
  <2>1. /\ next[read] = NULL /\ write' = NULL /\ readIndex' = BucketSize
        /\ writeIndex' = BucketSize /\ count' = count /\ ret' = NULL
    BY <1>9 DEF PopLastBucket
  <2>2. Len(c) = 1
    BY <1>8, <1>9, <2>1, WalkStarts
  <2>3. count = 0
    BY <1>1, <1>2, <1>8, <1>9, <2>2, Reading DEF Linked
  <2>4. Tail(c) = <<>>
    <3>1. Tail(c) \in Seq(Bucket) /\ Len(Tail(c)) = 0
      BY <1>3, <2>2, TailFacts
    <3> QED
      BY <3>1, EmptyFacts
  <2>5. PICK t \in Walks(spares)' : Linked(<<>>, t)'
    BY <1>8, <1>9, <2>4
  <2>6. TypeOK'
    BY <1>1, <1>4, <1>8, <1>9, <2>1 DEF TypeOK
  <2>7. Positioned(<<>>)'
    BY <2>1, <2>3 DEF Positioned
  <2> QED
    BY <1>1, <1>8, <1>9, <2>4, <2>5, <2>6, <2>7, Establish
<1>10. CASE PopNextBucket
  <2>1. /\ next[read] # NULL /\ write' = write /\ writeIndex' = writeIndex
    BY <1>10 DEF PopNextBucket
  <2>2. /\ Len(c) > 1 /\ write = c[Len(c)]
        /\ count = (Len(c) - 1) * BucketSize + writeIndex - readIndex
        /\ Len(c) = 2 <=> next[read] = write
        /\ (Len(c) = 2 => writeIndex > 0) => count > 0
    <3>1. Len(c) # 1 /\ Len(c) >= 1
      <4>1. Len(c) >= 1
        BY <1>3, <1>8, <1>10
      <4> QED
        BY <1>8, <1>10, <2>1, <4>1, WalkStarts
    <3>2. Len(c) > 1
      BY <1>3, <3>1
    <3> QED
      BY <1>1, <1>2, <1>8, <1>10, <3>2, Reading DEF Positioned, Linked
  <2>3. \/ /\ Len(c) = 2 /\ writeIndex = 0
           /\ readIndex' = 0 /\ ret' = NULL /\ count' = count
        \/ /\ Len(c) = 2 => writeIndex > 0
           /\ readIndex' = 1 /\ count' = count - 1 /\ ret' = storage[next[read]][0]
    BY <1>4, <1>10, <2>2 DEF PopNextBucket
  <2>4. count' \in Nat
    BY <1>4, <2>2, <2>3
  <2>5. PICK d \in Seq(Bucket) : d = Tail(c)
    <3>1. Len(c) >= 1
      BY <1>3, <2>2
    <3> QED
      BY <1>3, <3>1, TailFacts
  <2>6. /\ Len(d) = Len(c) - 1
        /\ \A i \in 1 .. Len(c) - 1 : d[i] = c[i + 1]
    BY <1>3, <2>2, <2>5, TailFacts
  <2>7. PICK t \in Walks(spares)' : Linked(d, t)'
    BY <1>8, <1>10, <2>5
  <2>8. TypeOK'
    <3>1. ret' \in Item \cup {NULL}
      <4>1. 0 \in Index /\ next[read] \in Bucket
        BY <1>1, <1>4, <1>8, <1>10, <2>1 DEF TypeOK, Index
      <4>2. storage[next[read]][0] \in Item \cup {NULL}
        BY <1>1, <4>1 DEF TypeOK
      <4> QED
        BY <2>3, <4>2
    <3>2. readIndex' \in 0 .. BucketSize /\ count' \in Nat
      BY <1>4, <2>3, <2>4
    <3> QED
      BY <1>1, <1>8, <1>10, <2>1, <3>1, <3>2 DEF TypeOK
  <2>9. Positioned(d)'
    <3>1. d # <<>> /\ d[Len(d)] = c[Len(c)]
      <4>1. Len(c) - 1 \in 1 .. Len(c) - 1 /\ (Len(c) - 1) + 1 = Len(c)
        BY <1>3, <2>2
      <4> QED
        BY <1>3, <2>2, <2>6, <4>1
    <3>2. Len(c) - 1 \in Nat /\ Len(c) - 1 >= 1
      BY <1>3, <2>2
    <3>3. /\ (Len(c) - 1 - 1) * BucketSize \in Nat
          /\ (Len(c) - 1) * BucketSize = (Len(c) - 1 - 1) * BucketSize + BucketSize
      BY <1>4, <3>2, Product
    <3>4. count' = (Len(d) - 1) * BucketSize + writeIndex' - readIndex'
      BY <1>4, <1>8, <1>10, <2>1, <2>2, <2>3, <2>6, <3>3
    <3>5. Len(d) = 1 => readIndex' <= writeIndex'
      <4>1. Len(c) \in Nat /\ Len(d) = Len(c) - 1
        BY <1>3, <2>6
      <4>2. Len(d) = 1 => Len(c) = 2
        <5>1. \A n \in Nat : n - 1 = 1 => n = 2
          OBVIOUS
        <5> QED
          BY <4>1, <5>1, Zenon
      <4>3. CASE Len(c) = 2 /\ writeIndex = 0 /\ readIndex' = 0
        BY <1>4, <2>1, <4>3
      <4>4. CASE (Len(c) = 2 => writeIndex > 0) /\ readIndex' = 1
        BY <1>4, <2>1, <4>2, <4>4
      <4> QED
        BY <2>3, <4>3, <4>4
    <3> QED
      BY <2>1, <2>2, <3>1, <3>4, <3>5 DEF Positioned
  <2> QED
    BY <1>1, <1>8, <1>10, <2>5, <2>7, <2>8, <2>9, Establish
<1> QED
  BY <1>6, <1>7, <1>9, <1>10 DEF Pop

LEMMA ResetInv ==
    ASSUME QueueInv, Reset
    PROVE  QueueInv'
<1>1. TypeOK /\ live /\ live' = live /\ allowance' = allowance /\ rover' \in {None, Stale}
  BY DEF QueueInv, Reset, Modify
<1>2. PICK c \in Walks(read), s \in Walks(spares) : Linked(c, s) /\ Positioned(c)
  BY <1>1 DEF QueueInv
<1>3. PICK a \in Walks(read), n \in 0 .. Cardinality(Bucket) :
        /\ n = IF spareAllowance < Len(a) THEN spareAllowance ELSE Len(a)
        /\ next' = OnSpares(a, n)
        /\ spares' = IF n = 0 THEN spares ELSE a[n]
        /\ spareAllowance' = spareAllowance - n
        /\ allocated' = allocated \ {a[i] : i \in n + 1 .. Len(a)}
  BY DEF Reset
<1>4. a = c
  BY WalksUnique
<1>5. Len(c) \in Nat /\ spareAllowance \in Nat
  <2>1. Len(c) \in Nat
    BY WalkIndices
  <2> QED
    BY <1>1, <2>1, QueueAssumption DEF TypeOK
<1>6. n \in 0 .. Len(c) /\ n <= spareAllowance
  BY <1>3, <1>4, <1>5
<1>7. next' = OnSpares(c, n)
  BY <1>3, <1>4
<1>8. /\ spares' = IF n = 0 THEN spares ELSE c[n]
      /\ spareAllowance' = spareAllowance - n
      /\ allocated' = allocated \ {c[i] : i \in n + 1 .. Len(c)}
  BY <1>3, <1>4
<1>9. PICK t \in Walks(spares)' : Linked(<<>>, t)'
  <2>1. /\ n > 0 => next'[c[1]] = spares
        /\ \A i \in 2 .. n : next'[c[i]] = c[i - 1]
        /\ \A j \in 1 .. Len(s) : next'[s[j]] = next[s[j]]
    BY <1>1, <1>2, <1>6, <1>7, ResetNext
  <2> QED
    BY <1>1, <1>2, <1>6, <1>8, <2>1, ResetLinked
<1>10. /\ read' = NULL /\ write' = NULL /\ readIndex' = BucketSize
       /\ writeIndex' = BucketSize /\ count' = 0 /\ ret' = None
       /\ storage' = [b \in Bucket |-> Void]
  BY DEF Reset
<1>11. <<>> \in Walks(read)'
  <2>1. <<>> \in Seq(Bucket) /\ IsInjective(<<>>)
    BY DEF IsInjective
  <2>2. IsWalk(<<>>, read)'
    BY <1>10 DEF IsWalk
  <2> QED
    BY <2>1, <2>2, InjectiveIsBounded DEF Walks
<1>12. Positioned(<<>>)'
  BY <1>10 DEF Positioned
<1>13. TypeOK'
  <2>1. \A i \in 1 .. Len(c) : c[i] \in Bucket
    BY WalkIndices
  <2>2. spares' \in Bucket \cup {NULL}
    <3>1. n # 0 => n \in 1 .. Len(c)
      BY <1>5, <1>6
    <3> QED
      BY <1>1, <1>8, <2>1, <3>1 DEF TypeOK
  <2>3. next' \in [Bucket -> Bucket \cup {NULL}]
    <3> SUFFICES ASSUME NEW b \in Bucket
                 PROVE  (IF n > 0 /\ b = c[1] THEN spares
                         ELSE IF \E i \in 2 .. n : b = c[i]
                              THEN c[(CHOOSE i \in 2 .. n : b = c[i]) - 1]
                              ELSE next[b]) \in Bucket \cup {NULL}
      BY <1>7 DEF OnSpares
    <3>1. CASE \E i \in 2 .. n : b = c[i]
      <4>1. PICK j \in 2 .. n : j = CHOOSE i \in 2 .. n : b = c[i]
        BY <3>1
      <4>2. j - 1 \in 1 .. Len(c)
        BY <1>5, <1>6
      <4> QED
        BY <1>1, <2>1, <3>1, <4>1, <4>2 DEF TypeOK
    <3>2. CASE ~ \E i \in 2 .. n : b = c[i]
      BY <1>1, <3>2 DEF TypeOK
    <3> QED
      BY <3>1, <3>2
  <2>4. spareAllowance' \in 0 .. allowance'
    BY <1>1, <1>6, <1>8, QueueAssumption DEF TypeOK
  <2>5. storage' \in [Bucket -> [Index -> Item \cup {NULL}]]
    BY <1>10 DEF Void
  <2>6. readIndex' \in 0 .. BucketSize /\ writeIndex' \in 0 .. BucketSize
    BY <1>10, QueueAssumption
  <2> QED
    BY <1>1, <1>8, <1>10, <2>2, <2>3, <2>4, <2>5, <2>6 DEF TypeOK
<1> QED
  BY <1>1, <1>9, <1>11, <1>12, <1>13, Establish

LEMMA DoneInv ==
    ASSUME QueueInv, Done
    PROVE  QueueInv'
<1>1. TypeOK /\ live
  BY DEF QueueInv, Done
<1>2. PICK c \in Walks(read), s \in Walks(spares) : Linked(c, s)
  BY <1>1 DEF QueueInv
<1>3. PICK a \in Walks(read), b \in Walks(spares) :
        allocated' = allocated \ (Blocks(a) \cup Blocks(b))
  BY DEF Done
<1>4. a = c /\ b = s
  BY WalksUnique
<1>5. allocated' = {}
  BY <1>2, <1>3, <1>4 DEF Linked
<1>6. /\ ~ live' /\ live' \in BOOLEAN /\ rover' = None /\ ret' = None
      /\ storage' = [d \in Bucket |-> Void] /\ UNCHANGED <<next, fields, allowance>>
  BY DEF Done
<1>7. TypeOK'
  BY <1>1, <1>5, <1>6 DEF TypeOK, Void, fields
<1> QED
  BY <1>5, <1>6, <1>7, QueueAssumption DEF QueueInv

LEMMA RestartInv ==
    ASSUME QueueInv, Restart
    PROVE  QueueInv'
<1>1. /\ TypeOK /\ allocated = {} /\ rover = None
  BY DEF QueueInv, Restart
<1>2. /\ live' /\ live' \in BOOLEAN /\ read' = NULL /\ write' = NULL /\ spares' = NULL
      /\ readIndex' = BucketSize /\ writeIndex' = BucketSize /\ count' = 0
      /\ allowance' \in Allowances /\ spareAllowance' = allowance' /\ ret' = None
      /\ next' = next /\ storage' = storage /\ allocated' = allocated /\ rover' = rover
  BY DEF Restart, blocks
<1>3. TypeOK'
  <2>1. allowance' \in Nat
    BY <1>2, QueueAssumption
  <2> QED
    BY <1>1, <1>2, <2>1, QueueAssumption DEF TypeOK
<1>4. <<>> \in Seq(Bucket) /\ IsInjective(<<>>) /\ Blocks(<<>>) = {} /\ Len(<<>>) = 0
  BY DEF IsInjective, Blocks
<1>5. <<>> \in Walks(read)' /\ <<>> \in Walks(spares)'
  <2>1. IsWalk(<<>>, read)' /\ IsWalk(<<>>, spares)'
    BY <1>2 DEF IsWalk
  <2> QED
    BY <1>4, <2>1, InjectiveIsBounded DEF Walks
<1>6. Linked(<<>>, <<>>)' /\ Positioned(<<>>)'
  <2>1. 0 + allowance' = allowance'
    <3>1. allowance' \in Nat
      BY <1>2, QueueAssumption
    <3> QED
      BY <3>1, ZeroPlus
  <2> QED
    BY <1>1, <1>2, <1>4, <2>1 DEF Linked, Positioned
<1> QED
  BY <1>1, <1>2, <1>3, <1>5, <1>6, Establish

(* An enumerator that has returned as many items as are in front of place  *)
(* (j, k) returns the next one from there.                                 *)
LEMMA YieldInv ==
    ASSUME TypeOK, NEW c \in Walks(read), Positioned(c), Enumerating(c),
           rover \notin {None, Stale},
           NEW j \in 1 .. Len(c), NEW k \in Index, k < Limit(c[j]),
           Len(rover.seen) = (j - 1) * BucketSize + k - readIndex,
           Yield(c[j], k), UNCHANGED <<blocks, fields>>
    PROVE  /\ rover' \in [curr : Bucket \cup {NULL}, index : 0 .. BucketSize,
                          seen : Seq(Item \cup {NULL})]
           /\ Enumerating(c)'
<1> DEFINE x == storage[c[j]][k]
<1>1. /\ c[j] \in Bucket /\ x \in Item \cup {NULL} /\ k + 1 \in 0 .. BucketSize
      /\ rover.seen \in Seq(Item \cup {NULL}) /\ c # <<>>
      /\ j \in Nat /\ Len(c) \in Nat /\ k \in Nat /\ Len(rover.seen) \in Nat
  <2>1. c[j] \in Bucket /\ Len(c) \in Nat
    BY WalkIndices
  <2>2. rover.seen \in Seq(Item \cup {NULL})
    BY DEF TypeOK
  <2>3. c # <<>> /\ j \in Nat
    BY <2>1
  <2>4. k \in Nat /\ k + 1 \in 0 .. BucketSize
    BY QueueAssumption DEF Index
  <2> QED
    BY <2>1, <2>2, <2>3, <2>4 DEF TypeOK
<1>2. rover' = [curr |-> c[j], index |-> k + 1, seen |-> Append(rover.seen, x)]
  BY DEF Yield
<1> HIDE DEF x
<1>3. PICK t \in Seq(Item \cup {NULL}) : t = Append(rover.seen, x)
  BY <1>1, AppendFacts
<1>4. /\ Len(t) = Len(rover.seen) + 1 /\ t[Len(rover.seen) + 1] = x
      /\ \A i \in 1 .. Len(rover.seen) : t[i] = rover.seen[i]
  BY <1>1, <1>3, AppendFacts
<1>5. Contents' = Contents
  <2>1. Walks(read)' = Walks(read)
    BY DEF Walks, IsWalk, blocks, fields
  <2> QED
    BY <2>1 DEF Contents, blocks, fields
<1>6. x = Contents[Len(rover.seen) + 1]
  <2>1. count \in Nat /\ readIndex \in Nat /\ writeIndex \in Nat /\ BucketSize \in Nat
        /\ writeIndex <= BucketSize
    BY QueueAssumption DEF TypeOK
  <2>2. Len(rover.seen) + 1 \in 1 .. count
    <3>1. (j - 1) * BucketSize \in Nat
      <4>1. j - 1 \in Nat
        BY <1>1
      <4> QED
        BY <2>1, <4>1, ProductType
    <3>2. count = (Len(c) - 1) * BucketSize + writeIndex - readIndex
      BY <1>1 DEF Positioned
    <3>3. (j - 1) * BucketSize + k < (Len(c) - 1) * BucketSize + writeIndex
      <4>1. CASE j = Len(c)
        <5>1. k < writeIndex
          BY <1>1, <4>1 DEF Limit, Positioned
        <5> QED
          BY <1>1, <2>1, <3>1, <4>1, <5>1
      <4>2. CASE j # Len(c)
        <5>1. j - 1 \in Nat /\ Len(c) - 1 \in Nat /\ j - 1 < Len(c) - 1
          BY <1>1, <4>2
        <5>2. (Len(c) - 1) * BucketSize >= (j - 1) * BucketSize + BucketSize
              /\ (Len(c) - 1) * BucketSize \in Nat
          BY <2>1, <5>1, ProductOrder, ProductType
        <5> QED
          BY <1>1, <2>1, <3>1, <5>2
      <4> QED
        BY <4>1, <4>2
    <3>4. (Len(c) - 1) * BucketSize \in Nat
      <4>1. Len(c) - 1 \in Nat
        BY <1>1
      <4> QED
        BY <2>1, <4>1, ProductType
    <3> QED
      BY <1>1, <2>1, <3>1, <3>2, <3>3, <3>4
  <2>3. readIndex + (Len(rover.seen) + 1) - 1 = (j - 1) * BucketSize + k
    <3>1. (j - 1) * BucketSize \in Nat
      <4>1. j - 1 \in Nat
        BY <1>1
      <4> QED
        BY <2>1, <4>1, ProductType
    <3> QED
      BY <1>1, <2>1, <3>1
  <2> QED
    BY <2>2, <2>3, ContentsAt DEF x
<1>7. rover' = [curr |-> c[j], index |-> k + 1, seen |-> t]
  BY <1>2, <1>3
<1>8. \A i \in 1 .. Len(t) : t[i] = Contents[i]
  <2>1. \A i \in 1 .. Len(rover.seen) : rover.seen[i] = Contents[i]
    BY DEF Enumerating
  <2>2. \A i \in 1 .. Len(t) : i \in 1 .. Len(rover.seen) \/ i = Len(rover.seen) + 1
    BY <1>1, <1>4
  <2> QED
    BY <1>4, <1>6, <2>1, <2>2
<1>9. k + 1 <= Limit(c[j])
  BY <1>1, QueueAssumption DEF Limit, TypeOK
<1>10. Len(t) = (j - 1) * BucketSize + (k + 1) - readIndex
  <2>1. (j - 1) * BucketSize \in Nat /\ readIndex \in Nat
    <3>1. j - 1 \in Nat /\ BucketSize \in Nat
      BY <1>1, QueueAssumption
    <3> QED
      BY <3>1, QueueAssumption, ProductType DEF TypeOK
  <2> QED
    BY <1>1, <1>4, <2>1
<1>11. Enumerating(c)'
  <2>1. rover'.curr = c[j] /\ rover'.index = k + 1 /\ rover'.seen = t
    BY <1>7
  <2>2. Limit(c[j])' = Limit(c[j]) /\ readIndex' = readIndex
    BY DEF Limit, fields
  <2> QED
    BY <1>1, <1>5, <1>8, <1>9, <1>10, <2>1, <2>2 DEF Enumerating
<1> QED
  BY <1>1, <1>7, <1>11

(* Enumeration leaves the queue alone, and its position fits what it has   *)
(* returned.                                                               *)
LEMMA EnumerationInv ==
    ASSUME QueueInv, Enumerate \/ EnumerateNext \/ EnumerateDone
    PROVE  QueueInv'
<1>1. TypeOK /\ UNCHANGED <<blocks, fields, allowance, live, ret>>
  BY DEF QueueInv, Enumerate, EnumerateNext, EnumerateDone
<1>2. CASE EnumerateDone
  <2>1. rover' = None
    BY <1>2 DEF EnumerateDone
  <2>2. TypeOK'
    BY <1>1, <2>1 DEF TypeOK, blocks, fields
  <2> QED
    BY <1>1, <2>1, <2>2
       DEF QueueInv, Walks, IsWalk, Linked, Positioned, Enumerating, blocks, fields
<1>3. CASE Enumerate \/ EnumerateNext
  <2>1. live
    BY <1>3 DEF Enumerate, EnumerateNext, QueueInv
  <2>2. PICK c \in Walks(read), s \in Walks(spares) :
               Linked(c, s) /\ Positioned(c) /\ Enumerating(c)
    BY <2>1 DEF QueueInv
  <2>3. /\ Len(c) \in Nat /\ DOMAIN c = 1 .. Len(c)
        /\ c # <<>> => Len(c) >= 1 /\ read = c[1]
        /\ c = <<>> => read = NULL
        /\ \A i \in 1 .. Len(c) : /\ c[i] \in Bucket
                                  /\ next[c[i]] = IF i = Len(c) THEN NULL ELSE c[i + 1]
    <3>1. c \in Seq(Bucket) /\ Len(c) \in Nat /\ DOMAIN c = 1 .. Len(c)
      BY WalkIndices
    <3>2. c # <<>> => Len(c) >= 1
      BY <3>1
    <3> QED
      BY <3>1, <3>2, WalkIndices, WalkStarts
  <2>4. /\ BucketSize \in Nat /\ BucketSize > 0
        /\ readIndex \in Nat /\ readIndex <= BucketSize
        /\ writeIndex \in Nat /\ writeIndex <= BucketSize
        /\ \A b : Limit(b) \in Nat /\ Limit(b) <= BucketSize
    BY <1>1, QueueAssumption DEF TypeOK, Limit
  <2>5. ASSUME /\ rover' \in [curr : Bucket \cup {NULL}, index : 0 .. BucketSize,
                              seen : Seq(Item \cup {NULL})]
               /\ Enumerating(c)'
        PROVE  QueueInv'
    <3>1. TypeOK'
      BY <1>1, <2>5 DEF TypeOK, blocks, fields
    <3>2. c \in Walks(read)' /\ s \in Walks(spares)' /\ Linked(c, s)' /\ Positioned(c)'
      BY <1>1, <2>2 DEF Walks, IsWalk, Linked, Positioned, blocks, fields
    <3> QED
      BY <1>1, <2>1, <2>5, <3>1, <3>2 DEF QueueInv
  <2>6. CASE Enumerate
    <3>1. rover' = [curr |-> read, index |-> readIndex, seen |-> <<>>]
      BY <2>6 DEF Enumerate
    <3>2. /\ rover' \in [curr : Bucket \cup {NULL}, index : 0 .. BucketSize,
                         seen : Seq(Item \cup {NULL})]
          /\ rover'.curr = read /\ rover'.index = readIndex /\ rover'.seen = <<>>
      BY <1>1, <3>1 DEF TypeOK
    <3>3. Enumerating(c)'
      <4>1. CASE c = <<>>
        BY <2>2, <2>3, <3>2, <4>1 DEF Enumerating, Positioned
      <4>2. CASE c # <<>>
        <5>1. 1 \in 1 .. Len(c) /\ read = c[1]
          <6>1. Len(c) \in Nat /\ Len(c) >= 1 /\ read = c[1]
            BY <2>3, <4>2
          <6> QED
            BY <6>1
        <5>2. readIndex <= Limit(c[1])'
          <6>1. CASE c[1] = write
            <7>1. Len(c) = 1
              BY <1>1, <2>2, <4>2, <5>1, <6>1, Reading DEF Linked
            <7> QED
              BY <1>1, <2>2, <4>2, <6>1, <7>1 DEF Positioned, Limit, fields
          <6>2. CASE c[1] # write
            BY <1>1, <2>4, <6>2 DEF Limit, fields
          <6> QED
            BY <6>1, <6>2
        <5>3. Len(<<>>) = (1 - 1) * BucketSize + readIndex - readIndex'
          BY <1>1, <2>4 DEF fields
        <5>4. \A k \in 1 .. Len(<<>>) : <<>>[k] = Contents'[k]
          OBVIOUS
        <5> QED
          BY <3>2, <4>2, <5>1, <5>2, <5>3, <5>4 DEF Enumerating
      <4> QED
        BY <4>1, <4>2
    <3> QED
      BY <2>5, <3>2, <3>3
  <2>7. CASE EnumerateNext
    <3>1. /\ rover \notin {None, Stale}
          /\ rover \in [curr : Bucket \cup {NULL}, index : 0 .. BucketSize,
                        seen : Seq(Item \cup {NULL})]
      BY <1>1, <2>7 DEF EnumerateNext, TypeOK
    <3>2. c # <<>>
      <4> SUFFICES ASSUME c = <<>> PROVE FALSE
        OBVIOUS
      <4>1. rover.curr = NULL /\ rover.index = BucketSize
        BY <2>2, <3>1 DEF Enumerating
      <4>2. ~ HasNextBucket(rover) /\ rover.index >= Limit(rover.curr)
        BY <2>4, <4>1 DEF HasNextBucket
      <4> QED
        BY <2>7, <4>2 DEF EnumerateNext, AtEnd
    <3>3. PICK j \in 1 .. Len(c) :
                 /\ rover.curr = c[j] /\ rover.index <= Limit(c[j])
                 /\ Len(rover.seen) = (j - 1) * BucketSize + rover.index - readIndex
      BY <2>2, <3>1, <3>2 DEF Enumerating
    <3>4. CASE rover.index < Limit(rover.curr)
      <4>1. rover.index \in Index /\ rover.index < Limit(c[j])
        BY <2>4, <3>1, <3>3, <3>4 DEF Index
      <4>2. Yield(c[j], rover.index)
        BY <2>7, <3>3, <3>4 DEF EnumerateNext
      <4> QED
        BY <1>1, <2>2, <2>5, <3>1, <3>3, <4>1, <4>2, YieldInv
    <3>5. CASE ~ (rover.index < Limit(rover.curr))
      <4>1. /\ rover.index = BucketSize /\ next[c[j]] # NULL /\ Limit(next[c[j]]) > 0
        BY <2>4, <2>7, <3>1, <3>3, <3>5 DEF EnumerateNext, AtEnd, HasNextBucket
      <4>2. j + 1 \in 1 .. Len(c) /\ next[c[j]] = c[j + 1] /\ (j + 1) - 1 = j
        <5>1. Len(c) \in Nat /\ next[c[j]] = IF j = Len(c) THEN NULL ELSE c[j + 1]
          BY <2>3
        <5>2. j # Len(c)
          BY <4>1, <5>1
        <5> QED
          BY <5>1, <5>2
      <4>3. Yield(c[j + 1], 0) /\ 0 \in Index /\ 0 < Limit(c[j + 1])
        BY <2>4, <2>7, <3>3, <3>5, <4>1, <4>2 DEF EnumerateNext, Index
      <4>4. Len(rover.seen) = ((j + 1) - 1) * BucketSize + 0 - readIndex
        <5>1. (j - 1) * BucketSize \in Nat /\ j * BucketSize = (j - 1) * BucketSize + BucketSize
          <6>1. j \in Nat /\ j >= 1 /\ BucketSize \in Nat
            BY <2>4, <4>2
          <6> QED
            BY <6>1, Product
        <5> QED
          BY <2>4, <3>3, <4>1, <4>2, <5>1
      <4> QED
        BY <1>1, <2>2, <2>5, <3>1, <4>2, <4>3, <4>4, YieldInv
    <3> QED
      BY <3>4, <3>5
  <2> QED
    BY <1>3, <2>6, <2>7
<1> QED
  BY <1>2, <1>3

LEMMA StutterInv ==
    ASSUME QueueInv, UNCHANGED vars
    PROVE  QueueInv'
<1>1. UNCHANGED <<blocks, fields, allowance, live, rover, ret>>
  BY DEF vars
<1>2. TypeOK /\ TypeOK'
  BY <1>1 DEF QueueInv, TypeOK, blocks, fields
<1>3. Walks(read)' = Walks(read) /\ Walks(spares)' = Walks(spares)
  BY <1>1 DEF Walks, IsWalk, blocks, fields
<1>4. Contents' = Contents
  BY <1>1, <1>3 DEF Contents, blocks, fields
<1>5. ASSUME NEW c, NEW s
      PROVE  /\ Linked(c, s) => Linked(c, s)'
             /\ Positioned(c) => Positioned(c)'
             /\ Enumerating(c) => Enumerating(c)'
  BY <1>1, <1>4 DEF Linked, Positioned, Enumerating, Limit, blocks, fields
<1> QED
  BY <1>1, <1>2, <1>3, <1>5 DEF QueueInv, blocks

(* Every state of the queue is typed; its chain and its spares are apart,  *)
(* hold all that malloc gave out, and fit the positions and the counters.  *)
THEOREM QueueInvariant == Spec => []QueueInv
<1>1. Init => QueueInv
  BY InitInv
<1>2. QueueInv /\ [Next]_vars => QueueInv'
  <2> SUFFICES ASSUME QueueInv, [Next]_vars PROVE QueueInv'
    OBVIOUS
  <2>1. ASSUME NEW x \in Item, Push(x) PROVE QueueInv'
    BY <2>1, PushInv
  <2>2. CASE Pop
    BY <2>2, PopInv
  <2>3. CASE Reset
    BY <2>3, ResetInv
  <2>4. CASE Done
    BY <2>4, DoneInv
  <2>5. CASE Restart
    BY <2>5, RestartInv
  <2>6. CASE Enumerate \/ EnumerateNext \/ EnumerateDone
    BY <2>6, EnumerationInv
  <2>7. CASE UNCHANGED vars
    BY <2>7, StutterInv
  <2> QED
    BY <2>1, <2>2, <2>3, <2>4, <2>5, <2>6, <2>7 DEF Next
<1> QED
  BY <1>1, <1>2, PTL DEF Spec

-----------------------------------------------------------------------------
(* What follows from it *)

LEMMA ChainedFollows == QueueInv => Chained
<1> SUFFICES ASSUME QueueInv, live
             PROVE  \E c \in Walks(read), s \in Walks(spares) :
                      /\ write = IF c = <<>> THEN NULL ELSE c[Len(c)]
                      /\ Blocks(c) \cap Blocks(s) = {}
                      /\ allocated = Blocks(c) \cup Blocks(s)
  BY DEF Chained
<1> QED
  BY DEF QueueInv, Linked, Positioned

LEMMA NoLeakFollows == QueueInv => NoLeak
BY DEF QueueInv, NoLeak

LEMMA BalanceFollows == QueueInv => SparesBalanced
<1> SUFFICES ASSUME QueueInv, live, NEW d \in Walks(spares)
             PROVE  Len(d) + spareAllowance = allowance
  BY DEF SparesBalanced
<1>1. PICK c \in Walks(read), s \in Walks(spares) : Linked(c, s)
  BY DEF QueueInv
<1>2. d = s
  BY WalksUnique
<1> QED
  BY <1>1, <1>2 DEF Linked

LEMMA CountFollows == QueueInv => CountExact
<1> SUFFICES ASSUME QueueInv, live, NEW d \in Walks(read)
             PROVE  count = IF d = <<>> THEN 0
                            ELSE (Len(d) - 1) * BucketSize + writeIndex - readIndex
  BY DEF CountExact
<1>1. PICK c \in Walks(read) : Positioned(c)
  BY DEF QueueInv
<1>2. d = c
  BY WalksUnique
<1> QED
  BY <1>1, <1>2 DEF Positioned

LEMMA AssertionsFollow == QueueInv => AssertionsHold
<1> SUFFICES ASSUME QueueInv, live, read # NULL
             PROVE  /\ readIndex = BucketSize /\ next[read] = NULL =>
                         write = read /\ writeIndex = readIndex /\ count = 0
                    /\ readIndex = BucketSize /\ next[read] # NULL
                          /\ (next[read] = write => writeIndex > 0) => count > 0
                    /\ readIndex < BucketSize /\ (read # write \/ readIndex # writeIndex) =>
                         count > 0
  BY DEF AssertionsHold
<1>1. TypeOK
  BY DEF QueueInv
<1>2. PICK c \in Walks(read), s \in Walks(spares) : Linked(c, s) /\ Positioned(c)
  BY DEF QueueInv
<1>3. c # <<>> /\ IsInjective(c)
  BY <1>2, WalkStarts DEF Linked
<1>4. /\ Len(c) \in Nat /\ Len(c) >= 1
      /\ Len(c) = 1 <=> read = write
      /\ readIndex < BucketSize /\ (read # write \/ readIndex # writeIndex) => count > 0
      /\ readIndex = BucketSize /\ Len(c) = 1 => writeIndex = BucketSize /\ count = 0
      /\ Len(c) > 1 => /\ Len(c) = 2 <=> next[read] = write
                       /\ readIndex = BucketSize /\ (Len(c) = 2 => writeIndex > 0) => count > 0
  BY <1>1, <1>2, <1>3, Reading
<1>5. Len(c) = 1 <=> next[read] = NULL
  BY <1>3, WalkStarts
<1>6. Len(c) = 1 \/ Len(c) > 1
  BY <1>4, OneOrMore
<1> QED
  BY <1>4, <1>5, <1>6

(* Where an enumerator ends it has returned all count items.               *)
LEMMA EnumeratesFollows == QueueInv => EnumeratesAll
<1> SUFFICES ASSUME QueueInv, rover \notin {None, Stale}
             PROVE  /\ IsPrefix(rover.seen, Contents)
                    /\ AtEnd(rover) => rover.seen = Contents
  BY DEF EnumeratesAll
<1>1. TypeOK /\ live
  BY DEF QueueInv
<1>2. PICK c \in Walks(read), s \in Walks(spares) :
             Linked(c, s) /\ Positioned(c) /\ Enumerating(c)
  BY <1>1 DEF QueueInv
<1> DEFINE S == Item \cup {NULL}
<1>3. /\ rover \in [curr : Bucket \cup {NULL}, index : 0 .. BucketSize, seen : Seq(S)]
      /\ rover.seen \in Seq(S) /\ Len(rover.seen) \in Nat
      /\ rover.index \in Nat /\ rover.index <= BucketSize
      /\ Contents \in Seq(S) /\ Len(Contents) = count
      /\ count \in Nat /\ BucketSize \in Nat /\ BucketSize > 0
      /\ readIndex \in Nat /\ writeIndex \in Nat /\ writeIndex <= BucketSize
  <2>1. rover \in [curr : Bucket \cup {NULL}, index : 0 .. BucketSize, seen : Seq(S)]
    BY <1>1 DEF TypeOK
  <2>2. Contents \in Seq(S) /\ Len(Contents) = count
    BY <1>1, <1>2, ContentsType
  <2> QED
    BY <1>1, <2>1, <2>2, QueueAssumption DEF TypeOK
<1>4. /\ c \in Seq(Bucket) /\ Len(c) \in Nat
      /\ \A i \in 1 .. Len(c) : /\ c[i] \in Bucket
                                /\ next[c[i]] = IF i = Len(c) THEN NULL ELSE c[i + 1]
      /\ \A i, j \in 1 .. Len(c) : c[i] = c[j] => i = j
  <2>1. /\ c \in Seq(Bucket) /\ Len(c) \in Nat /\ DOMAIN c = 1 .. Len(c)
        /\ \A i \in 1 .. Len(c) : /\ c[i] \in Bucket
                                  /\ next[c[i]] = IF i = Len(c) THEN NULL ELSE c[i + 1]
    BY WalkIndices
  <2> QED
    BY <1>2, <2>1 DEF Linked, IsInjective
<1>5. Len(rover.seen) <= count /\ (AtEnd(rover) => Len(rover.seen) = count)
  <2>1. CASE c = <<>>
    BY <1>2, <1>3, <2>1 DEF Enumerating, Positioned
  <2>2. CASE c # <<>>
    <3>1. PICK j \in 1 .. Len(c) :
                 /\ rover.curr = c[j] /\ rover.index <= Limit(c[j])
                 /\ Len(rover.seen) = (j - 1) * BucketSize + rover.index - readIndex
      BY <1>2, <2>2 DEF Enumerating
    <3>2. count = (Len(c) - 1) * BucketSize + writeIndex - readIndex /\ write = c[Len(c)]
      BY <1>2, <2>2 DEF Positioned
    <3>3. j \in Nat /\ j >= 1 /\ j <= Len(c) /\ (j - 1) * BucketSize \in Nat
      <4>1. j \in Nat /\ j >= 1 /\ j <= Len(c)
        BY <1>4
      <4> QED
        BY <1>3, <4>1, Product
    <3>4. CASE j = Len(c)
      <4>1. Limit(c[j]) = writeIndex
        BY <3>2, <3>4 DEF Limit
      <4>2. AtEnd(rover) => rover.index >= writeIndex
        BY <3>1, <4>1 DEF AtEnd
      <4> QED
        BY <1>3, <3>1, <3>2, <3>3, <3>4, <4>1, <4>2
    <3>5. CASE j # Len(c)
      <4>1. j < Len(c) /\ j + 1 \in 1 .. Len(c) /\ next[c[j]] = c[j + 1] /\ Len(c) \in 1 .. Len(c)
        BY <1>4, <3>3, <3>5
      <4>2. c[j] # write /\ Limit(c[j]) = BucketSize
        <5>1. c[j] # write
          BY <1>4, <3>2, <3>5, <4>1
        <5> QED
          BY <5>1 DEF Limit
      <4>3. /\ (Len(c) - 1) * BucketSize >= (j - 1) * BucketSize + BucketSize
            /\ (Len(c) - 1) * BucketSize \in Nat
        <5>1. j - 1 \in Nat /\ Len(c) - 1 \in Nat /\ j - 1 < Len(c) - 1
          BY <1>4, <3>3, <4>1
        <5> QED
          BY <1>3, <5>1, ProductOrder, ProductType
      <4>4. Len(rover.seen) <= count
        BY <1>3, <3>1, <3>2, <3>3, <4>3
      <4>5. ASSUME AtEnd(rover) PROVE Len(rover.seen) = count
        <5>1. rover.index = BucketSize /\ ~ HasNextBucket(rover)
          BY <1>3, <3>1, <4>2, <4>5 DEF AtEnd
        <5>2. ~ (Limit(c[j + 1]) > 0)
          BY <1>4, <3>1, <4>1, <5>1, QueueAssumption DEF HasNextBucket
        <5>3. c[j + 1] = write /\ writeIndex = 0
          BY <1>3, <5>2 DEF Limit
        <5>4. j + 1 = Len(c)
          BY <1>4, <3>2, <4>1, <5>3
        <5>5. Len(c) - 1 = j /\ j * BucketSize = (j - 1) * BucketSize + BucketSize
          BY <1>3, <3>3, <5>4, Product
        <5>6. /\ Len(rover.seen) = (j - 1) * BucketSize + BucketSize - readIndex
              /\ count = j * BucketSize + 0 - readIndex
          BY <3>1, <3>2, <5>1, <5>3, <5>5
        <5>7. j * BucketSize \in Nat /\ (j - 1) * BucketSize \in Nat
          BY <1>3, <3>3, ProductType
        <5> QED
          BY <1>3, <5>5, <5>6, <5>7
      <4> QED
        BY <4>4, <4>5
    <3> QED
      BY <3>4, <3>5
  <2> QED
    BY <2>1, <2>2
<1>6. \A k \in 1 .. Len(rover.seen) : rover.seen[k] = Contents[k]
  BY <1>2 DEF Enumerating
<1> HIDE DEF S
<1>7. PICK r \in Seq(S) : r = rover.seen
  BY <1>3
<1>8. PICK t \in Seq(S) : t = Contents
  BY <1>3
<1>9. /\ Len(r) \in Nat /\ Len(t) \in Nat /\ Len(r) <= Len(t)
      /\ \A k \in 1 .. Len(r) : r[k] = t[k]
      /\ AtEnd(rover) => Len(r) = Len(t)
  BY <1>3, <1>5, <1>6, <1>7, <1>8
<1>10. SubSeq(r, 1, Len(r)) = SubSeq(t, 1, Len(r))
  BY <1>9
<1>11. AtEnd(rover) => r = t
  BY <1>9
<1> QED
  BY <1>7, <1>8, <1>9, <1>10, <1>11 DEF IsPrefix

(* Pointers, indices and counters stay in their ranges: no index leaves a  *)
(* bucket and the unsigned counters of the code never wrap below 0.        *)
THEOREM TypeCorrect == Spec => []TypeOK
<1>1. QueueInv => TypeOK
  BY DEF QueueInv
<1> QED
  BY <1>1, QueueInvariant, PTL

(* The chain and the spares end, share no bucket and hold all that malloc  *)
(* gave out, after any sequence of push, pop and reset.                    *)
THEOREM AlwaysChained == Spec => []Chained
BY ChainedFollows, QueueInvariant, PTL

(* done gives back every block that init, push and reset left.             *)
THEOREM NeverLeaks == Spec => []NoLeak
BY NoLeakFollows, QueueInvariant, PTL

(* free_bucket, new_bucket and reset keep the allowance in step with the   *)
(* number of spares.                                                       *)
THEOREM AlwaysBalanced == Spec => []SparesBalanced
BY BalanceFollows, QueueInvariant, PTL

(* count is the distance of the write position from the read position,     *)
(* counted along the chain.                                                *)
THEOREM AlwaysCounted == Spec => []CountExact
BY CountFollows, QueueInvariant, PTL

(* The assertions in shrink and pop_noshrink never fail.                   *)
THEOREM AssertionsNeverFail == Spec => []AssertionsHold
BY AssertionsFollow, QueueInvariant, PTL

(* What an enumerator returns is what pop would, up to the last item.      *)
THEOREM AlwaysEnumerates == Spec => []EnumeratesAll
BY EnumeratesFollows, QueueInvariant, PTL

-----------------------------------------------------------------------------
(* With the operations of the struct queue *)

(* What was proved of a state, said of the next one.                       *)
LEMMA WalksUniqueNext == (\A c, d \in Walks(read) : c = d)'
<1>1. \A c, d \in Walks(read) : c = d
  BY WalksUnique
<1> QED
  BY <1>1, PTL

LEMMA ContentsAtNext ==
    (TypeOK => \A c \in Walks(read), r \in Index, i \in 1 .. count : \A q \in 1 .. Len(c) :
                  readIndex + i - 1 = (q - 1) * BucketSize + r =>
                      Contents[i] = storage[c[q]][r])'
<1>1. TypeOK => \A c \in Walks(read), r \in Index, i \in 1 .. count : \A q \in 1 .. Len(c) :
                  readIndex + i - 1 = (q - 1) * BucketSize + r =>
                      Contents[i] = storage[c[q]][r]
  BY ContentsAt
<1> QED
  BY <1>1, PTL

LEMMA ContentsTypeNext ==
    (TypeOK => \A c \in Walks(read) : Positioned(c) =>
                  /\ Contents \in Seq(Item \cup {NULL})
                  /\ Len(Contents) = count /\ DOMAIN Contents = 1 .. count)'
<1>1. TypeOK => \A c \in Walks(read) : Positioned(c) =>
                  /\ Contents \in Seq(Item \cup {NULL})
                  /\ Len(Contents) = count /\ DOMAIN Contents = 1 .. count
  BY ContentsType
<1> QED
  BY <1>1, PTL

(* The numbers and the chains of a state that satisfies the invariant.     *)
Sized(c) ==
    /\ Positioned(c) /\ IsInjective(c)
    /\ c \in Seq(Bucket) /\ Len(c) \in Nat /\ DOMAIN c = 1 .. Len(c)
    /\ \A i \in 1 .. Len(c) : c[i] \in Bucket
    /\ \A i, j \in 1 .. Len(c) : c[i] = c[j] => i = j
    /\ c = <<>> => read = NULL
    /\ c # <<>> => /\ Len(c) >= 1 /\ read = c[1] /\ write = c[Len(c)]
                   /\ count = (Len(c) - 1) * BucketSize + writeIndex - readIndex
    /\ BucketSize \in Nat /\ BucketSize > 0
    /\ readIndex \in Nat /\ readIndex <= BucketSize
    /\ writeIndex \in Nat /\ writeIndex <= BucketSize
    /\ count \in Nat
    /\ Contents \in Seq(Item \cup {NULL})
    /\ Len(Contents) = count /\ DOMAIN Contents = 1 .. count

LEMMA InvSized ==
    QueueInv /\ live => \E c \in Walks(read) : Sized(c)
<1> SUFFICES ASSUME QueueInv, live PROVE \E c \in Walks(read) : Sized(c)
  OBVIOUS
<1>1. TypeOK
  BY DEF QueueInv
<1>2. PICK c \in Walks(read), s \in Walks(spares) : Linked(c, s) /\ Positioned(c)
  BY DEF QueueInv
<1>3. /\ c \in Seq(Bucket) /\ Len(c) \in Nat /\ DOMAIN c = 1 .. Len(c)
      /\ \A i \in 1 .. Len(c) : c[i] \in Bucket
  BY WalkIndices
<1>4. c # <<>> => Len(c) >= 1
  BY <1>3
<1>5. /\ c = <<>> => read = NULL
      /\ c # <<>> => read = c[1]
  BY WalkStarts
<1>6. \A i, j \in 1 .. Len(c) : c[i] = c[j] => i = j
  BY <1>2, <1>3 DEF Linked, IsInjective
<1>7. /\ BucketSize \in Nat /\ BucketSize > 0
      /\ readIndex \in Nat /\ readIndex <= BucketSize
      /\ writeIndex \in Nat /\ writeIndex <= BucketSize
      /\ count \in Nat
  BY <1>1, QueueAssumption DEF TypeOK
<1>8. /\ Contents \in Seq(Item \cup {NULL})
      /\ Len(Contents) = count /\ DOMAIN Contents = 1 .. count
  BY <1>1, <1>2, ContentsType
<1>9. c # <<>> => /\ write = c[Len(c)]
                  /\ count = (Len(c) - 1) * BucketSize + writeIndex - readIndex
  BY <1>2 DEF Positioned
<1>10. Positioned(c) /\ IsInjective(c)
  BY <1>2 DEF Linked
<1> QED
  BY <1>3, <1>4, <1>5, <1>6, <1>7, <1>8, <1>9, <1>10 DEF Sized

LEMMA InvSizedNext ==
    (QueueInv /\ live => \E c \in Walks(read) : Sized(c))'
BY InvSized, PTL

(* When shrink takes the first bucket (e = 1) or no bucket goes (e = 0),   *)
(* and k items are read, the i-th item behind them is e buckets nearer to  *)
(* the start of the chain.                                                 *)
Shifted(old, new, k, e, i, q, r, b) ==
    /\ old \in Nat /\ new \in Nat /\ k \in Nat /\ e \in 0 .. 1 /\ b \in Nat
    /\ i \in Nat /\ i >= 1 /\ q \in Nat /\ q >= 1 /\ r \in Nat /\ r < b
    /\ IF e = 0 THEN new = old + k ELSE old + k = new + b
    /\ old + (i + k) - 1 = (q - 1) * b + r

LEMMA ShiftedPlace ==
    \A old, new, k, e, i, q, r, b : Shifted(old, new, k, e, i, q, r, b) =>
        q > e /\ new + i - 1 = (q - e - 1) * b + r
<1> SUFFICES ASSUME NEW old \in Nat, NEW new \in Nat, NEW k \in Nat, NEW i \in Nat, i >= 1,
                    NEW b \in Nat, NEW q \in Nat, q >= 1, NEW r \in Nat, r < b,
                    NEW e \in 0 .. 1,
                    IF e = 0 THEN new = old + k ELSE old + k = new + b,
                    old + (i + k) - 1 = (q - 1) * b + r
             PROVE  q > e /\ new + i - 1 = (q - e - 1) * b + r
  BY DEF Shifted
<1>1. (q - 1) * b \in Nat
  BY Product
<1>2. CASE e = 0
  <2>1. q - e - 1 = q - 1 /\ new = old + k
    BY <1>2
  <2> QED
    BY <1>1, <1>2, <2>1
<1>3. CASE e = 1
  <2>1. old + k = new + b
    BY <1>3
  <2>2. q # 1
    <3> SUFFICES ASSUME q = 1 PROVE FALSE
      OBVIOUS
    <3>1. (q - 1) * b = 0
      OBVIOUS
    <3>2. old + (i + k) - 1 = r
      BY <3>1
    <3> QED
      BY <2>1, <3>2
  <2>3. q - 1 \in Nat /\ q - 1 >= 1 /\ q - e - 1 = q - 1 - 1
    BY <1>3, <2>2
  <2>4. /\ (q - 1 - 1) * b \in Nat
        /\ (q - 1) * b = (q - 1 - 1) * b + b
    BY <2>3, Product
  <2>5. new + i - 1 = (q - 1 - 1) * b + r
    BY <1>1, <2>1, <2>4
  <2> QED
    BY <1>3, <2>3, <2>5
<1> QED
  BY <1>2, <1>3

Moves(c, d, k, e) ==
    /\ IF e = 0 THEN readIndex' = readIndex + k
                ELSE readIndex + k = readIndex' + BucketSize
    /\ \A q \in 1 .. Len(c) : q > e => q - e \in 1 .. Len(d) /\ d[q - e] = c[q]
    /\ \A q \in 1 .. Len(c), r \in Index :
           q > e /\ (q = Len(c) => r < writeIndex) =>
               storage'[c[q]][r] = storage[c[q]][r]

LEMMA ContentsStep ==
    ASSUME TypeOK, TypeOK', NEW c \in Walks(read), Sized(c), NEW d \in Walks(read)',
           NEW k \in Nat, NEW e \in 0 .. 1, NEW n \in Nat, n <= count', n + k <= count,
           Moves(c, d, k, e)
    PROVE  \A i \in 1 .. n : Contents'[i] = Contents[i + k]
<1> SUFFICES ASSUME NEW i \in 1 .. n PROVE Contents'[i] = Contents[i + k]
  OBVIOUS
<1>1. /\ BucketSize \in Nat /\ BucketSize > 0 /\ readIndex \in Nat /\ count \in Nat
      /\ readIndex' \in Nat /\ count' \in Nat
  BY QueueAssumption DEF TypeOK
<1>2. i \in Nat /\ i >= 1 /\ i + k \in 1 .. count /\ i \in 1 .. count'
  BY <1>1
<1>3. Positioned(c) /\ Len(c) \in Nat
  BY DEF Sized
<1>4. PICK q \in 1 .. Len(c), r \in Index :
              /\ readIndex + (i + k) - 1 = (q - 1) * BucketSize + r
              /\ q = Len(c) => r < writeIndex
              /\ q = 1 => readIndex <= r
  BY <1>2, <1>3, ContentsPlace
<1>5. Contents[i + k] = storage[c[q]][r]
  BY <1>2, <1>4, ContentsAt
<1>6. q \in Nat /\ q >= 1 /\ r \in Nat /\ r < BucketSize
  BY <1>1, <1>3 DEF Index
<1>7. q > e /\ readIndex' + i - 1 = (q - e - 1) * BucketSize + r
  <2>1. Shifted(readIndex, readIndex', k, e, i, q, r, BucketSize)
    BY <1>1, <1>2, <1>4, <1>6 DEF Moves, Shifted
  <2> QED
    BY <2>1, ShiftedPlace
<1>8. q - e \in 1 .. Len(d) /\ d[q - e] = c[q]
  BY <1>7 DEF Moves
<1>9. Contents'[i] = storage'[d[q - e]][r]
  BY <1>2, <1>7, <1>8, ContentsAtNext
<1>10. storage'[c[q]][r] = storage[c[q]][r]
  BY <1>4, <1>7 DEF Moves
<1> QED
  BY <1>5, <1>8, <1>9, <1>10

-----------------------------------------------------------------------------
(* What the operations do to the chain *)

LEMMA BothSized ==
    ASSUME QueueInv, QueueInv', live, live'
    PROVE  /\ TypeOK /\ TypeOK'
           /\ \E c \in Walks(read), s \in Walks(spares) : Sized(c) /\ Linked(c, s)
           /\ \E d \in Walks(read)' : Sized(d)'
<1>1. TypeOK /\ TypeOK'
  BY DEF QueueInv
<1>2. PICK a \in Walks(read), s \in Walks(spares) : Linked(a, s)
  BY DEF QueueInv
<1>3. PICK c \in Walks(read) : Sized(c)
  BY InvSized
<1>4. a = c
  BY WalksUnique
<1>5. \E d \in Walks(read)' : Sized(d)'
  BY InvSizedNext
<1> QED
  BY <1>1, <1>2, <1>3, <1>4, <1>5

(* A bucket is added behind the chain, or none; nothing in it is lost.     *)
Extends(c, d) ==
    /\ Len(c) <= Len(d)
    /\ \A q \in 1 .. Len(c) : d[q] = c[q]
    /\ c # <<>> => readIndex' = readIndex
    /\ \A q \in 1 .. Len(c), r \in Index : (q = Len(c) => r < writeIndex) =>
           storage'[c[q]][r] = storage[c[q]][r]

LEMMA GrowExtends ==
    ASSUME TypeOK, NEW c \in Walks(read), NEW s \in Walks(spares), Sized(c), Linked(c, s),
           NEW d \in Walks(read)', Sized(d)',
           NEW p \in Bucket, Grow(p), allowance' = allowance,
           \A b \in Bucket : b # p => storage'[b] = storage[b]
    PROVE  Extends(c, d) /\ Len(d) = Len(c) + 1 /\ d[Len(d)] = p
<1>1. /\ Positioned(c) /\ c \in Seq(Bucket) /\ Len(c) \in Nat
      /\ \A i \in 1 .. Len(c) : c[i] \in Bucket
      /\ c = <<>> => read = NULL
      /\ c # <<>> => read = c[1] /\ Len(c) >= 1
  BY DEF Sized
<1>2. Append(c, p) \in Walks(read)'
  BY <1>1, GrowLinked DEF Positioned
<1>3. d = Append(c, p)
  BY <1>2, WalksUniqueNext
<1>4. /\ Len(d) = Len(c) + 1 /\ d[Len(c) + 1] = p
      /\ \A i \in 1 .. Len(c) : d[i] = c[i]
  BY <1>1, <1>3, AppendFacts
<1>5. \A i, j \in 1 .. Len(d) : d[i] = d[j] => i = j
  BY DEF Sized
<1>6. \A q \in 1 .. Len(c) : c[q] # p
  <2> SUFFICES ASSUME NEW q \in 1 .. Len(c), c[q] = p PROVE FALSE
    OBVIOUS
  <2>1. q \in 1 .. Len(d) /\ Len(c) + 1 \in 1 .. Len(d) /\ q # Len(c) + 1
    BY <1>1, <1>4
  <2> QED
    BY <1>4, <1>5, <2>1
<1>7. \A q \in 1 .. Len(c), r \in Index : storage'[c[q]][r] = storage[c[q]][r]
  BY <1>1, <1>6
<1>8. c # <<>> => readIndex' = readIndex
  <2>1. c # <<>> => read \in Bucket
    <3>1. c # <<>> => 1 \in 1 .. Len(c)
      BY <1>1
    <3> QED
      BY <1>1, <3>1
  <2> QED
    BY <2>1, QueueAssumption DEF Grow
<1> QED
  BY <1>1, <1>4, <1>7, <1>8 DEF Extends

LEMMA PushEffect ==
    ASSUME QueueInv, QueueInv', NEW x \in Item, Push(x)
    PROVE  \E c \in Walks(read), d \in Walks(read)' :
              /\ Sized(c) /\ Sized(d)' /\ Extends(c, d)
              /\ count' = count + 1 /\ d # <<>>
              /\ writeIndex' >= 1
              /\ storage'[d[Len(d)]][writeIndex' - 1] = x
<1>1. live /\ live' /\ count' = count + 1 /\ allowance' = allowance
  BY DEF Push
<1>2. TypeOK /\ TypeOK'
  BY <1>1, BothSized
<1>3. PICK c \in Walks(read), s \in Walks(spares) : Sized(c) /\ Linked(c, s)
  BY <1>1, BothSized
<1>4. PICK d \in Walks(read)' : Sized(d)'
  BY <1>1, BothSized
<1>5. /\ BucketSize \in Nat /\ BucketSize > 0 /\ writeIndex \in Nat
      /\ Len(c) \in Nat /\ \A i \in 1 .. Len(c) : c[i] \in Bucket
      /\ \A i, j \in 1 .. Len(c) : c[i] = c[j] => i = j
      /\ c # <<>> => Len(c) >= 1 /\ write = c[Len(c)]
      /\ c = <<>> => writeIndex = BucketSize
  BY <1>3 DEF Sized, Positioned
<1>6. CASE PushIntoBucket(x)
  <2>1. /\ next' = next /\ read' = read /\ readIndex' = readIndex
        /\ writeIndex' = writeIndex + 1 /\ writeIndex < BucketSize
        /\ storage' = [storage EXCEPT ![write][writeIndex] = x]
    BY <1>6 DEF PushIntoBucket
  <2>2. c \in Walks(read)'
    BY <2>1 DEF Walks, IsWalk
  <2>3. d = c
    BY <2>2, WalksUniqueNext
  <2>4. c # <<>> /\ Len(c) \in 1 .. Len(c) /\ write = c[Len(c)] /\ write \in Bucket
    <3>1. c # <<>>
      BY <1>5, <2>1
    <3>2. Len(c) >= 1 /\ Len(c) \in 1 .. Len(c)
      BY <1>5, <3>1
    <3> QED
      BY <1>5, <3>1, <3>2
  <2>5. writeIndex \in Index
    BY <1>5, <2>1 DEF Index
  <2>6. storage'[write][writeIndex] = x
    BY <1>2, <2>1, <2>4, <2>5 DEF TypeOK
  <2>7. ASSUME NEW q \in 1 .. Len(c), NEW r \in Index, q = Len(c) => r < writeIndex
        PROVE  storage'[c[q]][r] = storage[c[q]][r]
    <3>1. CASE q = Len(c)
      <4>1. r # writeIndex
        BY <1>5, <2>7, <3>1
      <4> QED
        BY <1>2, <2>1, <2>4, <2>5, <3>1, <4>1 DEF TypeOK
    <3>2. CASE q # Len(c)
      <4>1. c[q] # write /\ c[q] \in Bucket
        BY <1>5, <2>4, <3>2
      <4> QED
        BY <1>2, <2>1, <4>1 DEF TypeOK
    <3> QED
      BY <3>1, <3>2
  <2>8. Extends(c, d)
    BY <1>5, <2>1, <2>3, <2>7 DEF Extends
  <2>9. writeIndex' >= 1 /\ writeIndex' - 1 = writeIndex
    BY <1>5, <2>1
  <2> QED
    BY <1>1, <1>3, <1>4, <2>3, <2>4, <2>6, <2>8, <2>9
<1>7. CASE PushAndGrow(x)
  <2>1. PICK p \in Bucket : Grow(p) /\ storage' = [storage EXCEPT ![p][0] = x]
    BY <1>7 DEF PushAndGrow
  <2>2. writeIndex' = 1 /\ 0 \in Index
    BY <1>5, <1>7 DEF PushAndGrow, Index
  <2>3. \A b \in Bucket : b # p => storage'[b] = storage[b]
    BY <1>2, <2>1 DEF TypeOK
  <2>4. Extends(c, d) /\ Len(d) = Len(c) + 1 /\ d[Len(d)] = p
    BY <1>1, <1>2, <1>3, <1>4, <2>1, <2>3, GrowExtends
  <2>5. storage'[p][0] = x
    BY <1>2, <2>1, <2>2 DEF TypeOK
  <2>6. d # <<>>
    BY <1>5, <2>4
  <2> QED
    BY <1>1, <1>3, <1>4, <2>2, <2>4, <2>5, <2>6
<1> QED
  BY <1>6, <1>7 DEF Push

LEMMA ExtendsMoves ==
    ASSUME NEW c, NEW d, Len(c) \in Nat, Len(d) \in Nat, readIndex \in Nat,
           Extends(c, d), c # <<>>
    PROVE  Moves(c, d, 0, 0)
<1>1. readIndex' = readIndex + 0
  BY DEF Extends
<1>2. \A q \in 1 .. Len(c) : q - 0 = q /\ q \in 1 .. Len(d) /\ d[q] = c[q]
  BY DEF Extends
<1>3. \A q \in 1 .. Len(c), r \in Index : (q = Len(c) => r < writeIndex) =>
           storage'[c[q]][r] = storage[c[q]][r]
  BY DEF Extends
<1> QED
  BY <1>1, <1>2, <1>3 DEF Moves

(* shrink: all but the first bucket stay where they are.                   *)
LEMMA ShrinkMoves ==
    ASSUME TypeOK, NEW c \in Walks(read), NEW s \in Walks(spares), Sized(c), Linked(c, s),
           NEW d \in Walks(read)', Sized(d)',
           read # NULL, FreeBucket(read), read' = next[read], allowance' = allowance
    PROVE  /\ c # <<>> /\ Len(d) = Len(c) - 1
           /\ \A q \in 1 .. Len(c) : q > 1 => q - 1 \in 1 .. Len(d) /\ d[q - 1] = c[q]
           /\ \A q \in 1 .. Len(c), r \in Index : q > 1 =>
                  storage'[c[q]][r] = storage[c[q]][r]
<1>1. Tail(c) \in Walks(read)' /\ c # <<>>
  BY ShrinkLinked
<1>2. d = Tail(c)
  BY <1>1, WalksUniqueNext
<1>3. /\ c \in Seq(Bucket) /\ Len(c) \in Nat /\ Len(c) >= 1 /\ read = c[1]
      /\ \A i \in 1 .. Len(c) : c[i] \in Bucket
      /\ \A i, j \in 1 .. Len(c) : c[i] = c[j] => i = j
  BY <1>1 DEF Sized
<1>4. Len(d) = Len(c) - 1 /\ \A i \in 1 .. Len(c) - 1 : d[i] = c[i + 1]
  BY <1>2, <1>3, TailFacts
<1>5. ASSUME NEW q \in 1 .. Len(c), q > 1
      PROVE  /\ q - 1 \in 1 .. Len(d) /\ d[q - 1] = c[q]
             /\ \A r \in Index : storage'[c[q]][r] = storage[c[q]][r]
  <2>1. q - 1 \in 1 .. Len(c) - 1 /\ (q - 1) + 1 = q
    BY <1>3, <1>5
  <2>2. d[q - 1] = c[q]
    BY <1>4, <2>1
  <2>3. c[q] # read /\ c[q] \in Bucket
    <3>1. 1 \in 1 .. Len(c)
      BY <1>3
    <3> QED
      BY <1>3, <1>5, <3>1
  <2>4. storage'[c[q]] = storage[c[q]]
    BY <2>3 DEF FreeBucket, TypeOK
  <2> QED
    BY <1>4, <2>1, <2>2, <2>4
<1> QED
  BY <1>1, <1>4, <1>5

LEMMA PopEffect ==
    ASSUME QueueInv, QueueInv', Pop
    PROVE  \/ count = 0 /\ count' = 0 /\ ret' = NULL
           \/ \E c \in Walks(read), d \in Walks(read)', e \in 0 .. 1 :
                 /\ Sized(c) /\ Sized(d)' /\ Moves(c, d, 1, e)
                 /\ count > 0 /\ count' = count - 1 /\ ret' = Contents[1]
<1>1. live /\ live' /\ allowance' = allowance
  BY DEF Pop
<1>2. TypeOK /\ TypeOK'
  BY <1>1, BothSized
<1>3. PICK c \in Walks(read), s \in Walks(spares) : Sized(c) /\ Linked(c, s)
  BY <1>1, BothSized
<1>4. PICK d \in Walks(read)' : Sized(d)'
  BY <1>1, BothSized
<1>5. /\ BucketSize \in Nat /\ BucketSize > 0
      /\ readIndex \in Nat /\ readIndex <= BucketSize
      /\ writeIndex \in Nat /\ writeIndex <= BucketSize /\ count \in Nat
      /\ Positioned(c) /\ IsInjective(c) /\ Len(c) \in Nat
      /\ c = <<>> => read = NULL /\ count = 0 /\ readIndex = BucketSize
      /\ c # <<>> => Len(c) >= 1 /\ read = c[1]
  BY <1>3 DEF Sized, Positioned
<1>6. c # <<>> =>
           /\ Len(c) = 1 <=> read = write
           /\ readIndex < BucketSize /\ (read # write \/ readIndex # writeIndex) => count > 0
           /\ read = write /\ readIndex = writeIndex => count = 0
           /\ readIndex = BucketSize /\ Len(c) = 1 => writeIndex = BucketSize /\ count = 0
           /\ Len(c) > 1 => /\ next[read] = c[2]
                            /\ Len(c) = 2 <=> next[read] = write
                            /\ readIndex = BucketSize /\ (Len(c) = 2 => writeIndex > 0) => count > 0
                            /\ readIndex = BucketSize /\ Len(c) = 2 /\ writeIndex = 0 => count = 0
  BY <1>2, <1>5, Reading
<1>7. CASE PopNothing
  BY <1>5, <1>6, <1>7 DEF PopNothing, fields
<1>8. CASE PopFromBucket
  <2>1. /\ next' = next /\ storage' = storage /\ read' = read
        /\ readIndex' = readIndex + 1 /\ count' = count - 1
        /\ ret' = storage[read][readIndex] /\ readIndex < BucketSize
        /\ (read # write \/ readIndex # writeIndex)
    BY <1>8 DEF PopFromBucket, blocks
  <2>2. c # <<>> /\ count > 0 /\ Len(c) >= 1 /\ read = c[1]
    BY <1>5, <1>6, <2>1
  <2>3. c \in Walks(read)'
    BY <2>1 DEF Walks, IsWalk
  <2>4. d = c
    BY <2>3, WalksUniqueNext
  <2>5. Moves(c, d, 1, 0)
    <3>1. \A q \in 1 .. Len(c) : q - 0 = q
      OBVIOUS
    <3> QED
      BY <2>1, <2>4, <3>1 DEF Moves
  <2>6. ret' = Contents[1]
    <3>1. 1 \in 1 .. Len(c) /\ readIndex \in Index /\ 1 \in 1 .. count
      BY <1>5, <2>1, <2>2 DEF Index
    <3>2. readIndex + 1 - 1 = (1 - 1) * BucketSize + readIndex
      BY <1>5
    <3> QED
      BY <1>2, <2>1, <2>2, <3>1, <3>2, ContentsAt
  <2> QED
    BY <1>3, <1>4, <2>1, <2>2, <2>5, <2>6
<1>9. CASE PopLastBucket
  <2>1. /\ readIndex >= BucketSize /\ read # NULL /\ next[read] = NULL
        /\ count' = count /\ ret' = NULL
    BY <1>9 DEF PopLastBucket
  <2>2. c # <<>> /\ Len(c) = 1
    BY <1>5, <2>1, WalkStarts
  <2> QED
    BY <1>5, <1>6, <2>1, <2>2
<1>10. CASE PopNextBucket
  <2>1. /\ readIndex = BucketSize /\ read # NULL /\ next[read] # NULL
        /\ FreeBucket(read) /\ read' = next[read]
    BY <1>5, <1>10 DEF PopNextBucket
  <2>2. c # <<>> /\ Len(c) > 1
    <3>1. c # <<>> /\ Len(c) # 1
      BY <1>5, <2>1, WalkStarts
    <3>2. Len(c) \in Nat /\ Len(c) >= 1
      BY <1>5, <3>1
    <3> QED
      BY <3>1, <3>2, OneOrMore
  <2>3. CASE next[read] = write /\ writeIndex = 0
    <3>1. count' = count /\ ret' = NULL
      BY <1>10, <2>3 DEF PopNextBucket
    <3> QED
      BY <1>6, <2>1, <2>2, <2>3, <3>1
  <2>4. CASE ~ (next[read] = write /\ writeIndex = 0)
    <3>1. readIndex' = 1 /\ ret' = storage[next[read]][0] /\ count' = count - 1
      BY <1>10, <2>4 DEF PopNextBucket
    <3>2. count > 0 /\ next[read] = c[2]
      BY <1>5, <1>6, <2>1, <2>2, <2>4
    <3>3. /\ \A q \in 1 .. Len(c) : q > 1 => q - 1 \in 1 .. Len(d) /\ d[q - 1] = c[q]
          /\ \A q \in 1 .. Len(c), r \in Index : q > 1 =>
                 storage'[c[q]][r] = storage[c[q]][r]
      BY <1>1, <1>2, <1>3, <1>4, <2>1, ShrinkMoves
    <3>4. readIndex + 1 = readIndex' + BucketSize
      BY <1>5, <2>1, <3>1
    <3>5. Moves(c, d, 1, 1)
      BY <3>3, <3>4 DEF Moves
    <3>6. ret' = Contents[1]
      <4>1. 2 \in 1 .. Len(c) /\ 0 \in Index /\ 1 \in 1 .. count
        BY <1>5, <2>2, <3>2 DEF Index
      <4>2. readIndex + 1 - 1 = (2 - 1) * BucketSize + 0
        BY <1>5, <2>1
      <4> QED
        BY <1>2, <3>1, <3>2, <4>1, <4>2, ContentsAt
    <3> QED
      BY <1>3, <1>4, <3>1, <3>2, <3>5, <3>6
  <2> QED
    BY <2>3, <2>4
<1> QED
  BY <1>7, <1>8, <1>9, <1>10 DEF Pop

-----------------------------------------------------------------------------
(* The pointer that reserve returned *)

HeldType == [block : Bucket, index : Index, ahead : Nat]

(* What HeldExact says of the held struct's place, without a division.     *)
HeldAt(c) ==
    /\ held.ahead < count
    /\ \E q \in 1 .. Len(c) :
          /\ held.block = c[q]
          /\ readIndex + held.ahead = (q - 1) * BucketSize + held.index

LEMMA HeldPlace ==
    ASSUME TypeOK, held \in HeldType, HeldExact, held # None,
           NEW c \in Walks(read)
    PROVE  HeldAt(c)
<1>1. PICK d \in Walks(read) :
            LET at == readIndex + held.ahead
            IN  /\ held.ahead < count
                /\ at < Len(d) * BucketSize
                /\ held.block = d[at \div BucketSize + 1]
                /\ held.index = at % BucketSize
  BY DEF HeldExact
<1>2. d = c
  BY WalksUnique
<1> DEFINE at == readIndex + held.ahead
           k  == at \div BucketSize
<1>3. /\ held.ahead < count /\ at < Len(c) * BucketSize
      /\ held.block = c[k + 1] /\ held.index = at % BucketSize
  BY <1>1, <1>2
<1>4. /\ BucketSize \in Nat /\ BucketSize > 0 /\ Len(c) \in Nat /\ at \in Nat
  <2>1. Len(c) \in Nat
    BY WalkIndices
  <2> QED
    BY <2>1, QueueAssumption DEF TypeOK, HeldType
<1> HIDE DEF at
<1>5. k \in Nat /\ at % BucketSize \in Nat /\ at = k * BucketSize + (at % BucketSize)
  BY <1>4, Division
<1> HIDE DEF k
<1>6. k + 1 \in 1 .. Len(c) /\ (k + 1) - 1 = k
  <2> SUFFICES ASSUME Len(c) <= k PROVE FALSE
    BY <1>4, <1>5
  <2>1. k * BucketSize >= Len(c) * BucketSize
    <3>1. CASE k = Len(c)
      <4>1. Len(c) * BucketSize \in Nat
        BY <1>4, ProductType
      <4> QED
        BY <3>1, <4>1
    <3>2. CASE k # Len(c)
      <4>1. Len(c) < k
        BY <1>4, <1>5, <3>2
      <4>2. Len(c) * BucketSize \in Nat /\ k * BucketSize >= Len(c) * BucketSize + BucketSize
        BY <1>4, <1>5, <4>1, ProductOrder
      <4>3. k * BucketSize \in Nat
        BY <1>4, <1>5, ProductType
      <4> QED
        BY <1>4, <4>2, <4>3
    <3> QED
      BY <3>1, <3>2
  <2>2. k * BucketSize \in Nat /\ Len(c) * BucketSize \in Nat
    BY <1>4, <1>5, ProductType
  <2> QED
    BY <1>3, <1>4, <1>5, <2>1, <2>2
<1>7. at = ((k + 1) - 1) * BucketSize + held.index
  BY <1>3, <1>5, <1>6
<1> QED
  BY <1>3, <1>6, <1>7 DEF HeldAt, at

LEMMA HeldEstablish ==
    TypeOK /\ held \in HeldType => \A c \in Walks(read) : HeldAt(c) => HeldExact
<1> SUFFICES ASSUME TypeOK, held \in HeldType, NEW c \in Walks(read), HeldAt(c)
             PROVE  HeldExact
  OBVIOUS
<1>1. PICK q \in 1 .. Len(c) :
         /\ held.block = c[q]
         /\ readIndex + held.ahead = (q - 1) * BucketSize + held.index
  BY DEF HeldAt
<1>2. /\ BucketSize \in Nat /\ BucketSize > 0 /\ Len(c) \in Nat
      /\ held.index \in Nat /\ held.index < BucketSize
      /\ q \in Nat /\ q >= 1 /\ q <= Len(c) /\ q - 1 \in Nat
  <2>1. Len(c) \in Nat
    BY WalkIndices
  <2> QED
    BY <2>1, QueueAssumption DEF HeldType, Index
<1> DEFINE at == readIndex + held.ahead
<1>3. at \div BucketSize = q - 1 /\ at % BucketSize = held.index
  <2> DEFINE k == q - 1
             r == held.index
  <2>1. k \in Nat /\ r \in Nat /\ r < BucketSize /\ at = k * BucketSize + r
    BY <1>1, <1>2
  <2> HIDE DEF k, r, at
  <2>2. at \div BucketSize = k /\ at % BucketSize = r
    BY <1>2, <2>1, Quotient
  <2> QED
    BY <2>2 DEF k, r
<1>4. at < Len(c) * BucketSize
  <2>1. Len(c) * BucketSize >= (q - 1) * BucketSize + BucketSize
        /\ (q - 1) * BucketSize \in Nat
    <3>1. q - 1 < Len(c)
      BY <1>2
    <3> QED
      BY <1>2, <3>1, ProductOrder
  <2>2. Len(c) * BucketSize \in Nat
    BY <1>2, ProductType
  <2> QED
    BY <1>1, <1>2, <2>1, <2>2
<1>5. held.block = c[at \div BucketSize + 1]
  <2>1. (q - 1) + 1 = q
    BY <1>2
  <2> QED
    BY <1>1, <1>3, <2>1
<1>6. held.ahead < count
  BY DEF HeldAt
<1> QED
  BY <1>3, <1>4, <1>5, <1>6 DEF HeldExact

LEMMA HeldEstablishNext ==
    (TypeOK /\ held \in HeldType => \A c \in Walks(read) : HeldAt(c) => HeldExact)'
BY HeldEstablish, PTL

(* The held struct moves up with the others.                               *)
LEMMA HeldStep ==
    ASSUME TypeOK, TypeOK', held \in HeldType, HeldExact, held # None,
           NEW c \in Walks(read), Sized(c), NEW d \in Walks(read)',
           NEW k \in Nat, NEW e \in 0 .. 1, Moves(c, d, k, e),
           k <= held.ahead, held' = [held EXCEPT !.ahead = @ - k],
           held.ahead < count' + k
    PROVE  held' \in HeldType /\ HeldExact'
<1>1. HeldAt(c)
  BY HeldPlace
<1>2. PICK q \in 1 .. Len(c) :
         /\ held.block = c[q]
         /\ readIndex + held.ahead = (q - 1) * BucketSize + held.index
  BY <1>1 DEF HeldAt
<1>3. /\ BucketSize \in Nat /\ BucketSize > 0 /\ readIndex \in Nat /\ readIndex' \in Nat
      /\ count' \in Nat /\ Len(c) \in Nat /\ q \in Nat /\ q >= 1
      /\ held.ahead \in Nat /\ held.index \in Nat /\ held.index < BucketSize
  <2>1. Len(c) \in Nat
    BY DEF Sized
  <2>2. q \in Nat /\ q >= 1
    BY <2>1
  <2>3. held.ahead \in Nat /\ held.index \in 0 .. BucketSize - 1
    BY DEF HeldType, Index
  <2>4. readIndex \in Nat /\ readIndex' \in Nat /\ count' \in Nat
    BY QueueAssumption DEF TypeOK
  <2> QED
    BY <2>1, <2>2, <2>3, <2>4, QueueAssumption
<1>4. /\ held'.block = held.block /\ held'.index = held.index
      /\ held'.ahead = held.ahead - k /\ held'.ahead \in Nat
      /\ held' \in HeldType
  BY <1>3 DEF HeldType
<1>5. q > e /\ readIndex' + held'.ahead = (q - e - 1) * BucketSize + held.index
  <2> DEFINE i == held.ahead - k + 1
  <2>1. i \in Nat /\ i >= 1 /\ readIndex + (i + k) - 1 = readIndex + held.ahead
    BY <1>3
  <2>2. readIndex' + i - 1 = readIndex' + held'.ahead
    BY <1>3, <1>4
  <2> HIDE DEF i
  <2>3. Shifted(readIndex, readIndex', k, e, i, q, held.index, BucketSize)
    BY <1>2, <1>3, <2>1 DEF Moves, Shifted
  <2>4. q > e /\ readIndex' + i - 1 = (q - e - 1) * BucketSize + held.index
    BY <2>3, ShiftedPlace
  <2> QED
    BY <2>2, <2>4
<1>6. q - e \in 1 .. Len(d) /\ d[q - e] = c[q]
  BY <1>5 DEF Moves
<1>7. HeldAt(d)'
  <2>1. held'.ahead < count'
    BY <1>3, <1>4
  <2> QED
    BY <1>2, <1>4, <1>5, <1>6, <2>1 DEF HeldAt
<1> QED
  BY <1>4, <1>7, HeldEstablishNext

-----------------------------------------------------------------------------
(* The operations that only a struct queue has *)

LEMMA UpdateInv ==
    ASSUME QueueInv, held \in HeldType, NEW x \in Item, Update(x)
    PROVE  QueueInv'
<1>1. /\ TypeOK /\ rover' = rover /\ rover = None /\ ret' = None
      /\ UNCHANGED <<next, allocated, fields, allowance, live>>
      /\ storage' = [storage EXCEPT ![held.block][held.index] = x]
  BY DEF Update, QueueInv
<1>2. held.block \in Bucket /\ held.index \in Index
  BY DEF HeldType
<1>3. storage' \in [Bucket -> [Index -> Item \cup {NULL}]]
  BY <1>1, <1>2 DEF TypeOK
<1>4. TypeOK'
  BY <1>1, <1>3 DEF TypeOK, fields
<1>5. Walks(read)' = Walks(read) /\ Walks(spares)' = Walks(spares)
  BY <1>1 DEF Walks, IsWalk, fields
<1>6. ASSUME NEW c, NEW s
      PROVE  /\ Linked(c, s) => Linked(c, s)'
             /\ Positioned(c) => Positioned(c)'
             /\ Enumerating(c)'
  BY <1>1 DEF Linked, Positioned, Enumerating, fields
<1> QED
  BY <1>1, <1>4, <1>5, <1>6 DEF QueueInv

LEMMA GrowQueueInv ==
    ASSUME QueueInv, GrowQueue
    PROVE  QueueInv'
<1>1. /\ TypeOK /\ live /\ live' = live /\ allowance' = allowance /\ rover' \in {None, Stale}
      /\ count' = count /\ ret' = ret /\ storage' = storage /\ writeIndex' = 0
      /\ writeIndex >= BucketSize
  BY DEF QueueInv, GrowQueue, Modify
<1>2. PICK c \in Walks(read), s \in Walks(spares) : Linked(c, s) /\ Positioned(c)
  BY <1>1 DEF QueueInv
<1>3. PICK p \in Bucket : Grow(p)
  BY DEF GrowQueue
<1>4. /\ c \in Seq(Bucket) /\ Len(c) \in Nat /\ (c = <<>> <=> Len(c) = 0)
      /\ BucketSize \in Nat /\ BucketSize > 0 /\ writeIndex = BucketSize
      /\ readIndex \in Nat /\ readIndex <= BucketSize /\ count \in Nat
  <2>1. c \in Seq(Bucket)
    BY WalkIndices
  <2>2. Len(c) \in Nat /\ (c = <<>> <=> Len(c) = 0)
    BY <2>1
  <2> QED
    BY <1>1, <2>1, <2>2, QueueAssumption DEF TypeOK
<1>5. /\ write' = p /\ readIndex' = IF read = NULL THEN 0 ELSE readIndex
      /\ read' = IF read = NULL THEN p ELSE read
  BY <1>3 DEF Grow
<1>6. /\ Append(c, p) \in Walks(read)'
      /\ \E t \in Walks(spares)' : Linked(Append(c, p), t)'
  BY <1>1, <1>2, <1>3, GrowLinked DEF Positioned
<1>7. PICK e \in Seq(Bucket) : e = Append(c, p)
  BY <1>4, AppendFacts
<1>8. Len(e) = Len(c) + 1 /\ e[Len(c) + 1] = p /\ e # <<>>
  <2>1. Len(e) = Len(c) + 1 /\ e[Len(c) + 1] = p
    BY <1>4, <1>7, AppendFacts
  <2> QED
    BY <1>4, <2>1
<1>9. PICK t \in Walks(spares)' : Linked(e, t)'
  BY <1>6, <1>7
<1>10. read = NULL <=> c = <<>>
  BY WalkStarts
<1>11. count' = Len(c) * BucketSize + 0 - readIndex'
  <2>1. CASE c = <<>>
    <3>1. count = 0 /\ readIndex' = 0 /\ Len(c) = 0
      BY <1>2, <1>4, <1>5, <1>10, <2>1 DEF Positioned
    <3>2. Len(c) * BucketSize = 0
      BY <1>4, <3>1
    <3> QED
      BY <1>1, <3>1, <3>2
  <2>2. CASE c # <<>>
    <3>1. count = (Len(c) - 1) * BucketSize + BucketSize - readIndex /\ Len(c) >= 1
      BY <1>2, <1>4, <2>2 DEF Positioned
    <3>2. (Len(c) - 1) * BucketSize \in Nat
          /\ Len(c) * BucketSize = (Len(c) - 1) * BucketSize + BucketSize
      BY <1>4, <3>1, Product
    <3>3. readIndex' = readIndex
      BY <1>5, <1>10, <2>2
    <3> QED
      BY <1>1, <1>4, <3>1, <3>2, <3>3
  <2> QED
    BY <2>1, <2>2
<1>12. TypeOK'
  <2>1. /\ next' \in [Bucket -> Bucket \cup {NULL}] /\ allocated' \subseteq Bucket
        /\ spares' \in Bucket \cup {NULL}
    BY <1>1, <1>3 DEF Grow, NewBucket, TypeOK
  <2>2. spareAllowance' \in 0 .. allowance'
    <3>1. t \in Seq(Bucket)
      BY <1>9, BoundedIsSeq DEF Walks
    <3>2. Len(t) \in Nat /\ Len(t) + spareAllowance' = allowance'
      BY <1>9, <3>1 DEF Linked
    <3>3. spareAllowance' \in Nat /\ allowance' \in Nat
      BY <1>1, <1>3, QueueAssumption DEF Grow, NewBucket, TypeOK
    <3> QED
      BY <3>2, <3>3
  <2>3. /\ {read', write'} \subseteq Bucket \cup {NULL}
        /\ readIndex' \in 0 .. BucketSize /\ writeIndex' \in 0 .. BucketSize
    BY <1>1, <1>4, <1>5 DEF TypeOK
  <2> QED
    BY <1>1, <2>1, <2>2, <2>3 DEF TypeOK
<1>13. Positioned(e)'
  <2>1. Len(e) - 1 = Len(c) /\ (Len(e) = 1 => c = <<>>)
    BY <1>4, <1>8
  <2>2. Len(e) = 1 => readIndex' <= writeIndex'
    BY <1>1, <1>5, <1>10, <2>1
  <2> QED
    BY <1>1, <1>5, <1>8, <1>11, <2>1, <2>2 DEF Positioned
<1> QED
  BY <1>1, <1>6, <1>7, <1>9, <1>12, <1>13, Establish

LEMMA ShrinkQueueInv ==
    ASSUME QueueInv, ShrinkQueue
    PROVE  QueueInv'
<1>1. /\ TypeOK /\ live /\ live' = live /\ allowance' = allowance /\ rover' \in {None, Stale}
      /\ count' = count /\ ret' = ret /\ readIndex >= BucketSize /\ read # NULL
      /\ FreeBucket(read)
  BY DEF QueueInv, ShrinkQueue, Modify
<1>2. PICK c \in Walks(read), s \in Walks(spares) : Linked(c, s) /\ Positioned(c)
  BY <1>1 DEF QueueInv
<1>3. /\ BucketSize \in Nat /\ BucketSize > 0 /\ readIndex = BucketSize
      /\ writeIndex \in Nat /\ writeIndex <= BucketSize /\ count \in Nat
  BY <1>1, QueueAssumption DEF TypeOK
<1>4. read' = next[read]
  BY DEF ShrinkQueue
<1>5. /\ c # <<>> /\ read \in Bucket
      /\ Tail(c) \in Walks(read)'
      /\ \E t \in Walks(spares)' : Linked(Tail(c), t)'
      /\ next' \in [Bucket -> Bucket \cup {NULL}] /\ allocated' \subseteq Bucket
      /\ read' \in Bucket \cup {NULL} /\ spares' \in Bucket \cup {NULL}
      /\ spareAllowance' \in 0 .. allowance'
      /\ storage' \in [Bucket -> [Index -> Item \cup {NULL}]]
  BY <1>1, <1>2, <1>4, ShrinkLinked
<1>6. c \in Seq(Bucket) /\ Len(c) \in Nat /\ Len(c) >= 1
  <2>1. c \in Seq(Bucket)
    BY WalkIndices
  <2> QED
    BY <1>5, <2>1
<1>7. CASE next[read] = NULL
  <2>1. write' = NULL /\ readIndex' = BucketSize /\ writeIndex' = BucketSize
    BY <1>7 DEF ShrinkQueue
  <2>2. Len(c) = 1
    BY <1>5, <1>7, WalkStarts
  <2>3. count = 0
    BY <1>1, <1>2, <1>3, <1>5, <2>2, Reading DEF Linked
  <2>4. Tail(c) = <<>>
    <3>1. Tail(c) \in Seq(Bucket) /\ Len(Tail(c)) = 0
      <4>1. Tail(c) \in Seq(Bucket) /\ Len(Tail(c)) = Len(c) - 1
        BY <1>6, TailFacts
      <4> QED
        BY <2>2, <4>1
    <3> QED
      BY <3>1, EmptyFacts
  <2>5. PICK t \in Walks(spares)' : Linked(<<>>, t)'
    BY <1>5, <2>4
  <2>6. TypeOK'
    BY <1>1, <1>3, <1>5, <2>1 DEF TypeOK
  <2>7. Positioned(<<>>)'
    BY <1>1, <2>1, <2>3, <1>4, <1>7 DEF Positioned
  <2> QED
    BY <1>1, <1>5, <2>4, <2>5, <2>6, <2>7, Establish
<1>8. CASE next[read] # NULL
  <2>1. readIndex' = 0 /\ write' = write /\ writeIndex' = writeIndex
    BY <1>8 DEF ShrinkQueue
  <2>2. Len(c) > 1
    <3>1. Len(c) # 1
      BY <1>5, <1>8, WalkStarts
    <3> QED
      BY <1>6, <3>1, OneOrMore
  <2>3. write = c[Len(c)] /\ count = (Len(c) - 1) * BucketSize + writeIndex - readIndex
    BY <1>2, <1>5 DEF Positioned
  <2>4. PICK d \in Seq(Bucket) : d = Tail(c)
    BY <1>6, TailFacts
  <2>5. /\ Len(d) = Len(c) - 1
        /\ \A i \in 1 .. Len(c) - 1 : d[i] = c[i + 1]
    BY <1>6, <2>4, TailFacts
  <2>6. PICK t \in Walks(spares)' : Linked(d, t)'
    BY <1>5, <2>4
  <2>7. TypeOK'
    BY <1>1, <1>3, <1>5, <2>1 DEF TypeOK
  <2>8. Positioned(d)'
    <3>1. d # <<>> /\ d[Len(d)] = c[Len(c)]
      <4>1. Len(c) - 1 \in 1 .. Len(c) - 1 /\ (Len(c) - 1) + 1 = Len(c)
        BY <1>6, <2>2
      <4> QED
        BY <1>6, <2>2, <2>5, <4>1
    <3>2. Len(c) - 1 \in Nat /\ Len(c) - 1 >= 1
      BY <1>6, <2>2
    <3>3. /\ (Len(c) - 1 - 1) * BucketSize \in Nat
          /\ (Len(c) - 1) * BucketSize = (Len(c) - 1 - 1) * BucketSize + BucketSize
      BY <1>3, <3>2, Product
    <3>4. count' = (Len(d) - 1) * BucketSize + writeIndex' - readIndex'
      BY <1>1, <1>3, <2>1, <2>3, <2>5, <3>3
    <3>5. readIndex' <= writeIndex'
      BY <1>3, <2>1
    <3> QED
      BY <2>1, <2>3, <3>1, <3>4, <3>5 DEF Positioned
  <2> QED
    BY <1>1, <1>5, <2>4, <2>6, <2>7, <2>8, Establish
<1> QED
  BY <1>7, <1>8

(* grow and shrink do not touch what is queued.                            *)
LEMMA GrowQueueEffect ==
    ASSUME QueueInv, QueueInv', GrowQueue
    PROVE  \E c \in Walks(read), d \in Walks(read)' :
              Sized(c) /\ Sized(d)' /\ (c # <<>> => Moves(c, d, 0, 0))
<1>1. live /\ live' /\ allowance' = allowance /\ storage' = storage
  BY DEF GrowQueue
<1>2. TypeOK /\ TypeOK'
  BY <1>1, BothSized
<1>3. PICK c \in Walks(read), s \in Walks(spares) : Sized(c) /\ Linked(c, s)
  BY <1>1, BothSized
<1>4. PICK d \in Walks(read)' : Sized(d)'
  BY <1>1, BothSized
<1>5. PICK p \in Bucket : Grow(p)
  BY DEF GrowQueue
<1>6. Extends(c, d) /\ Len(d) = Len(c) + 1
  BY <1>1, <1>2, <1>3, <1>4, <1>5, GrowExtends
<1>7. Len(c) \in Nat /\ Len(d) \in Nat /\ readIndex \in Nat
  BY <1>3, <1>6 DEF Sized
<1>8. c # <<>> => Moves(c, d, 0, 0)
  BY <1>6, <1>7, ExtendsMoves
<1> QED
  BY <1>3, <1>4, <1>8

LEMMA ShrinkQueueEffect ==
    ASSUME QueueInv, QueueInv', ShrinkQueue
    PROVE  \/ count = 0
           \/ \E c \in Walks(read), d \in Walks(read)' :
                 Sized(c) /\ Sized(d)' /\ Moves(c, d, 0, 1)
<1>1. /\ live /\ live' /\ allowance' = allowance /\ readIndex >= BucketSize
      /\ read # NULL /\ FreeBucket(read) /\ read' = next[read]
  BY DEF ShrinkQueue
<1>2. TypeOK /\ TypeOK'
  BY <1>1, BothSized
<1>3. PICK c \in Walks(read), s \in Walks(spares) : Sized(c) /\ Linked(c, s)
  BY <1>1, BothSized
<1>4. PICK d \in Walks(read)' : Sized(d)'
  BY <1>1, BothSized
<1>5. /\ c # <<>> /\ Positioned(c) /\ IsInjective(c)
      /\ BucketSize \in Nat /\ readIndex \in Nat /\ readIndex = BucketSize
  <2>1. c # <<>> /\ Positioned(c) /\ IsInjective(c)
    BY <1>1, <1>3 DEF Sized
  <2>2. BucketSize \in Nat /\ readIndex \in Nat /\ readIndex <= BucketSize
    BY <1>3 DEF Sized
  <2> QED
    BY <1>1, <2>1, <2>2
<1>6. CASE next[read] = NULL
  <2>1. Len(c) = 1
    BY <1>5, <1>6, WalkStarts
  <2> QED
    BY <1>2, <1>5, <2>1, Reading
<1>7. CASE next[read] # NULL
  <2>1. readIndex' = 0
    BY <1>7 DEF ShrinkQueue
  <2>2. /\ \A q \in 1 .. Len(c) : q > 1 => q - 1 \in 1 .. Len(d) /\ d[q - 1] = c[q]
        /\ \A q \in 1 .. Len(c), r \in Index : q > 1 =>
               storage'[c[q]][r] = storage[c[q]][r]
    BY <1>1, <1>2, <1>3, <1>4, ShrinkMoves
  <2>3. readIndex + 0 = readIndex' + BucketSize
    BY <1>5, <2>1
  <2>4. Moves(c, d, 0, 1)
    BY <2>2, <2>3 DEF Moves
  <2> QED
    BY <1>3, <1>4, <2>4
<1> QED
  BY <1>6, <1>7

-----------------------------------------------------------------------------
(* The inductive invariant *)

HeldInv ==
    /\ held \in {None} \cup HeldType
    /\ ~ live => held = None
    /\ HeldExact

LEMMA StructInvParts == StructInv <=> QueueInv /\ HeldInv
BY DEF StructInv, HeldInv, HeldType

LEMMA NothingHeld ==
    ASSUME held' = None
    PROVE  HeldInv'
BY DEF HeldInv, HeldExact

(* While a struct is held there is one in the queue.                       *)
LEMMA HeldQueued ==
    ASSUME TypeOK, HeldInv, held # None
    PROVE  /\ held \in HeldType /\ live /\ held.ahead \in Nat /\ held.ahead < count
           /\ count > 0
           /\ held = [held EXCEPT !.ahead = @ - 0]
<1>1. held \in HeldType /\ live /\ HeldExact
  BY DEF HeldInv
<1>2. held.ahead \in Nat
  BY <1>1 DEF HeldType
<1>3. held.ahead < count
  BY <1>1 DEF HeldExact
<1>4. count \in Nat
  BY DEF TypeOK
<1>5. held.ahead - 0 = held.ahead
  BY <1>2
<1>6. held = [held EXCEPT !.ahead = held.ahead - 0]
  BY <1>1, <1>5 DEF HeldType
<1> QED
  BY <1>1, <1>2, <1>3, <1>4, <1>6

LEMMA HeldStays ==
    ASSUME TypeOK, TypeOK', HeldInv, live', held' = held,
           NEW c \in Walks(read), Sized(c), NEW d \in Walks(read)',
           NEW e \in 0 .. 1, count > 0 => Moves(c, d, 0, e), count' >= count
    PROVE  HeldInv'
<1>1. CASE held = None
  BY <1>1, NothingHeld
<1>2. CASE held # None
  <2>1. /\ held \in HeldType /\ held.ahead \in Nat /\ held.ahead < count /\ count > 0
        /\ held' = [held EXCEPT !.ahead = @ - 0] /\ HeldExact
    BY <1>2, HeldQueued DEF HeldInv
  <2>2. count \in Nat /\ count' \in Nat
    BY DEF TypeOK
  <2>3. 0 <= held.ahead /\ held.ahead < count' + 0
    BY <2>1, <2>2
  <2>4. held' \in HeldType /\ HeldExact'
    BY <1>2, <2>1, <2>3, HeldStep
  <2> QED
    BY <2>4 DEF HeldInv
<1> QED
  BY <1>1, <1>2

LEMMA PushHeld ==
    ASSUME StructInv, QueueInv', NEW x \in Item, PushStruct(x)
    PROVE  HeldInv'
<1>1. QueueInv /\ HeldInv /\ Push(x) /\ held' = held /\ live' /\ live
  BY StructInvParts DEF PushStruct, Push
<1>2. TypeOK /\ TypeOK'
  BY <1>1, BothSized
<1>3. PICK c \in Walks(read), d \in Walks(read)' :
              /\ Sized(c) /\ Sized(d)' /\ Extends(c, d) /\ count' = count + 1
  BY <1>1, PushEffect
<1>4. /\ Len(c) \in Nat /\ readIndex \in Nat /\ count \in Nat
      /\ c = <<>> => count = 0
  BY <1>3 DEF Sized, Positioned
<1>5. Len(d) \in Nat
  BY <1>3 DEF Sized
<1>6. count > 0 => Moves(c, d, 0, 0)
  BY <1>3, <1>4, <1>5, ExtendsMoves
<1>7. count' >= count
  BY <1>3, <1>4
<1> QED
  BY <1>1, <1>2, <1>3, <1>6, <1>7, HeldStays

(* What was pushed last is in front of the write position.                 *)
LEMMA PushedPlace ==
    ASSUME QueueInv, QueueInv', NEW x \in Item, Push(x),
           NEW d \in Walks(read)', Sized(d)', count' = count + 1, d # <<>>, writeIndex' >= 1
    PROVE  /\ Len(d) \in 1 .. Len(d) /\ writeIndex' - 1 \in Index
           /\ readIndex' + count = (Len(d) - 1) * BucketSize + (writeIndex' - 1)
<1>1. TypeOK /\ TypeOK'
  BY BothSized DEF Push
<1>2. /\ Len(d) \in Nat /\ Len(d) >= 1 /\ BucketSize \in Nat
      /\ count' = (Len(d) - 1) * BucketSize + writeIndex' - readIndex'
  BY DEF Sized
<1>3. count \in Nat /\ readIndex' \in Nat /\ writeIndex' \in Nat
  BY <1>1, QueueAssumption DEF TypeOK
<1>4. writeIndex' - 1 \in Index
  <2>1. \A w, b \in Nat : w >= 1 /\ w <= b => w - 1 \in 0 .. b - 1
    OBVIOUS
  <2>2. writeIndex' <= BucketSize
    BY <1>1, QueueAssumption DEF TypeOK
  <2>3. writeIndex' - 1 \in 0 .. BucketSize - 1
    BY <1>2, <1>3, <2>1, <2>2, Zenon
  <2> QED
    BY <2>3 DEF Index
<1>5. readIndex' + count = (Len(d) - 1) * BucketSize + (writeIndex' - 1)
  <2>1. (Len(d) - 1) * BucketSize \in Nat
    BY <1>2, Product
  <2>2. PICK k \in Nat : k = (Len(d) - 1) * BucketSize
    BY <2>1
  <2>3. PICK n \in Nat : n = count
    BY <1>3
  <2>4. PICK w \in Nat : w = writeIndex'
    BY <1>3
  <2>5. PICK r \in Nat : r = readIndex'
    BY <1>3
  <2>6. n + 1 = k + w - r
    BY <1>2, <2>2, <2>3, <2>4, <2>5, Zenon
  <2>7. r + n = k + (w - 1)
    BY <2>6
  <2> QED
    BY <2>2, <2>3, <2>4, <2>5, <2>7
<1> QED
  BY <1>2, <1>4, <1>5

LEMMA ReserveHeld ==
    ASSUME StructInv, QueueInv', NEW x \in Item, Reserve(x)
    PROVE  HeldInv'
<1>1. /\ QueueInv /\ Push(x) /\ live' /\ live
      /\ held' = [block |-> write', index |-> writeIndex' - 1, ahead |-> count]
  BY StructInvParts DEF Reserve, Push
<1>2. TypeOK /\ TypeOK'
  BY <1>1, BothSized
<1>3. PICK c \in Walks(read), d \in Walks(read)' :
              /\ Sized(c) /\ Sized(d)' /\ count' = count + 1 /\ d # <<>> /\ writeIndex' >= 1
  BY <1>1, PushEffect
<1>4. /\ Len(d) \in 1 .. Len(d) /\ writeIndex' - 1 \in Index
      /\ readIndex' + count = (Len(d) - 1) * BucketSize + (writeIndex' - 1)
  BY <1>1, <1>3, PushedPlace
<1>5. write' = d[Len(d)] /\ write' \in Bucket
  BY <1>3, <1>4 DEF Sized
<1>6. count \in Nat
  BY <1>2 DEF TypeOK
<1>7. held' \in HeldType
  BY <1>1, <1>4, <1>5, <1>6 DEF HeldType
<1>8. /\ held'.block = d[Len(d)] /\ held'.index = writeIndex' - 1 /\ held'.ahead = count
  BY <1>1, <1>5
<1>9. HeldAt(d)'
  <2>1. held'.ahead < count'
    BY <1>3, <1>6, <1>8
  <2> QED
    BY <1>4, <1>8, <2>1 DEF HeldAt
<1>10. HeldExact'
  BY <1>2, <1>7, <1>9, HeldEstablishNext
<1> QED
  BY <1>1, <1>7, <1>10 DEF HeldInv

LEMMA PopHeld ==
    ASSUME StructInv, QueueInv', PopStruct
    PROVE  HeldInv'
<1>1. QueueInv /\ HeldInv /\ Pop /\ held' = Popped /\ live' /\ live
  BY StructInvParts DEF PopStruct, Pop
<1>2. TypeOK /\ TypeOK'
  BY <1>1, BothSized
<1>3. CASE held = None
  BY <1>1, <1>3, NothingHeld DEF Popped
<1>4. CASE held # None
  <2>1. /\ held \in HeldType /\ held.ahead \in Nat /\ held.ahead < count /\ count > 0
        /\ HeldExact
    BY <1>1, <1>2, <1>4, HeldQueued DEF HeldInv
  <2>2. count \in Nat /\ count' \in Nat
    BY <1>2 DEF TypeOK
  <2>3. ~ (count = 0)
    BY <2>1, <2>2
  <2>4. PICK c \in Walks(read), d \in Walks(read)', e \in 0 .. 1 :
                 /\ Sized(c) /\ Sized(d)' /\ Moves(c, d, 1, e) /\ count' = count - 1
    BY <1>1, <2>3, PopEffect
  <2>5. count' # count
    BY <2>2, <2>4
  <2>6. CASE held.ahead = 0
    BY <1>1, <1>4, <2>5, <2>6, NothingHeld DEF Popped
  <2>7. CASE held.ahead # 0
    <3>1. held' = [held EXCEPT !.ahead = @ - 1]
      BY <1>1, <1>4, <2>5, <2>7 DEF Popped
    <3>2. 1 <= held.ahead /\ held.ahead < count' + 1
      BY <2>1, <2>2, <2>4, <2>7
    <3>3. held' \in HeldType /\ HeldExact'
      BY <1>2, <1>4, <2>1, <2>4, <3>1, <3>2, HeldStep
    <3> QED
      BY <1>1, <3>3 DEF HeldInv
  <2> QED
    BY <2>6, <2>7
<1> QED
  BY <1>3, <1>4

LEMMA GrowHeld ==
    ASSUME StructInv, QueueInv', GrowQueue
    PROVE  HeldInv'
<1>1. /\ QueueInv /\ HeldInv /\ held' = held /\ live' /\ live /\ count' = count
  BY StructInvParts DEF GrowQueue
<1>2. TypeOK /\ TypeOK'
  BY <1>1, BothSized
<1>3. PICK c \in Walks(read), d \in Walks(read)' :
              Sized(c) /\ Sized(d)' /\ (c # <<>> => Moves(c, d, 0, 0))
  BY <1>1, GrowQueueEffect
<1>4. c = <<>> => count = 0
  BY <1>3 DEF Sized, Positioned
<1>5. (count > 0 => Moves(c, d, 0, 0)) /\ count' >= count
  <2>1. count \in Nat
    BY <1>2 DEF TypeOK
  <2> QED
    BY <1>1, <1>3, <1>4, <2>1
<1> QED
  BY <1>1, <1>2, <1>3, <1>5, HeldStays

LEMMA ShrinkHeld ==
    ASSUME StructInv, QueueInv', ShrinkQueue
    PROVE  HeldInv'
<1>1. /\ QueueInv /\ HeldInv /\ held' = held /\ live' /\ live /\ count' = count
  BY StructInvParts DEF ShrinkQueue
<1>2. TypeOK /\ TypeOK' /\ count \in Nat
  <2>1. TypeOK /\ TypeOK'
    BY <1>1, BothSized
  <2> QED
    BY <2>1 DEF TypeOK
<1>3. CASE count = 0
  <2>1. held = None
    <3>1. held # None => count > 0
      BY <1>1, <1>2, HeldQueued
    <3> QED
      BY <1>3, <3>1
  <2> QED
    BY <1>1, <2>1, NothingHeld
<1>4. CASE count # 0
  <2>1. PICK c \in Walks(read), d \in Walks(read)' :
                Sized(c) /\ Sized(d)' /\ Moves(c, d, 0, 1)
    BY <1>1, <1>4, ShrinkQueueEffect
  <2>2. count' >= count
    BY <1>1, <1>2
  <2> QED
    BY <1>1, <1>2, <2>1, <2>2, HeldStays
<1> QED
  BY <1>3, <1>4

(* What does not change the chain does not move what is held.              *)
LEMMA StillHeld ==
    ASSUME HeldInv, UNCHANGED <<next, read, readIndex, count, live, held>>
    PROVE  HeldInv'
BY DEF HeldInv, HeldExact, Walks, IsWalk

LEMMA StructInitInv == StructInit => StructInv
<1> SUFFICES ASSUME StructInit PROVE StructInv
  OBVIOUS
<1>1. QueueInv /\ held = None
  BY InitInv DEF StructInit
<1> QED
  BY <1>1 DEF StructInv, HeldExact

LEMMA StructStepInv == StructInv /\ [StructNext]_structVars => StructInv'
<1> SUFFICES ASSUME StructInv, [StructNext]_structVars PROVE StructInv'
  OBVIOUS
<1>1. QueueInv /\ HeldInv
  BY StructInvParts
<1>2. (StructInv <=> QueueInv /\ HeldInv)'
  BY StructInvParts, PTL
<1>3. ASSUME NEW x \in Item, PushStruct(x) PROVE StructInv'
  <2>1. QueueInv'
    BY <1>1, <1>3, PushInv DEF PushStruct
  <2>2. HeldInv'
    BY <1>3, <2>1, PushHeld
  <2> QED
    BY <1>2, <2>1, <2>2
<1>4. ASSUME NEW x \in Item, Reserve(x) PROVE StructInv'
  <2>1. QueueInv'
    BY <1>1, <1>4, PushInv DEF Reserve
  <2>2. HeldInv'
    BY <1>4, <2>1, ReserveHeld
  <2> QED
    BY <1>2, <2>1, <2>2
<1>5. ASSUME NEW x \in Item, Update(x) PROVE StructInv'
  <2>1. held \in HeldType
    BY <1>1, <1>5 DEF HeldInv, Update
  <2>2. QueueInv'
    BY <1>1, <1>5, <2>1, UpdateInv
  <2>3. HeldInv'
    BY <1>1, <1>5, StillHeld DEF Update, fields
  <2> QED
    BY <1>2, <2>2, <2>3
<1>6. CASE PopStruct
  <2>1. QueueInv'
    BY <1>1, <1>6, PopInv DEF PopStruct
  <2>2. HeldInv'
    BY <1>6, <2>1, PopHeld
  <2> QED
    BY <1>2, <2>1, <2>2
<1>7. CASE ResetStructs
  <2>1. QueueInv' /\ held' = None
    BY <1>1, <1>7, ResetInv DEF ResetStructs
  <2> QED
    BY <1>2, <2>1, NothingHeld
<1>8. CASE DoneStructs
  <2>1. QueueInv' /\ held' = None
    BY <1>1, <1>8, DoneInv DEF DoneStructs
  <2> QED
    BY <1>2, <2>1, NothingHeld
<1>9. CASE GrowQueue
  <2>1. QueueInv'
    BY <1>1, <1>9, GrowQueueInv
  <2>2. HeldInv'
    BY <1>9, <2>1, GrowHeld
  <2> QED
    BY <1>2, <2>1, <2>2
<1>10. CASE ShrinkQueue
  <2>1. QueueInv'
    BY <1>1, <1>10, ShrinkQueueInv
  <2>2. HeldInv'
    BY <1>10, <2>1, ShrinkHeld
  <2> QED
    BY <1>2, <2>1, <2>2
<1>11. CASE Restart /\ UNCHANGED held
  <2>1. QueueInv'
    BY <1>1, <1>11, RestartInv
  <2>2. held' = None
    BY <1>1, <1>11 DEF HeldInv, Restart
  <2> QED
    BY <1>2, <2>1, <2>2, NothingHeld
<1>12. CASE (Enumerate \/ EnumerateNext \/ EnumerateDone) /\ UNCHANGED held
  <2>1. QueueInv'
    BY <1>1, <1>12, EnumerationInv
  <2>2. HeldInv'
    BY <1>1, <1>12, StillHeld DEF Enumerate, EnumerateNext, EnumerateDone, blocks, fields
  <2> QED
    BY <1>2, <2>1, <2>2
<1>13. CASE UNCHANGED structVars
  <2>1. UNCHANGED vars /\ UNCHANGED held
    BY <1>13 DEF structVars
  <2>2. QueueInv'
    BY <1>1, <2>1, StutterInv
  <2>3. HeldInv'
    BY <1>1, <2>1, StillHeld DEF vars, blocks, fields
  <2> QED
    BY <1>2, <2>2, <2>3
<1> QED
  BY <1>3, <1>4, <1>5, <1>6, <1>7, <1>8, <1>9, <1>10, <1>11, <1>12, <1>13 DEF StructNext

(* The invariant of every operation of both queues: what the pointer queue *)
(* keeps, grow and shrink called alone and the writes through the pointer  *)
(* of reserve keep too, and the pointer stays where its struct is.         *)
THEOREM StructInvariant == StructSpec => []StructInv
<1>1. StructInit => StructInv
  BY StructInitInv
<1>2. StructInv /\ [StructNext]_structVars => StructInv'
  BY StructStepInv
<1> QED
  BY <1>1, <1>2, PTL DEF StructSpec

LEMMA StructTypeFollows == StructInv => TypeOK
BY DEF StructInv, QueueInv

(* The ranges of the fields, with grow, shrink and reserve.                *)
THEOREM StructTypeCorrect == StructSpec => []TypeOK
BY StructTypeFollows, StructInvariant, PTL

LEMMA StructIsQueue == StructInv => QueueInv
BY DEF StructInv

(* No operation of the struct queue leaves a stale _next, frees a bucket   *)
(* in use or forgets one.                                                  *)
THEOREM StructAlwaysChained == StructSpec => []Chained
BY ChainedFollows, StructIsQueue, StructInvariant, PTL

(* done of a struct queue gives back every block.                          *)
THEOREM StructNeverLeaks == StructSpec => []NoLeak
BY NoLeakFollows, StructIsQueue, StructInvariant, PTL

(* grow and shrink called alone keep the allowance in step, too.           *)
THEOREM StructAlwaysBalanced == StructSpec => []SparesBalanced
BY BalanceFollows, StructIsQueue, StructInvariant, PTL

(* count is the distance of the positions, also with grow and shrink.      *)
THEOREM StructAlwaysCounted == StructSpec => []CountExact
BY CountFollows, StructIsQueue, StructInvariant, PTL

(* The assertions never fail, also with grow and shrink.                   *)
THEOREM StructAssertionsNeverFail == StructSpec => []AssertionsHold
BY AssertionsFollow, StructIsQueue, StructInvariant, PTL

(* Enumeration is exact, also over empty last buckets that grow added.     *)
THEOREM StructAlwaysEnumerates == StructSpec => []EnumeratesAll
BY EnumeratesFollows, StructIsQueue, StructInvariant, PTL

LEMMA HeldFollows == StructInv => HeldExact
BY DEF StructInv

(* The pointer that reserve returned points to the place its struct will   *)
(* be popped from, however the queue grows, shrinks and is read.           *)
THEOREM AlwaysHeldExact == StructSpec => []HeldExact
BY HeldFollows, StructInvariant, PTL

-----------------------------------------------------------------------------
(* The refinement of FIFOQueue *)

LEMMA SameItems ==
    ASSUME NEW S, NEW s \in Seq(S), NEW t \in Seq(S), Len(t) = Len(s),
           \A i \in 1 .. Len(s) : t[i] = s[i]
    PROVE  t = s
OBVIOUS

LEMMA AppendedItems ==
    ASSUME NEW S, NEW s \in Seq(S), NEW t \in Seq(S), NEW x \in S, Len(t) = Len(s) + 1,
           \A i \in 1 .. Len(s) : t[i] = s[i], t[Len(s) + 1] = x
    PROVE  t = Append(s, x)
<1> DEFINE a == Append(s, x)
<1>1. /\ a \in Seq(S) /\ Len(a) = Len(s) + 1 /\ a[Len(s) + 1] = x
      /\ \A i \in 1 .. Len(s) : a[i] = s[i]
  BY AppendFacts
<1> HIDE DEF a
<1>2. Len(s) \in Nat
  OBVIOUS
<1>3. \A i \in 1 .. Len(a) : t[i] = a[i]
  <2> SUFFICES ASSUME NEW i \in 1 .. Len(a) PROVE t[i] = a[i]
    OBVIOUS
  <2>1. i \in 1 .. Len(s) \/ i = Len(s) + 1
    BY <1>1, <1>2
  <2> QED
    BY <1>1, <2>1
<1>4. t = a
  BY <1>1, <1>3, SameItems
<1> QED
  BY <1>4 DEF a

LEMMA PoppedItems ==
    ASSUME NEW S, NEW s \in Seq(S), NEW t \in Seq(S), Len(s) >= 1, Len(t) = Len(s) - 1,
           \A i \in 1 .. Len(s) - 1 : t[i] = s[i + 1]
    PROVE  s # <<>> /\ Head(s) = s[1] /\ t = Tail(s)
<1>1. s # <<>> /\ Head(s) = s[1]
  OBVIOUS
<1> DEFINE a == Tail(s)
<1>2. /\ a \in Seq(S) /\ Len(a) = Len(s) - 1
      /\ \A i \in 1 .. Len(s) - 1 : a[i] = s[i + 1]
  BY TailFacts
<1> HIDE DEF a
<1>3. t = a
  BY <1>2, SameItems
<1> QED
  BY <1>1, <1>3 DEF a

(* push and reserve append                                                 *)
LEMMA PushAppends ==
    ASSUME QueueInv, QueueInv', NEW x \in Item, Push(x)
    PROVE  Contents' = Append(Contents, x)
<1>1. TypeOK /\ TypeOK'
  BY BothSized DEF Push
<1>2. PICK c \in Walks(read), d \in Walks(read)' :
              /\ Sized(c) /\ Sized(d)' /\ Extends(c, d)
              /\ count' = count + 1 /\ d # <<>> /\ writeIndex' >= 1
              /\ storage'[d[Len(d)]][writeIndex' - 1] = x
  BY PushEffect
<1>3. /\ Len(c) \in Nat /\ readIndex \in Nat /\ count \in Nat
      /\ c = <<>> => count = 0
      /\ Contents \in Seq(Item \cup {NULL}) /\ Len(Contents) = count
  BY <1>2 DEF Sized, Positioned
<1>4. Contents' \in Seq(Item \cup {NULL}) /\ Len(Contents') = count' /\ Len(d) \in Nat
  BY <1>2 DEF Sized
<1>5. \A i \in 1 .. count : Contents'[i] = Contents[i]
  <2>1. CASE c = <<>>
    BY <1>3, <2>1
  <2>2. CASE c # <<>>
    <3>1. Moves(c, d, 0, 0)
      BY <1>2, <1>3, <1>4, <2>2, ExtendsMoves
    <3>2. count <= count' /\ count + 0 <= count /\ 0 \in Nat /\ 0 \in 0 .. 1
      BY <1>2, <1>3
    <3>3. \A i \in 1 .. count : Contents'[i] = Contents[i + 0]
      BY <1>1, <1>2, <1>3, <3>1, <3>2, ContentsStep
    <3>4. \A i \in 1 .. count : i + 0 = i
      OBVIOUS
    <3> QED
      BY <3>3, <3>4
  <2> QED
    BY <2>1, <2>2
<1>6. Contents'[count + 1] = x
  <2>1. /\ Len(d) \in 1 .. Len(d) /\ writeIndex' - 1 \in Index
        /\ readIndex' + count = (Len(d) - 1) * BucketSize + (writeIndex' - 1)
    BY <1>2, PushedPlace
  <2>2. count + 1 \in 1 .. count'
    BY <1>2, <1>3
  <2>3. readIndex' + (count + 1) - 1 = readIndex' + count
    <3>1. readIndex' \in Nat
      BY <1>1, QueueAssumption DEF TypeOK
    <3> QED
      BY <1>3, <3>1
  <2>4. readIndex' + (count + 1) - 1 = (Len(d) - 1) * BucketSize + (writeIndex' - 1)
    BY <2>1, <2>3
  <2>5. Contents'[count + 1] = storage'[d[Len(d)]][writeIndex' - 1]
    BY <1>1, <2>1, <2>2, <2>4, ContentsAtNext
  <2> QED
    BY <1>2, <2>5
<1> QED
  BY <1>2, <1>3, <1>4, <1>5, <1>6, AppendedItems

(* pop takes the head, or there is none                                    *)
LEMMA PopTakesHead ==
    ASSUME QueueInv, QueueInv', Pop
    PROVE  \/ Contents = <<>> /\ Contents' = <<>> /\ ret' = NULL
           \/ Contents # <<>> /\ ret' = Head(Contents) /\ Contents' = Tail(Contents)
<1>1. TypeOK /\ TypeOK'
  BY BothSized DEF Pop
<1>2. PICK a \in Walks(read), b \in Walks(read)' : Sized(a) /\ Sized(b)'
  BY BothSized DEF Pop
<1>3. /\ Contents \in Seq(Item \cup {NULL}) /\ Len(Contents) = count /\ count \in Nat
      /\ Contents' \in Seq(Item \cup {NULL}) /\ Len(Contents') = count'
  BY <1>2 DEF Sized
<1>4. CASE count = 0 /\ count' = 0 /\ ret' = NULL
  BY <1>3, <1>4, EmptyFacts
<1>5. ASSUME NEW c \in Walks(read), NEW d \in Walks(read)', NEW e \in 0 .. 1,
             Sized(c), Sized(d)', Moves(c, d, 1, e),
             count > 0, count' = count - 1, ret' = Contents[1]
      PROVE  Contents # <<>> /\ ret' = Head(Contents) /\ Contents' = Tail(Contents)
  <2>1. /\ count' \in Nat /\ count' <= count' /\ count' + 1 <= count /\ 1 \in Nat
        /\ Len(Contents) >= 1 /\ Len(Contents') = Len(Contents) - 1
        /\ count' = Len(Contents) - 1
    BY <1>3, <1>5
  <2>2. \A i \in 1 .. count' : Contents'[i] = Contents[i + 1]
    BY <1>1, <1>5, <2>1, ContentsStep
  <2>3. \A i \in 1 .. Len(Contents) - 1 : Contents'[i] = Contents[i + 1]
    BY <2>1, <2>2
  <2> QED
    BY <1>3, <1>5, <2>1, <2>3, PoppedItems
<1> QED
  BY <1>4, <1>5, PopEffect

LEMMA Cleared ==
    ASSUME QueueInv', live', count' = 0
    PROVE  Contents' = <<>>
<1>1. PICK d \in Walks(read)' : Sized(d)'
  BY InvSizedNext
<1>2. Contents' \in Seq(Item \cup {NULL}) /\ Len(Contents') = 0
  BY <1>1 DEF Sized
<1> QED
  BY <1>2, EmptyFacts

(* Nothing is read and nothing lost: the contents are the same.            *)
LEMMA MovedItems ==
    ASSUME TypeOK, TypeOK', NEW c \in Walks(read), NEW d \in Walks(read)', NEW e \in 0 .. 1,
           Sized(c), Sized(d)', count' = count, count > 0 => Moves(c, d, 0, e)
    PROVE  Contents' = Contents
<1>1. /\ Contents \in Seq(Item \cup {NULL}) /\ Len(Contents) = count /\ count \in Nat
      /\ Contents' \in Seq(Item \cup {NULL}) /\ Len(Contents') = count
  BY DEF Sized
<1>2. \A i \in 1 .. count : Contents'[i] = Contents[i]
  <2>1. CASE count = 0
    BY <2>1
  <2>2. CASE count # 0
    <3>1. Moves(c, d, 0, e) /\ count <= count' /\ count + 0 <= count /\ 0 \in Nat
      BY <1>1, <2>2
    <3>2. \A i \in 1 .. count : Contents'[i] = Contents[i + 0]
      BY <1>1, <3>1, ContentsStep
    <3>3. \A i \in 1 .. count : i + 0 = i
      OBVIOUS
    <3> QED
      BY <3>2, <3>3
  <2> QED
    BY <2>1, <2>2
<1> QED
  BY <1>1, <1>2, SameItems

LEMMA GrowKeeps ==
    ASSUME QueueInv, QueueInv', GrowQueue
    PROVE  Contents' = Contents
<1>1. TypeOK /\ TypeOK' /\ count' = count
  BY BothSized DEF GrowQueue
<1>2. PICK c \in Walks(read), d \in Walks(read)' :
              Sized(c) /\ Sized(d)' /\ (c # <<>> => Moves(c, d, 0, 0))
  BY GrowQueueEffect
<1>3. count > 0 => Moves(c, d, 0, 0)
  BY <1>2 DEF Sized, Positioned
<1> QED
  BY <1>1, <1>2, <1>3, MovedItems

LEMMA ShrinkKeeps ==
    ASSUME QueueInv, QueueInv', ShrinkQueue
    PROVE  Contents' = Contents
<1>1. TypeOK /\ TypeOK' /\ count' = count /\ count \in Nat
  <2>1. TypeOK /\ TypeOK' /\ count' = count
    BY BothSized DEF ShrinkQueue
  <2> QED
    BY <2>1 DEF TypeOK
<1>2. PICK a \in Walks(read), b \in Walks(read)' : Sized(a) /\ Sized(b)'
  BY BothSized DEF ShrinkQueue
<1>3. CASE count = 0
  <2>1. ~ (count > 0) /\ 0 \in 0 .. 1
    BY <1>3
  <2> QED
    BY <1>1, <1>2, <2>1, MovedItems
<1>4. CASE count # 0
  BY <1>1, <1>4, ShrinkQueueEffect, MovedItems
<1> QED
  BY <1>3, <1>4

(* A write through the pointer of reserve overwrites the item it is.       *)
LEMMA UpdateOverwrites ==
    ASSUME StructInv, QueueInv', NEW x \in Item, Update(x)
    PROVE  \E i \in DOMAIN Contents : Contents' = [Contents EXCEPT ![i] = x]
<1>1. /\ QueueInv /\ HeldInv /\ live /\ live' /\ held # None
      /\ UNCHANGED <<next, read, readIndex, writeIndex, count>>
      /\ storage' = [storage EXCEPT ![held.block][held.index] = x]
  BY StructInvParts DEF Update, HeldInv, fields
<1>2. TypeOK /\ TypeOK' /\ held \in HeldType /\ HeldExact
  BY <1>1, BothSized DEF HeldInv
<1>3. PICK c \in Walks(read) : Sized(c)
  BY <1>1, BothSized
<1>4. PICK d \in Walks(read)' : Sized(d)'
  BY <1>1, BothSized
<1>5. c \in Walks(read)' /\ d = c
  <2>1. c \in Walks(read)'
    BY <1>1 DEF Walks, IsWalk
  <2> QED
    BY <2>1, WalksUniqueNext
<1>6. /\ Positioned(c) /\ Len(c) \in Nat
      /\ \A i \in 1 .. Len(c) : c[i] \in Bucket
      /\ \A i, j \in 1 .. Len(c) : c[i] = c[j] => i = j
      /\ Contents \in Seq(Item \cup {NULL}) /\ Len(Contents) = count
      /\ DOMAIN Contents = 1 .. count /\ count \in Nat /\ readIndex \in Nat
  BY <1>3 DEF Sized
<1>7. Contents' \in Seq(Item \cup {NULL}) /\ Len(Contents') = count
  BY <1>1, <1>4 DEF Sized
<1>8. HeldAt(c)
  BY <1>1, <1>2, HeldPlace
<1>9. /\ held.ahead \in Nat /\ held.ahead < count
      /\ held.block \in Bucket /\ held.index \in Index
  BY <1>2, <1>8 DEF HeldType, HeldAt
<1>10. PICK q \in 1 .. Len(c) :
               /\ held.block = c[q]
               /\ readIndex + held.ahead = (q - 1) * BucketSize + held.index
  BY <1>8 DEF HeldAt
<1> DEFINE n == held.ahead + 1
<1>11. n \in 1 .. count /\ readIndex + n - 1 = readIndex + held.ahead
  <2>1. \A a, m, r \in Nat : a < m => a + 1 \in 1 .. m /\ r + (a + 1) - 1 = r + a
    OBVIOUS
  <2> QED
    BY <1>6, <1>9, <2>1, Zenon
<1>12. Contents'[n] = x
  <2>1. storage'[held.block][held.index] = x
    BY <1>1, <1>2, <1>9 DEF TypeOK
  <2>2. /\ n \in 1 .. count' /\ q \in 1 .. Len(c)
        /\ readIndex' + n - 1 = (q - 1) * BucketSize + held.index
    BY <1>1, <1>10, <1>11
  <2>3. Contents'[n] = storage'[c[q]][held.index]
    BY <1>2, <1>5, <1>9, <2>2, ContentsAtNext
  <2> QED
    BY <1>10, <2>1, <2>3
<1>13. ASSUME NEW i \in 1 .. count, i # n PROVE Contents'[i] = Contents[i]
  <2>1. PICK p \in 1 .. Len(c), r \in Index :
                readIndex + i - 1 = (p - 1) * BucketSize + r
    <3>1. Positioned(c)
      BY <1>6
    <3> QED
      BY <1>2, <3>1, ContentsPlace
  <2>2. Contents[i] = storage[c[p]][r]
    BY <1>2, <2>1, ContentsAt
  <2>3. Contents'[i] = storage'[c[p]][r]
    <3>1. i \in 1 .. count' /\ readIndex' + i - 1 = (p - 1) * BucketSize + r
      BY <1>1, <2>1
    <3> QED
      BY <1>2, <1>5, <3>1, ContentsAtNext
  <2>4. ~ (c[p] = held.block /\ r = held.index)
    <3> SUFFICES ASSUME c[p] = held.block, r = held.index PROVE FALSE
      OBVIOUS
    <3>1. p = q
      BY <1>6, <1>10
    <3>2. readIndex + i - 1 = readIndex + n - 1
      BY <1>10, <1>11, <2>1, <3>1
    <3>3. i \in Nat /\ n \in Nat
      BY <1>6, <1>11
    <3>4. i = n
      BY <1>6, <3>2, <3>3
    <3> QED
      BY <1>13, <3>4
  <2>5. storage'[c[p]][r] = storage[c[p]][r]
    BY <1>1, <1>2, <1>6, <1>9, <2>4 DEF TypeOK
  <2> QED
    BY <2>2, <2>3, <2>5
<1> HIDE DEF n
<1> DEFINE t == [Contents EXCEPT ![n] = x]
<1>14. /\ t \in Seq(Item \cup {NULL}) /\ Len(t) = count
       /\ t[n] = x /\ \A i \in 1 .. count : i # n => t[i] = Contents[i]
  <2>1. PICK s \in Seq(Item \cup {NULL}) : s = Contents
    BY <1>6
  <2>2. Len(s) = count /\ n \in 1 .. Len(s)
    BY <1>6, <1>11, <2>1
  <2>3. /\ [s EXCEPT ![n] = x] \in Seq(Item \cup {NULL}) /\ Len([s EXCEPT ![n] = x]) = Len(s)
        /\ [s EXCEPT ![n] = x][n] = x
        /\ \A i \in 1 .. Len(s) : i # n => [s EXCEPT ![n] = x][i] = s[i]
    BY <2>2
  <2> QED
    BY <2>1, <2>2, <2>3
<1> HIDE DEF t
<1>15. \A i \in 1 .. count : Contents'[i] = t[i]
  BY <1>12, <1>13, <1>14
<1>16. Contents' = t
  BY <1>7, <1>14, <1>15, SameItems
<1> QED
  BY <1>6, <1>11, <1>16 DEF t

LEMMA SameContents ==
    ASSUME UNCHANGED <<next, storage, read, readIndex, count>>
    PROVE  Contents' = Contents
BY DEF Contents, Walks, IsWalk

Items == IF live THEN Contents ELSE <<>>

LEMMA AbstractInit == StructInit => Abstract!Init
<1> SUFFICES ASSUME StructInit PROVE Items = <<>> /\ ret = None
  BY DEF Abstract!Init, Items
<1>1. QueueInv /\ live /\ count = 0 /\ ret = None
  BY InitInv DEF StructInit, Init
<1>2. PICK c \in Walks(read) : Sized(c)
  BY <1>1, InvSized
<1>3. Contents \in Seq(Item \cup {NULL}) /\ Len(Contents) = 0
  BY <1>1, <1>2 DEF Sized
<1>4. Contents = <<>>
  BY <1>3, EmptyFacts
<1> QED
  BY <1>1, <1>4 DEF Items

LEMMA AbstractStep ==
    StructInv /\ StructInv' /\ [StructNext]_structVars => [Abstract!Next]_(Abstract!vars)
<1> SUFFICES ASSUME StructInv, StructInv', [StructNext]_structVars
             PROVE  Abstract!Next \/ (Items' = Items /\ ret' = ret)
  BY DEF Abstract!vars, Items
<1>1. QueueInv /\ QueueInv'
  BY DEF StructInv
<1>2. ASSUME NEW x \in Item, Push(x) PROVE Abstract!Next
  <2>1. live /\ live' /\ ret' = None
    BY <1>2 DEF Push
  <2>2. Items' = Append(Items, x)
    BY <1>1, <1>2, <2>1, PushAppends DEF Items
  <2> QED
    BY <2>1, <2>2 DEF Abstract!Next, Abstract!Push, Items
<1>3. ASSUME NEW x \in Item, Update(x) PROVE Abstract!Next
  <2>1. live /\ live' /\ ret' = None
    BY <1>3 DEF Update, StructInv
  <2>2. PICK i \in DOMAIN Items : Items' = [Items EXCEPT ![i] = x]
    BY <1>1, <1>3, <2>1, UpdateOverwrites DEF Items
  <2> QED
    BY <2>1, <2>2 DEF Abstract!Next, Abstract!Overwrite, Items
<1>4. CASE Pop
  <2>1. live /\ live'
    BY <1>4 DEF Pop
  <2>2. \/ Items = <<>> /\ Items' = Items /\ ret' = NULL
        \/ Items # <<>> /\ ret' = Head(Items) /\ Items' = Tail(Items)
    BY <1>1, <1>4, <2>1, PopTakesHead DEF Items
  <2> QED
    BY <2>2 DEF Abstract!Next, Abstract!Pop, Items
<1>5. CASE Reset \/ Done \/ Restart
  <2>1. ret' = None /\ Items' = <<>>
    <3>1. CASE Reset
      <4>1. live' /\ count' = 0 /\ ret' = None
        BY <3>1 DEF Reset
      <4> QED
        BY <1>1, <4>1, Cleared DEF Items
    <3>2. CASE Done
      BY <3>2 DEF Done, Items
    <3>3. CASE Restart
      <4>1. live' /\ count' = 0 /\ ret' = None
        BY <3>3 DEF Restart
      <4> QED
        BY <1>1, <4>1, Cleared DEF Items
    <3> QED
      BY <1>5, <3>1, <3>2, <3>3
  <2> QED
    BY <2>1 DEF Abstract!Next, Abstract!Clear, Items
<1>6. CASE GrowQueue
  <2>1. UNCHANGED <<live, ret>> /\ Contents' = Contents
    BY <1>1, <1>6, GrowKeeps DEF GrowQueue
  <2> QED
    BY <2>1 DEF Items
<1>7. CASE ShrinkQueue
  <2>1. UNCHANGED <<live, ret>> /\ Contents' = Contents
    BY <1>1, <1>7, ShrinkKeeps DEF ShrinkQueue
  <2> QED
    BY <2>1 DEF Items
<1>8. CASE Enumerate \/ EnumerateNext \/ EnumerateDone \/ UNCHANGED structVars
  <2>1. UNCHANGED <<next, storage, read, readIndex, count, live, ret>>
    BY <1>8 DEF Enumerate, EnumerateNext, EnumerateDone, structVars, vars, blocks, fields
  <2>2. Contents' = Contents
    BY <2>1, SameContents
  <2> QED
    BY <2>1, <2>2 DEF Items
<1> QED
  BY <1>2, <1>3, <1>4, <1>5, <1>6, <1>7, <1>8
  DEF StructNext, PushStruct, Reserve, PopStruct, ResetStructs, DoneStructs

(* The struct queue, and with no reserve the pointer queue, is a FIFO      *)
(* queue: every operation does to the contents what FIFOQueue says, and    *)
(* returns it, or leaves them alone.                                       *)
THEOREM ImplementsFIFOQueue == StructSpec => RefinesFIFOQueue
<1>1. StructInit => Abstract!Init
  BY AbstractInit
<1>2. StructInv /\ StructInv' /\ [StructNext]_structVars => [Abstract!Next]_(Abstract!vars)
  BY AbstractStep
<1> QED
  BY <1>1, <1>2, StructInvariant, PTL DEF StructSpec, RefinesFIFOQueue, Abstract!Spec
=============================================================================
