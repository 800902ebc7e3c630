---------------------------- MODULE NumberFacts ------------------------------
(***************************************************************************)
(* What the proofs about the containers need to know of numbers: least and *)
(* greatest elements, functions that are defined by recursion, powers of   *)
(* two, parts of an interval, and items of a sequence.                     *)
(*                                                                         *)
(* A recursion is given as a function, step[x][k] being what is made of x  *)
(* in the k-th step, so that these lemmas quantify over no operator.       *)
(***************************************************************************)
EXTENDS Powers, TLAPS, WellFoundedInduction, FiniteSetTheorems, SequenceTheorems

LEMMA LeastNat ==
    ASSUME NEW T, T \subseteq Nat, T # {}
    PROVE  \E m \in T : \A i \in T : m <= i
<1>1. \E m \in T : \A i \in T : ~ (<<i, m>> \in OpToRel(<, Nat))
  BY NatLessThanWellFounded, WFMin
<1>2. \A i, m \in Nat : <<i, m>> \in OpToRel(<, Nat) <=> i < m
  BY DEF OpToRel
<1>3. PICK m \in T : \A i \in T : ~ (<<i, m>> \in OpToRel(<, Nat))
  BY <1>1
<1>4. \A i \in T : ~ (i < m)
  BY <1>2, <1>3
<1> QED
  BY <1>4

LEMMA GreatestNat ==
    ASSUME NEW n \in Nat, NEW T, T \subseteq 0 .. n, T # {}
    PROVE  \E m \in T : \A i \in T : i <= m
<1> DEFINE U == {n - i : i \in T}
<1>0. \A i \in T : i \in Nat /\ i <= n
  BY SMT
<1>1. U \subseteq Nat /\ U # {}
  <2>1. \A i \in T : n - i \in Nat
    BY <1>0
  <2> QED
    BY <2>1
<1>2. PICK u \in U : \A v \in U : u <= v
  BY <1>1, LeastNat
<1>3. PICK m \in T : u = n - m
  OBVIOUS
<1>4. \A i \in T : i \in Nat /\ n - m <= n - i
  <2>1. \A i \in T : n - i \in U
    OBVIOUS
  <2> HIDE DEF U
  <2> QED
    BY <1>0, <1>2, <1>3, <2>1
<1>5. \A i \in T : i <= m
  BY <1>0, <1>4
<1> QED
  BY <1>5

(* What holds of 0, and of n + 1 whenever it holds of n, holds of all.     *)
LEMMA Induction ==
    ASSUME NEW T, 0 \in T, \A n \in Nat : n \in T => n + 1 \in T
    PROVE  \A n \in Nat : n \in T
<1> DEFINE U == {n \in Nat : n \notin T}
<1> SUFFICES ASSUME U # {} PROVE FALSE
  OBVIOUS
<1>1. PICK m \in U : \A i \in U : m <= i
  BY LeastNat
<1>2. m # 0 /\ m \in Nat
  OBVIOUS
<1>3. m - 1 \in Nat /\ m - 1 \notin U /\ m = (m - 1) + 1
  BY <1>1, <1>2
<1>4. m - 1 \in T
  BY <1>3
<1> QED
  BY <1>2, <1>3, <1>4

-----------------------------------------------------------------------------
(* Recursion *)

(* f is what the first n steps make of base.                               *)
IsRun(f, n, base, step) ==
    f[0] = base /\ \A k \in 1 .. n : f[k] = step[f[k - 1]][k]

LEMMA RunExists ==
    ASSUME NEW X, NEW base \in X, NEW step \in [X -> [Nat -> X]]
    PROVE  \A n \in Nat : \E f \in [0 .. n -> X] : IsRun(f, n, base, step)
<1> DEFINE T == {n \in Nat : \E f \in [0 .. n -> X] : IsRun(f, n, base, step)}
<1>1. 0 \in T
  <2>1. [k \in 0 .. 0 |-> base] \in [0 .. 0 -> X]
    OBVIOUS
  <2>2. IsRun([k \in 0 .. 0 |-> base], 0, base, step)
    BY DEF IsRun
  <2> QED
    BY <2>1, <2>2
<1>2. ASSUME NEW n \in Nat, n \in T PROVE n + 1 \in T
  <2>1. PICK f \in [0 .. n -> X] : IsRun(f, n, base, step)
    BY <1>2
  <2> DEFINE g == [k \in 0 .. n + 1 |-> IF k = n + 1 THEN step[f[n]][n + 1] ELSE f[k]]
  <2>2. g \in [0 .. n + 1 -> X]
    <3>1. f[n] \in X /\ step[f[n]] \in [Nat -> X] /\ n + 1 \in Nat
      OBVIOUS
    <3>2. step[f[n]][n + 1] \in X
      BY <3>1
    <3>3. \A k \in 0 .. n + 1 : k # n + 1 => k \in 0 .. n
      OBVIOUS
    <3> QED
      BY <3>2, <3>3
  <2>3. IsRun(g, n + 1, base, step)
    <3>1. g[0] = f[0] /\ f[0] = base
      BY <2>1 DEF IsRun
    <3>2. ASSUME NEW k \in 1 .. n + 1 PROVE g[k] = step[g[k - 1]][k]
      <4>1. k - 1 \in 0 .. n /\ k - 1 # n + 1 /\ k \in 0 .. n + 1
        BY <3>2
      <4>2. g[k - 1] = f[k - 1]
        BY <4>1
      <4>3. CASE k = n + 1
        <5>1. k - 1 = n
          BY <4>3
        <5> QED
          BY <4>1, <4>2, <4>3, <5>1
      <4>4. CASE k # n + 1
        <5>1. k \in 1 .. n
          BY <4>4
        <5>2. f[k] = step[f[k - 1]][k]
          BY <2>1, <5>1 DEF IsRun
        <5> QED
          BY <4>1, <4>2, <4>4, <5>2
      <4> QED
        BY <4>3, <4>4
    <3> HIDE DEF g
    <3> QED
      BY <3>1, <3>2 DEF IsRun
  <2> HIDE DEF g
  <2> QED
    BY <2>2, <2>3
<1> HIDE DEF T
<1>3. \A n \in Nat : n \in T
  BY <1>1, <1>2, Induction
<1> QED
  BY <1>3 DEF T

LEMMA RunsAgree ==
    ASSUME NEW m \in Nat, NEW n \in Nat, m <= n, NEW base, NEW step,
           NEW f, NEW g, IsRun(f, m, base, step), IsRun(g, n, base, step)
    PROVE  \A k \in 0 .. m : f[k] = g[k]
<1> DEFINE T == {k \in Nat : k <= m => f[k] = g[k]}
<1>1. 0 \in T
  BY DEF IsRun
<1>2. ASSUME NEW k \in Nat, k \in T PROVE k + 1 \in T
  <2> SUFFICES ASSUME k + 1 <= m PROVE f[k + 1] = g[k + 1]
    OBVIOUS
  <2>1. k + 1 \in 1 .. m /\ k + 1 \in 1 .. n /\ (k + 1) - 1 = k /\ k <= m
    OBVIOUS
  <2>2. f[k] = g[k]
    BY <1>2, <2>1
  <2> QED
    BY <2>1, <2>2 DEF IsRun
<1> HIDE DEF T
<1>3. \A k \in Nat : k \in T
  BY <1>1, <1>2, Induction
<1> QED
  BY <1>3 DEF T

Recurses(X, base, step) == base \in X /\ step \in [X -> [Nat -> X]]

Recursive(f, X, base, step) ==
    /\ f \in [Nat -> X]
    /\ f[0] = base
    /\ \A n \in Nat : f[n + 1] = step[f[n]][n + 1]

LEMMA Recursion ==
    \A X, base, step : Recurses(X, base, step) => \E f : Recursive(f, X, base, step)
<1> SUFFICES ASSUME NEW X, NEW base \in X, NEW step \in [X -> [Nat -> X]]
             PROVE  \E f : Recursive(f, X, base, step)
  BY DEF Recurses
<1> DEFINE G(n) == CHOOSE g \in [0 .. n -> X] : IsRun(g, n, base, step)
           f    == [n \in Nat |-> G(n)[n]]
<1>1. \A n \in Nat : G(n) \in [0 .. n -> X] /\ IsRun(G(n), n, base, step)
  BY RunExists
<1> HIDE DEF G
<1>2. f \in [Nat -> X]
  <2>1. \A n \in Nat : n \in 0 .. n
    OBVIOUS
  <2> QED
    BY <1>1, <2>1
<1>3. f[0] = base
  BY <1>1 DEF IsRun
<1>4. ASSUME NEW n \in Nat PROVE f[n + 1] = step[f[n]][n + 1]
  <2>1. n + 1 \in Nat /\ n + 1 \in 1 .. n + 1 /\ (n + 1) - 1 = n /\ n <= n + 1 /\ n \in 0 .. n
    OBVIOUS
  <2>2. G(n + 1)[n + 1] = step[G(n + 1)[n]][n + 1]
    BY <1>1, <2>1 DEF IsRun
  <2>3. IsRun(G(n), n, base, step) /\ IsRun(G(n + 1), n + 1, base, step)
    BY <1>1, <2>1
  <2>4. G(n)[n] = G(n + 1)[n]
    BY <2>1, <2>3, RunsAgree
  <2> QED
    BY <2>1, <2>2, <2>4
<1> HIDE DEF f
<1> QED
  BY <1>2, <1>3, <1>4 DEF Recursive

-----------------------------------------------------------------------------
(* Powers of two *)

LEMMA PowerRecursion == Power = [e \in Nat |-> IF e = 0 THEN 1 ELSE 2 * Power[e - 1]]
<1> DEFINE step == [x \in Nat |-> [k \in Nat |-> 2 * x]]
<1>1. Recurses(Nat, 1, step)
  BY DEF Recurses
<1>2. PICK f : Recursive(f, Nat, 1, step)
  <2> HIDE DEF step
  <2> QED
    BY <1>1, Recursion
<1>3. f \in [Nat -> Nat] /\ f[0] = 1 /\ \A n \in Nat : f[n + 1] = 2 * f[n]
  BY <1>2 DEF Recursive
<1>4. ASSUME NEW e \in Nat PROVE f[e] = IF e = 0 THEN 1 ELSE 2 * f[e - 1]
  <2>1. CASE e = 0
    BY <1>3, <2>1
  <2>2. CASE e # 0
    <3>1. e - 1 \in Nat /\ (e - 1) + 1 = e
      BY <2>2
    <3> QED
      BY <1>3, <2>2, <3>1
  <2> QED
    BY <2>1, <2>2
<1>5. f = [e \in Nat |-> IF e = 0 THEN 1 ELSE 2 * f[e - 1]]
  BY <1>3, <1>4
<1> QED
  BY <1>5 DEF Power

LEMMA PowerFacts ==
    /\ Power[0] = 1
    /\ \A e \in Nat : /\ Power[e] \in Nat /\ Power[e] > e
                      /\ Power[e + 1] = 2 * Power[e]
<1> DEFINE T == {e \in Nat : Power[e] \in Nat /\ Power[e] > e}
<1>1. Power[0] = 1
  BY PowerRecursion
<1>2. \A e \in Nat : Power[e + 1] = 2 * Power[e]
  <2> TAKE e \in Nat
  <2>1. e + 1 \in Nat /\ e + 1 # 0 /\ (e + 1) - 1 = e
    OBVIOUS
  <2> QED
    BY <2>1, PowerRecursion
<1>3. 0 \in T
  BY <1>1
<1>4. \A n \in Nat : n \in T => n + 1 \in T
  BY <1>2
<1> HIDE DEF T
<1>5. \A n \in Nat : n \in T
  BY <1>3, <1>4, Induction
<1> QED
  BY <1>1, <1>2, <1>5 DEF T

LEMMA RoundFacts ==
    ASSUME NEW v \in Nat
    PROVE  /\ Pow2Round(v) \in Nat /\ Pow2Round(v) >= v /\ Pow2Round(v) >= 1
           /\ \E e \in 0 .. v : Pow2Round(v) = Power[e]
<1> DEFINE T == {e \in Nat : Power[e] >= v}
<1>1. v \in T
  BY PowerFacts
<1>2. PICK m \in T : \A e \in T : m <= e
  BY <1>1, LeastNat
<1>3. /\ m \in 0 .. v /\ Power[m] >= v
      /\ \A d \in 0 .. m - 1 : Power[d] < v
  <2>1. m \in Nat /\ m <= v
    BY <1>1, <1>2
  <2>2. ASSUME NEW d \in 0 .. m - 1 PROVE Power[d] < v
    <3>1. d \in Nat /\ ~ (m <= d) /\ Power[d] \in Nat
      BY <2>1, PowerFacts
    <3>2. d \notin T
      BY <1>2, <3>1
    <3> QED
      BY <3>1, <3>2
  <2> QED
    BY <2>1, <2>2
<1> HIDE DEF T
<1>4. PICK e \in 0 .. v : Pow2Round(v) = Power[e] /\ Power[e] >= v
  BY <1>3 DEF Pow2Round
<1>5. Power[e] \in Nat /\ Power[e] > e /\ e \in Nat
  BY PowerFacts
<1> QED
  BY <1>4, <1>5

-----------------------------------------------------------------------------
(* Loops: a tail recursion whose measure decreases *)

Loops(D, stop, next, m) ==
    /\ m \in [D -> Nat]
    /\ \A w \in D : w \notin stop => next[w] \in D /\ m[next[w]] < m[w]

(* f is what the loop returns from each state of D.                        *)
Returns(f, D, stop, res, next) ==
    f = [w \in D |-> IF w \in stop THEN res[w] ELSE f[next[w]]]

(* g is that from the states of measure n or less.                         *)
ReturnsTo(g, n, D, stop, res, next, m) ==
    \A w \in D : m[w] <= n => g[w] = IF w \in stop THEN res[w] ELSE g[next[w]]

LEMMA LoopsAgree ==
    ASSUME NEW D, NEW stop, NEW res, NEW next, NEW m, Loops(D, stop, next, m),
           NEW n \in Nat, NEW k \in Nat, NEW g, NEW h,
           ReturnsTo(g, n, D, stop, res, next, m), ReturnsTo(h, k, D, stop, res, next, m)
    PROVE  \A w \in D : m[w] <= n /\ m[w] <= k => g[w] = h[w]
<1> DEFINE T == {j \in Nat : \A w \in D : m[w] < j /\ m[w] <= n /\ m[w] <= k => g[w] = h[w]}
<1>0. \A w \in D : m[w] \in Nat
  BY DEF Loops
<1>1. 0 \in T
  BY <1>0
<1>2. ASSUME NEW j \in Nat, j \in T PROVE j + 1 \in T
  <2> SUFFICES ASSUME NEW w \in D, m[w] < j + 1, m[w] <= n, m[w] <= k PROVE g[w] = h[w]
    OBVIOUS
  <2>1. CASE w \in stop
    BY <2>1 DEF ReturnsTo
  <2>2. CASE w \notin stop
    <3>1. next[w] \in D /\ m[next[w]] < m[w]
      BY <2>2 DEF Loops
    <3>2. m[next[w]] < j /\ m[next[w]] <= n /\ m[next[w]] <= k
      BY <1>0, <3>1
    <3>3. g[next[w]] = h[next[w]]
      BY <1>2, <3>1, <3>2
    <3> QED
      BY <2>2, <3>3 DEF ReturnsTo
  <2> QED
    BY <2>1, <2>2
<1> HIDE DEF T
<1>3. \A j \in Nat : j \in T
  BY <1>1, <1>2, Induction
<1>4. ASSUME NEW w \in D, m[w] <= n, m[w] <= k PROVE g[w] = h[w]
  <2>1. m[w] + 1 \in T /\ m[w] < m[w] + 1
    BY <1>0, <1>3
  <2> QED
    BY <1>4, <2>1 DEF T
<1> QED
  BY <1>4

LEMMA LoopReturns ==
    ASSUME NEW D, NEW stop, NEW res, NEW next, NEW m, Loops(D, stop, next, m)
    PROVE  \E f : Returns(f, D, stop, res, next)
<1> DEFINE To(g, n) == ReturnsTo(g, n, D, stop, res, next, m)
           T == {n \in Nat : \E g : To(g, n)}
           F(g) == [w \in D |-> IF w \in stop THEN res[w] ELSE g[next[w]]]
<1>0. \A w \in D : m[w] \in Nat
  BY DEF Loops
<1>1. 0 \in T
  <2>1. \A w \in D : m[w] <= 0 => w \in stop
    <3> SUFFICES ASSUME NEW w \in D, m[w] <= 0, w \notin stop PROVE FALSE
      OBVIOUS
    <3>1. next[w] \in D /\ m[next[w]] < m[w]
      BY DEF Loops
    <3> QED
      BY <1>0, <3>1
  <2>2. To(F(<<>>), 0)
    BY <2>1 DEF ReturnsTo
  <2> QED
    BY <2>2
<1>2. ASSUME NEW n \in Nat, n \in T PROVE n + 1 \in T
  <2>1. PICK g : To(g, n)
    BY <1>2
  <2>2. ASSUME NEW w \in D, w \notin stop, m[w] <= n + 1 PROVE F(g)[next[w]] = g[next[w]]
    <3>1. next[w] \in D /\ m[next[w]] < m[w]
      BY <2>2 DEF Loops
    <3>2. m[next[w]] <= n
      BY <1>0, <2>2, <3>1
    <3> QED
      BY <2>1, <3>1, <3>2 DEF ReturnsTo
  <2>3. To(F(g), n + 1)
    BY <2>2 DEF ReturnsTo
  <2> QED
    BY <2>3
<1> HIDE DEF T
<1>3. \A n \in Nat : n \in T
  BY <1>1, <1>2, Induction
<1> DEFINE G(n) == CHOOSE g : To(g, n)
           f == [w \in D |-> G(m[w])[w]]
<1>4. \A n \in Nat : To(G(n), n)
  BY <1>3 DEF T
<1> HIDE DEF G, To
<1>5. ASSUME NEW w \in D PROVE f[w] = IF w \in stop THEN res[w] ELSE f[next[w]]
  <2>1. To(G(m[w]), m[w]) /\ m[w] \in Nat /\ m[w] <= m[w]
    BY <1>0, <1>4
  <2>2. CASE w \in stop
    BY <2>1, <2>2 DEF To, ReturnsTo
  <2>3. CASE w \notin stop
    <3>1. next[w] \in D /\ m[next[w]] < m[w] /\ m[next[w]] \in Nat
      BY <1>0, <2>3 DEF Loops
    <3>2. G(m[w])[w] = G(m[w])[next[w]]
      BY <2>1, <2>3 DEF To, ReturnsTo
    <3>3. /\ To(G(m[next[w]]), m[next[w]])
          /\ m[next[w]] <= m[next[w]] /\ m[next[w]] <= m[w]
      BY <1>4, <2>1, <3>1
    <3>4. G(m[next[w]])[next[w]] = G(m[w])[next[w]]
      BY <2>1, <3>1, <3>3, LoopsAgree DEF To
    <3> QED
      BY <2>3, <3>1, <3>2, <3>4
  <2> QED
    BY <2>2, <2>3
<1>6. f = [w \in D |-> IF w \in stop THEN res[w] ELSE f[next[w]]]
  BY <1>5
<1> HIDE DEF f
<1> QED
  BY <1>6 DEF Returns

(* R relates each state to what the loop may return from it.               *)
LEMMA LoopResults ==
    ASSUME NEW D, NEW stop, NEW res, NEW next, NEW m, Loops(D, stop, next, m),
           NEW f, Returns(f, D, stop, res, next), NEW R,
           \A w \in D : w \in stop => <<w, res[w]>> \in R,
           \A w \in D : \A v : w \notin stop /\ <<next[w], v>> \in R => <<w, v>> \in R
    PROVE  \A w \in D : <<w, f[w]>> \in R
<1> DEFINE T == {j \in Nat : \A w \in D : m[w] < j => <<w, f[w]>> \in R}
<1>0. \A w \in D : m[w] \in Nat
  BY DEF Loops
<1>1. 0 \in T
  BY <1>0
<1>2. ASSUME NEW j \in Nat, j \in T PROVE j + 1 \in T
  <2> SUFFICES ASSUME NEW w \in D, m[w] < j + 1 PROVE <<w, f[w]>> \in R
    OBVIOUS
  <2>1. f[w] = IF w \in stop THEN res[w] ELSE f[next[w]]
    BY DEF Returns
  <2>2. CASE w \in stop
    BY <2>1, <2>2
  <2>3. CASE w \notin stop
    <3>1. next[w] \in D /\ m[next[w]] < m[w]
      BY <2>3 DEF Loops
    <3>2. m[next[w]] < j
      BY <1>0, <3>1
    <3>3. <<next[w], f[next[w]]>> \in R
      BY <1>2, <3>1, <3>2
    <3> QED
      BY <2>1, <2>3, <3>3
  <2> QED
    BY <2>2, <2>3
<1> HIDE DEF T
<1>3. \A j \in Nat : j \in T
  BY <1>1, <1>2, Induction
<1>4. ASSUME NEW w \in D PROVE <<w, f[w]>> \in R
  <2>1. m[w] + 1 \in T /\ m[w] < m[w] + 1
    BY <1>0, <1>3
  <2> QED
    BY <2>1 DEF T
<1> QED
  BY <1>4

-----------------------------------------------------------------------------
(* In how many places a sequence has one of the given items *)

Hits(s, A)     == {n \in DOMAIN s : s[n] \in A}
HitCount(s, A) == Cardinality(Hits(s, A))

LEMMA HitsFinite ==
    ASSUME NEW S, NEW s \in Seq(S), NEW A
    PROVE  IsFiniteSet(Hits(s, A)) /\ HitCount(s, A) \in Nat
<1>1. IsFiniteSet(1 .. Len(s)) /\ DOMAIN s = 1 .. Len(s)
  BY FS_Interval
<1>2. Hits(s, A) \in SUBSET (1 .. Len(s))
  BY <1>1 DEF Hits
<1> QED
  BY <1>1, <1>2, FS_Subset, FS_CardinalityType DEF HitCount

LEMMA HitsConcat ==
    ASSUME NEW S, NEW s \in Seq(S), NEW t \in Seq(S), NEW A
    PROVE  HitCount(s \o t, A) = HitCount(s, A) + HitCount(t, A)
<1>1. PICK l, m : l = Len(s) /\ m = Len(t) /\ l \in Nat /\ m \in Nat
  <2>1. Len(s) \in Nat /\ Len(t) \in Nat
    OBVIOUS
  <2> QED
    BY <2>1
<1> DEFINE u == s \o t
           R == {n \in Hits(u, A) : n > l}
           f == [n \in Hits(t, A) |-> n + l]
<1>2. /\ DOMAIN s = 1 .. l /\ DOMAIN t = 1 .. m /\ DOMAIN u = 1 .. l + m
      /\ \A n \in 1 .. l + m : u[n] = IF n <= l THEN s[n] ELSE t[n - l]
  <2>1. /\ u \in Seq(S) /\ Len(u) = l + m
        /\ \A n \in 1 .. l + m : u[n] = IF n <= l THEN s[n] ELSE t[n - l]
    BY <1>1, ConcatProperties
  <2> QED
    BY <1>1, <2>1
<1> HIDE DEF u
<1>3. Hits(u, A) = Hits(s, A) \cup R /\ Hits(s, A) \cap R = {}
  BY <1>1, <1>2 DEF Hits
<1>4. f \in [Hits(t, A) -> R]
  <2>1. ASSUME NEW n \in Hits(t, A) PROVE n + l \in R
    <3>1. n \in 1 .. m /\ t[n] \in A
      BY <1>2, <2>1 DEF Hits
    <3>2. n + l \in 1 .. l + m /\ n + l > l /\ (n + l) - l = n /\ ~ (n + l <= l)
      BY <1>1, <3>1
    <3>3. u[n + l] = t[n]
      BY <1>2, <3>2
    <3> QED
      BY <1>2, <3>1, <3>2, <3>3 DEF Hits
  <2> QED
    BY <2>1
<1>5. \A n \in R : n - l \in Hits(t, A) /\ f[n - l] = n
  <2> SUFFICES ASSUME NEW n \in R PROVE n - l \in Hits(t, A) /\ f[n - l] = n
    OBVIOUS
  <2>1. n \in 1 .. l + m /\ n > l /\ u[n] \in A
    BY <1>2 DEF Hits
  <2>2. n - l \in 1 .. m /\ ~ (n <= l) /\ (n - l) + l = n
    BY <1>1, <2>1
  <2>3. n - l \in Hits(t, A)
    BY <1>2, <2>1, <2>2 DEF Hits
  <2> QED
    BY <2>2, <2>3
<1>6. \A n, k \in Hits(t, A) : f[n] = f[k] => n = k
  <2> SUFFICES ASSUME NEW n \in Hits(t, A), NEW k \in Hits(t, A), f[n] = f[k] PROVE n = k
    OBVIOUS
  <2>1. n \in 1 .. m /\ k \in 1 .. m /\ n + l = k + l
    BY <1>2 DEF Hits
  <2> QED
    BY <1>1, <2>1
<1> HIDE DEF f, R
<1>7. f \in Bijection(Hits(t, A), R)
  BY <1>4, <1>5, <1>6 DEF Bijection, Injection, Surjection, IsInjective
<1>8. /\ IsFiniteSet(Hits(t, A)) /\ IsFiniteSet(Hits(s, A))
      /\ HitCount(s, A) \in Nat /\ HitCount(t, A) \in Nat
  BY HitsFinite
<1>9. IsFiniteSet(R) /\ Cardinality(R) = HitCount(t, A)
  BY <1>7, <1>8, FS_Bijection DEF ExistsBijection, HitCount
<1>10. Cardinality(Hits(u, A)) = HitCount(s, A) + Cardinality(R) - Cardinality({})
  BY <1>3, <1>8, <1>9, FS_Union DEF HitCount
<1> QED
  BY <1>8, <1>9, <1>10, FS_EmptySet DEF u, HitCount

LEMMA HitsPermuted ==
    ASSUME NEW S, NEW s \in Seq(S), NEW A, NEW f \in [DOMAIN s -> DOMAIN s],
           \A i, j \in DOMAIN s : f[i] = f[j] => i = j
    PROVE  HitCount([i \in DOMAIN s |-> s[f[i]]], A) = HitCount(s, A)
<1> DEFINE t == [i \in DOMAIN s |-> s[f[i]]]
           g == [n \in Hits(t, A) |-> f[n]]
<1>1. IsFiniteSet(DOMAIN s)
  BY FS_Interval
<1>2. f \in Injection(DOMAIN s, DOMAIN s)
  BY DEF Injection, IsInjective
<1>3. \A j \in DOMAIN s : \E i \in DOMAIN s : f[i] = j
  <2>1. f \in Surjection(DOMAIN s, DOMAIN s)
    BY <1>1, <1>2, FS_Injection
  <2> QED
    BY <2>1 DEF Surjection
<1>4. g \in [Hits(t, A) -> Hits(s, A)]
  BY DEF Hits
<1>5. \A j \in Hits(s, A) : \E i \in Hits(t, A) : g[i] = j
  BY <1>3 DEF Hits
<1>6. \A i, j \in Hits(t, A) : g[i] = g[j] => i = j
  BY DEF Hits
<1> HIDE DEF g
<1>7. g \in Bijection(Hits(t, A), Hits(s, A))
  BY <1>4, <1>5, <1>6 DEF Bijection, Injection, Surjection, IsInjective
<1>8. Hits(t, A) \in SUBSET (DOMAIN s)
  BY DEF Hits
<1> HIDE DEF t
<1>9. IsFiniteSet(Hits(t, A))
  BY <1>1, <1>8, FS_Subset
<1>10. Cardinality(Hits(s, A)) = Cardinality(Hits(t, A))
  BY <1>7, <1>9, FS_Bijection DEF ExistsBijection
<1> QED
  BY <1>10 DEF HitCount, t

LEMMA HitsOne ==
    ASSUME NEW p, NEW A
    PROVE  HitCount(<<p>>, A) = IF p \in A THEN 1 ELSE 0
<1>1. Hits(<<p>>, A) = IF p \in A THEN {1} ELSE {}
  BY DEF Hits
<1> QED
  BY <1>1, FS_EmptySet, FS_Singleton DEF HitCount

LEMMA HitsReplaced ==
    ASSUME NEW S, NEW s \in Seq(S), NEW A, NEW i \in 1 .. Len(s), NEW p
    PROVE  HitCount([s EXCEPT ![i] = p], A) + HitCount(<<s[i]>>, A)
               = HitCount(s, A) + HitCount(<<p>>, A)
<1> DEFINE t == [s EXCEPT ![i] = p]
<1>1. DOMAIN s = 1 .. Len(s) /\ DOMAIN t = DOMAIN s /\ t[i] = p
      /\ \A n \in DOMAIN s : n # i => t[n] = s[n]
  OBVIOUS
<1> HIDE DEF t
<1>2. Hits(t, A) \ {i} = Hits(s, A) \ {i}
  BY <1>1 DEF Hits
<1>3. (i \in Hits(t, A) <=> p \in A) /\ (i \in Hits(s, A) <=> s[i] \in A)
  BY <1>1 DEF Hits
<1>4. IsFiniteSet(Hits(s, A)) /\ IsFiniteSet(Hits(t, A))
      /\ HitCount(s, A) \in Nat
  <2>1. IsFiniteSet(1 .. Len(s))
    BY FS_Interval
  <2>2. Hits(t, A) \in SUBSET (1 .. Len(s))
    BY <1>1 DEF Hits
  <2> QED
    BY <2>1, <2>2, HitsFinite, FS_Subset
<1>5. PICK a, b : a = Cardinality(Hits(s, A)) /\ b = Cardinality(Hits(t, A))
  OBVIOUS
<1>6. a \in Nat /\ b \in Nat
  BY <1>4, <1>5, FS_CardinalityType
<1>7. (IF p \in A THEN b - 1 ELSE b) = (IF s[i] \in A THEN a - 1 ELSE a)
  <2>1. /\ Cardinality(Hits(s, A) \ {i}) = IF i \in Hits(s, A) THEN a - 1 ELSE a
        /\ Cardinality(Hits(t, A) \ {i}) = IF i \in Hits(t, A) THEN b - 1 ELSE b
    BY <1>4, <1>5, FS_RemoveElement
  <2> QED
    BY <1>2, <1>3, <2>1
<1>8. /\ HitCount(<<s[i]>>, A) = IF s[i] \in A THEN 1 ELSE 0
      /\ HitCount(<<p>>, A) = IF p \in A THEN 1 ELSE 0
  BY HitsOne
<1>9. b + HitCount(<<s[i]>>, A) = a + HitCount(<<p>>, A)
  BY <1>6, <1>7, <1>8
<1> QED
  BY <1>5, <1>9 DEF HitCount, t

-----------------------------------------------------------------------------
(* In how many places the sequences of a family F have such an item *)

PlacesIn(F)       == UNION {{i} \X DOMAIN F[i] : i \in DOMAIN F}
HitPlacesIn(F, A) == {w \in PlacesIn(F) : F[w[1]][w[2]] \in A}
ItemsOf(F, i)     == IF i \in DOMAIN F THEN F[i] ELSE <<>>

LEMMA PlacesInFacts ==
    ASSUME NEW F, NEW w
    PROVE  w \in PlacesIn(F) <=> \E i \in DOMAIN F : \E n \in DOMAIN F[i] : w = <<i, n>>
BY DEF PlacesIn

LEMMA PlacesSplit ==
    ASSUME NEW F, NEW S, NEW id, ItemsOf(F, id) \in Seq(S), NEW A,
           NEW U, U = {w \in PlacesIn(F) : w[1] # id}, IsFiniteSet(U)
    PROVE  /\ IsFiniteSet(PlacesIn(F))
           /\ Cardinality(HitPlacesIn(F, A))
                  = Cardinality({w \in U : F[w[1]][w[2]] \in A}) + HitCount(ItemsOf(F, id), A)
           /\ Cardinality({w \in U : F[w[1]][w[2]] \in A}) \in Nat
           /\ HitCount(ItemsOf(F, id), A) \in Nat
<1> DEFINE s == ItemsOf(F, id)
           V == {w \in U : F[w[1]][w[2]] \in A}
           H == Hits(s, A)
<1>1. IsFiniteSet(DOMAIN s) /\ IsFiniteSet(H) /\ HitCount(s, A) \in Nat
  BY FS_Interval, HitsFinite
<1>2. PlacesIn(F) = U \cup ({id} \X DOMAIN s)
  <2> SUFFICES ASSUME NEW w
               PROVE  w \in PlacesIn(F) <=> w \in U \/ w \in {id} \X DOMAIN s
    OBVIOUS
  <2>1. \A i, n : w = <<i, n>> => w[1] = i /\ w[2] = n
    OBVIOUS
  <2>2. w \in {id} \X DOMAIN s <=> id \in DOMAIN F /\ \E n \in DOMAIN F[id] : w = <<id, n>>
    BY DEF ItemsOf
  <2> QED
    BY <2>1, <2>2, PlacesInFacts
<1>3. HitPlacesIn(F, A) = V \cup ({id} \X H)
  <2> SUFFICES ASSUME NEW w
               PROVE  w \in HitPlacesIn(F, A) <=> w \in V \/ w \in {id} \X H
    OBVIOUS
  <2>1. w \in HitPlacesIn(F, A) <=> w \in PlacesIn(F) /\ F[w[1]][w[2]] \in A
    BY DEF HitPlacesIn
  <2>2. w \in {id} \X DOMAIN s => w[1] = id /\ w[2] \in DOMAIN s /\ F[id] = s
    BY DEF ItemsOf
  <2>3. w \in {id} \X H <=> w \in {id} \X DOMAIN s /\ s[w[2]] \in A
    BY DEF Hits
  <2> QED
    BY <1>2, <2>1, <2>2, <2>3
<1>4. V \cap ({id} \X H) = {} /\ V \in SUBSET U
  OBVIOUS
<1> HIDE DEF H, V, s
<1>5. IsFiniteSet({id}) /\ Cardinality({id}) = 1
  BY FS_Singleton
<1>6. IsFiniteSet({id} \X H) /\ Cardinality({id} \X H) = HitCount(s, A)
  <2>1. IsFiniteSet({id} \X H) /\ Cardinality({id} \X H) = Cardinality({id}) * Cardinality(H)
    BY <1>1, <1>5, FS_Product
  <2>2. PICK h \in Nat : h = Cardinality(H) /\ h = HitCount(s, A)
    BY <1>1 DEF HitCount, H
  <2> QED
    BY <1>5, <2>1, <2>2
<1>7. IsFiniteSet(V) /\ Cardinality(V) \in Nat
  BY <1>4, FS_Subset, FS_CardinalityType
<1>8. Cardinality(V \cup ({id} \X H)) = Cardinality(V) + Cardinality({id} \X H) - Cardinality({})
  BY <1>4, <1>6, <1>7, FS_Union
<1>9. Cardinality(HitPlacesIn(F, A)) = Cardinality(V) + HitCount(s, A)
  <2>1. Cardinality({}) = 0
    BY FS_EmptySet
  <2> QED
    BY <1>1, <1>3, <1>6, <1>7, <1>8, <2>1
<1>10. IsFiniteSet(PlacesIn(F))
  <2>1. IsFiniteSet({id} \X DOMAIN s)
    BY <1>1, <1>5, FS_Product
  <2>2. IsFiniteSet(U \cup ({id} \X DOMAIN s))
    BY <2>1, FS_Union
  <2> QED
    BY <1>2, <2>2
<1> QED
  BY <1>1, <1>7, <1>9, <1>10 DEF V, s

(* One sequence changes, comes or goes; the others keep their places.      *)
LEMMA PlacesChange ==
    ASSUME NEW F, NEW G, NEW S, NEW id, NEW A,
           ItemsOf(F, id) \in Seq(S), ItemsOf(G, id) \in Seq(S),
           DOMAIN F \ {id} = DOMAIN G \ {id}, \A i \in DOMAIN F \ {id} : G[i] = F[i],
           IsFiniteSet(PlacesIn(F))
    PROVE  /\ IsFiniteSet(PlacesIn(G))
           /\ Cardinality(HitPlacesIn(G, A)) - HitCount(ItemsOf(G, id), A)
                  = Cardinality(HitPlacesIn(F, A)) - HitCount(ItemsOf(F, id), A)
           /\ Cardinality(HitPlacesIn(F, A)) \in Nat /\ Cardinality(HitPlacesIn(G, A)) \in Nat
<1> DEFINE U == {w \in PlacesIn(F) : w[1] # id}
<1>1. U = {w \in PlacesIn(G) : w[1] # id}
  <2> SUFFICES ASSUME NEW w, w[1] # id PROVE w \in PlacesIn(F) <=> w \in PlacesIn(G)
    OBVIOUS
  <2>1. \A i, n : w = <<i, n>> => w[1] = i
    OBVIOUS
  <2> QED
    BY <2>1, PlacesInFacts
<1>2. \A w \in U : w[1] \in DOMAIN F \ {id}
  <2> SUFFICES ASSUME NEW w \in U PROVE w[1] \in DOMAIN F
    OBVIOUS
  <2>1. \A i, n : w = <<i, n>> => w[1] = i
    OBVIOUS
  <2> QED
    BY <2>1, PlacesInFacts
<1>3. IsFiniteSet(U)
  <2>1. U \in SUBSET PlacesIn(F)
    OBVIOUS
  <2> QED
    BY <2>1, FS_Subset
<1> HIDE DEF U
<1>4. {w \in U : F[w[1]][w[2]] \in A} = {w \in U : G[w[1]][w[2]] \in A}
  BY <1>2
<1>5. PICK k : k = Cardinality({w \in U : F[w[1]][w[2]] \in A})
  OBVIOUS
<1>6. PICK x, y : x = HitCount(ItemsOf(F, id), A) /\ y = HitCount(ItemsOf(G, id), A)
  OBVIOUS
<1>7. /\ IsFiniteSet(PlacesIn(F)) /\ Cardinality(HitPlacesIn(F, A)) = k + x
      /\ k \in Nat /\ x \in Nat
  BY <1>3, <1>5, <1>6, PlacesSplit DEF U
<1>8. IsFiniteSet(PlacesIn(G)) /\ Cardinality(HitPlacesIn(G, A)) = k + y /\ y \in Nat
  <2>1. U = {w \in PlacesIn(G) : w[1] # id} /\ k = Cardinality({w \in U : G[w[1]][w[2]] \in A})
    BY <1>1, <1>4, <1>5
  <2>2. /\ IsFiniteSet(PlacesIn(G))
        /\ Cardinality(HitPlacesIn(G, A))
               = Cardinality({w \in U : G[w[1]][w[2]] \in A}) + HitCount(ItemsOf(G, id), A)
        /\ HitCount(ItemsOf(G, id), A) \in Nat
    <3>1. ItemsOf(G, id) \in Seq(S) /\ U = {w \in PlacesIn(G) : w[1] # id} /\ IsFiniteSet(U)
      BY <1>3, <2>1
    <3> HIDE <2>1
    <3> QED
      BY <3>1, PlacesSplit
  <2> QED
    BY <1>6, <2>1, <2>2
<1> QED
  BY <1>6, <1>7, <1>8

(* A part of 1 .. n with no gap at its start is an interval.               *)
LEMMA Initial ==
    ASSUME NEW n \in Nat, NEW T, T \subseteq 1 .. n,
           \A i, j \in 1 .. n : i < j /\ j \in T => i \in T
    PROVE  Cardinality(T) \in 0 .. n /\ T = 1 .. Cardinality(T)
<1>1. CASE T = {}
  <2>1. Cardinality(T) = 0
    BY <1>1, FS_EmptySet
  <2> QED
    BY <1>1, <2>1
<1>2. CASE T # {}
  <2>1. T \subseteq 0 .. n
    OBVIOUS
  <2>2. PICK m \in T : \A i \in T : i <= m
    BY <1>2, <2>1, GreatestNat
  <2>3. m \in 1 .. n
    OBVIOUS
  <2>4. T = 1 .. m
    <3>1. ASSUME NEW i \in 1 .. m PROVE i \in T
      <4>1. i \in 1 .. n
        BY <2>3
      <4> QED
        BY <2>2, <2>3, <4>1
    <3>2. ASSUME NEW i \in T PROVE i \in 1 .. m
      <4>1. i \in 1 .. n /\ i <= m
        BY <2>2
      <4> QED
        BY <2>3, <4>1
    <3> QED
      BY <3>1, <3>2
  <2>5. Cardinality(T) = m
    <3>1. Cardinality(1 .. m) = m
      BY <2>3, FS_Interval
    <3> QED
      BY <2>4, <3>1
  <2> QED
    BY <2>3, <2>4, <2>5
<1> QED
  BY <1>1, <1>2
=============================================================================
