------------------------- MODULE FileCatalogProofs -------------------------
(***************************************************************************)
(* Proofs about FileCatalog, for any number of connection threads, names   *)
(* and lines: a reply is the file unless that file was replaced, the       *)
(* statistics never claim a file too many, a listing is as long as it      *)
(* said, and a file has the chunks and the size of the request.            *)
(* The sums of sizes are folds; they are followed by induction over the    *)
(* indices, which is carried out on sets of numbers.                       *)
(***************************************************************************)
EXTENDS FileCatalog, FiniteSetTheorems, WellFoundedInduction, TLAPS

(* A file that every reader can rely on.                                   *)
WellFormed(file) ==
    /\ file.chunks # <<>>
    /\ \A i \in DOMAIN file.chunks :
          file.chunks[i].index = i - 1 /\ file.chunks[i].copies >= 2
    /\ file.size = SumOfSizes(file.chunks)

(* What a thread in the middle of a request relies on.                     *)
RequestSound(x) ==
    /\ x.pc = "counted" => x.files \in Nat /\ x.files <= Cardinality(DOMAIN files)
    /\ x.pc \in {"found", "headed", "reading"} =>
          /\ x.key \in DOMAIN files
          /\ {"pc", "key", "replaced"} \subseteq DOMAIN x
    /\ x.pc = "reading" => {"lines", "dangling"} \subseteq DOMAIN x
    /\ x.pc = "listing" =>
          /\ DOMAIN x = {"pc", "count", "todo", "listed"}
          /\ x = [f \in DOMAIN x |-> x[f]]
          /\ x.todo \subseteq DOMAIN files /\ x.listed \subseteq DOMAIN files
          /\ x.todo \cap x.listed = {}
          /\ x.count = Cardinality(x.todo \cup x.listed)

FilesSound ==
    /\ IsFiniteSet(DOMAIN files)
    /\ totalFiles \in Nat
    /\ totalFiles <= Cardinality(DOMAIN files)

(* The inductive invariant of what the threads do.                         *)
CatalogSound ==
    /\ FilesSound
    /\ worker = [w \in Workers |-> worker[w]]
    /\ \A w \in Workers : RequestSound(worker[w])

----------------------------------------------------------------------------
(* Induction over the natural numbers, as a fact about sets.               *)

LEMMA LeastNumber ==
    ASSUME NEW T, T \subseteq Nat, T # {}
    PROVE  \E n \in T : \A m \in T : n <= m
<1> DEFINE R == OpToRel(<, Nat)
<1>1. IsWellFoundedOn(R, Nat)
  BY NatLessThanWellFounded
<1>2. \E n \in T : \A m \in T : <<m, n>> \notin R
  <2> HIDE DEF R
  <2> QED
    BY <1>1, WFMin
<1>3. \A m, n \in Nat : <<m, n>> \in R <=> m < n
  BY DEF OpToRel
<1> HIDE DEF R
<1>4. PICK n \in T : \A m \in T : <<m, n>> \notin R
  BY <1>2
<1>5. ASSUME NEW m \in T PROVE n <= m
  <2>1. m \in Nat /\ n \in Nat
    OBVIOUS
  <2>2. <<m, n>> \notin R
    BY <1>4
  <2>3. ~(m < n)
    BY <1>3, <2>1, <2>2
  <2> QED
    BY <2>1, <2>3
<1> QED
  BY <1>5

LEMMA Induction ==
    ASSUME NEW S, 0 \in S, \A n \in Nat : n \in S => n + 1 \in S
    PROVE  Nat \subseteq S
<1> SUFFICES ASSUME ~(Nat \subseteq S) PROVE FALSE
  OBVIOUS
<1>1. PICK n \in Nat \ S : \A m \in Nat \ S : n <= m
  BY LeastNumber
<1>2. n # 0
  OBVIOUS
<1>3. n - 1 \in Nat /\ n - 1 \in S
  BY <1>1, <1>2
<1> QED
  BY <1>1, <1>3


LEMMA MaxIs ==
    ASSUME NEW n \in Nat, NEW s \in SUBSET (1 .. n), s # {}
    PROVE  Max(s) \in s /\ \A i \in s : Max(s) >= i
<1>1. PICK T : T = {n - i : i \in s}
  OBVIOUS
<1>2. T \subseteq Nat /\ T # {}
  <2>1. \A i \in s : n - i \in Nat
    OBVIOUS
  <2>2. \E i : i \in s
    OBVIOUS
  <2> QED
    BY <1>1, <2>1, <2>2
<1>3. PICK k \in T : \A l \in T : k <= l
  BY <1>2, LeastNumber
<1>4. PICK m \in s : k = n - m
  BY <1>1
<1>5. ASSUME NEW i \in s PROVE m >= i
  <2>1. k <= n - i
    BY <1>1, <1>3
  <2> QED
    BY <1>4, <2>1
<1>6. \E x \in s : \A y \in s : x >= y
  BY <1>5
<1> QED
  BY <1>6 DEF Max

LEMMA MaxOfFirst ==
    ASSUME NEW k \in Nat \ {0}
    PROVE  Max(1 .. k) = k /\ (1 .. k) \ {k} = 1 .. (k - 1) /\ 1 .. k # {}
<1>1. PICK s : s = 1 .. k
  OBVIOUS
<1>2. s \in SUBSET (1 .. k) /\ k \in s /\ s # {} /\ s \ {k} = 1 .. (k - 1)
  BY <1>1
<1>3. Max(s) \in s /\ Max(s) >= k
  BY <1>2, MaxIs
<1>4. Max(s) = k
  BY <1>1, <1>3
<1> QED
  BY <1>1, <1>2, <1>4

(* Two that go on alike end alike.                                         *)
LEMMA SameSteps ==
    ASSUME NEW n \in Nat, NEW f, NEW g, f[1 .. 0] = g[1 .. 0],
           \A k \in 1 .. n : f[1 .. (k - 1)] = g[1 .. (k - 1)] => f[1 .. k] = g[1 .. k]
    PROVE  f[1 .. n] = g[1 .. n]
<1> DEFINE S == {k \in Nat : k <= n => f[1 .. k] = g[1 .. k]}
<1>1. 0 \in S
  OBVIOUS
<1>2. ASSUME NEW k \in Nat, k \in S PROVE k + 1 \in S
  <2> SUFFICES ASSUME k + 1 <= n PROVE f[1 .. (k + 1)] = g[1 .. (k + 1)]
    <3>1. k + 1 \in Nat
      OBVIOUS
    <3> QED
      BY <3>1
  <2>1. PICK l : l = k + 1
    OBVIOUS
  <2>2. l \in 1 .. n /\ l - 1 = k
    BY <2>1
  <2>3. f[1 .. k] = g[1 .. k]
    BY <1>2
  <2>4. f[1 .. (l - 1)] = g[1 .. (l - 1)] => f[1 .. l] = g[1 .. l]
    BY <2>2
  <2> QED
    BY <2>1, <2>2, <2>3, <2>4
<1>3. n \in S
  <2> HIDE DEF S
  <2> QED
    BY <1>1, <1>2, Induction
<1> QED
  BY <1>3

----------------------------------------------------------------------------
(* FoldLeft, of steps that are given as functions, goes through the sets   *)
(* of indices.                                                             *)
Folds(t, X, base, n, step) ==
    /\ t \in [SUBSET (1 .. n) -> X]
    /\ \A s \in SUBSET (1 .. n) :
          t[s] = IF s = {} THEN base ELSE step[Max(s)][t[s \ {Max(s)}]]

LEMMA FoldExists ==
    ASSUME NEW X, NEW base \in X, NEW n \in Nat, NEW step \in [1 .. n -> [X -> X]]
    PROVE  \E t : Folds(t, X, base, n, step)
<1> DEFINE S == {k \in Nat : k <= n => \E t : Folds(t, X, base, k, step)}
<1>1. 0 \in S
  <2>1. Folds([s \in SUBSET (1 .. 0) |-> base], X, base, 0, step)
    BY DEF Folds
  <2> QED
    BY <2>1
<1>2. ASSUME NEW k \in Nat, k \in S PROVE k + 1 \in S
  <2> SUFFICES ASSUME k + 1 <= n PROVE \E t : Folds(t, X, base, k + 1, step)
    OBVIOUS
  <2>1. PICK t : Folds(t, X, base, k, step)
    BY <1>2
  <2>2. /\ t \in [SUBSET (1 .. k) -> X]
        /\ \A s \in SUBSET (1 .. k) : t[s] = IF s = {} THEN base ELSE step[Max(s)][t[s \ {Max(s)}]]
    BY <2>1 DEF Folds
  <2>3. PICK u : u = [s \in SUBSET (1 .. (k + 1)) |->
                        IF k + 1 \in s THEN step[k + 1][t[s \ {k + 1}]] ELSE t[s]]
    OBVIOUS
  <2>4. ASSUME NEW s \in SUBSET (1 .. (k + 1))
        PROVE  u[s] \in X /\ u[s] = IF s = {} THEN base ELSE step[Max(s)][u[s \ {Max(s)}]]
    <3>1. CASE k + 1 \in s
      <4>1. Max(s) = k + 1
        <5>1. Max(s) \in s /\ Max(s) >= k + 1
          <6>1. k + 1 \in Nat /\ s # {}
            BY <3>1
          <6> QED
            BY <3>1, <6>1, MaxIs
        <5>2. Max(s) \in 1 .. (k + 1)
          BY <5>1
        <5> QED
          BY <5>1, <5>2
      <4>2. s \ {k + 1} \in SUBSET (1 .. k) /\ s \ {k + 1} \in SUBSET (1 .. (k + 1))
        OBVIOUS
      <4>3. u[s] = step[k + 1][t[s \ {k + 1}]] /\ u[s \ {k + 1}] = t[s \ {k + 1}]
        BY <2>3, <3>1, <4>2
      <4>4. t[s \ {k + 1}] \in X /\ step[k + 1] \in [X -> X]
        BY <2>2, <4>2
      <4> QED
        BY <3>1, <4>1, <4>3, <4>4
    <3>2. CASE k + 1 \notin s
      <4>1. s \in SUBSET (1 .. k)
        BY <3>2
      <4>2. u[s] = t[s]
        BY <2>3, <3>2
      <4>3. CASE s # {}
        <5>1. Max(s) \in s
          BY <4>1, <4>3, MaxIs
        <5>2. s \ {Max(s)} \in SUBSET (1 .. (k + 1)) /\ k + 1 \notin s \ {Max(s)}
          BY <3>2
        <5>3. u[s \ {Max(s)}] = t[s \ {Max(s)}]
          BY <2>3, <5>2
        <5> QED
          BY <2>2, <4>1, <4>2, <4>3, <5>3
      <4>4. CASE s = {}
        BY <2>2, <4>1, <4>2, <4>4
      <4> QED
        BY <4>3, <4>4
    <3> QED
      BY <3>1, <3>2
  <2>5. u \in [SUBSET (1 .. (k + 1)) -> X]
    BY <2>3, <2>4
  <2>6. Folds(u, X, base, k + 1, step)
    BY <2>4, <2>5 DEF Folds
  <2> QED
    BY <2>6
<1>3. Nat \subseteq S
  <2> HIDE DEF S
  <2> QED
    BY <1>1, <1>2, Induction
<1> QED
  BY <1>3

----------------------------------------------------------------------------
(* Sums.                                                                   *)

(* The sum of v over a set of indices.                                     *)
Sums(t, n, v) ==
    /\ n \in Nat /\ v \in [1 .. n -> Nat] /\ t \in [SUBSET (1 .. n) -> Nat]
    /\ \A s \in SUBSET (1 .. n) :
          t[s] = IF s = {} THEN 0 ELSE t[s \ {Max(s)}] + v[Max(s)]

LEMMA SumExists ==
    ASSUME NEW n \in Nat, NEW v \in [1 .. n -> Nat]
    PROVE  \E t : Sums(t, n, v)
<1>1. PICK step : step = [i \in 1 .. n |-> [a \in Nat |-> a + v[i]]]
  OBVIOUS
<1>2. step \in [1 .. n -> [Nat -> Nat]]
  BY <1>1
<1>3. PICK t : Folds(t, Nat, 0, n, step)
  BY <1>2, FoldExists
<1>4. ASSUME NEW s \in SUBSET (1 .. n), s # {}
      PROVE  t[s] = t[s \ {Max(s)}] + v[Max(s)]
  <2>1. Max(s) \in 1 .. n
    BY <1>4, MaxIs
  <2>2. t[s] = step[Max(s)][t[s \ {Max(s)}]] /\ t[s \ {Max(s)}] \in Nat
    BY <1>3, <1>4 DEF Folds
  <2> QED
    BY <1>1, <2>1, <2>2
<1>5. t \in [SUBSET (1 .. n) -> Nat] /\ \A s \in SUBSET (1 .. n) : s = {} => t[s] = 0
  BY <1>3 DEF Folds
<1> QED
  BY <1>4, <1>5 DEF Sums

(* The order does not matter.                                              *)
LEMMA SumAnyOrder ==
    ASSUME NEW t, NEW n, NEW v, Sums(t, n, v)
    PROVE  \A s, r \in SUBSET (1 .. n) : \A i \in s : r = s \ {i} => t[s] = t[r] + v[i]
<1>0. n \in Nat /\ v \in [1 .. n -> Nat]
  BY DEF Sums
<1> DEFINE S == {k \in Nat : k <= n => \A u \in SUBSET (1 .. k) : \A r \in SUBSET (1 .. n) :
                                          \A j \in u : r = u \ {j} => t[u] = t[r] + v[j]}
<1>1. 0 \in S
  <2>1. \A u \in SUBSET (1 .. 0) : u = {}
    OBVIOUS
  <2>2. \A u \in SUBSET (1 .. 0) : \A r \in SUBSET (1 .. n) : \A j \in u : FALSE
    BY <2>1
  <2> QED
    BY <2>2
<1>2. ASSUME NEW k \in Nat, k \in S PROVE k + 1 \in S
  <2> USE <1>0
  <2> SUFFICES ASSUME k + 1 <= n
               PROVE  \A u \in SUBSET (1 .. (k + 1)) : \A r \in SUBSET (1 .. n) :
                         \A j \in u : r = u \ {j} => t[u] = t[r] + v[j]
    <3>1. k + 1 \in Nat
      OBVIOUS
    <3> QED
      BY <3>1
  <2>0. k <= n
    OBVIOUS
  <2>1. \A u \in SUBSET (1 .. k) : \A r \in SUBSET (1 .. n) :
           \A j \in u : r = u \ {j} => t[u] = t[r] + v[j]
    BY <1>2, <2>0
  <2> HIDE DEF S
  <2> TAKE u \in SUBSET (1 .. (k + 1))
  <2> TAKE b \in SUBSET (1 .. n)
  <2> TAKE j \in u
  <2> SUFFICES ASSUME b = u \ {j} PROVE t[u] = t[b] + v[j]
    OBVIOUS
  <2>2. PICK m, a : m = Max(u) /\ a = u \ {m}
    OBVIOUS
  <2>3. u # {} /\ u \in SUBSET (1 .. n) /\ k + 1 \in Nat
    OBVIOUS
  <2>4. m \in u /\ m \in 1 .. (k + 1) /\ \A l \in u : m >= l
    BY <2>2, <2>3, MaxIs
  <2>5. t[u] = t[a] + v[m]
    BY <2>2, <2>3 DEF Sums
  <2>6. CASE j = m
    <3>1. a = b
      BY <2>2, <2>6
    <3> QED
      BY <2>5, <2>6, <3>1
  <2>7. CASE j # m
    <3>1. PICK c : c = a \ {j}
      OBVIOUS
    <3>2. /\ a \in SUBSET (1 .. k) /\ j \in a /\ c = b \ {m}
          /\ b # {} /\ m \in b /\ c \in SUBSET (1 .. n)
      <4>1. \A l \in a : l <= k
        BY <2>2, <2>4
      <4> QED
        <5>1. \A l \in a : l \in 1 .. k
          BY <2>2, <2>3, <4>1
        <5>2. j \in a /\ c = b \ {m} /\ m \in b
          BY <2>2, <2>4, <2>7, <3>1
        <5> QED
          BY <5>1, <5>2
    <3>3. Max(b) = m
      <4>1. Max(b) \in b /\ \A l \in b : Max(b) >= l
        BY <3>2, MaxIs
      <4>2. Max(b) \in Nat /\ m \in Nat /\ Max(b) \in u
        <5>1. Max(b) \in u
          BY <4>1
        <5>2. Max(b) \in 1 .. (k + 1)
          BY <5>1
        <5> QED
          BY <2>4, <5>1, <5>2
      <4>3. Max(b) >= m /\ m >= Max(b)
        BY <2>4, <3>2, <4>1, <4>2
      <4> QED
        BY <4>2, <4>3
    <3>4. t[a] = t[c] + v[j]
      <4>1. a \in SUBSET (1 .. k) /\ c \in SUBSET (1 .. n) /\ j \in a
        BY <3>2
      <4> QED
        BY <2>1, <3>1, <4>1
    <3>5. t[b] = t[c] + v[m]
      BY <3>2, <3>3 DEF Sums
    <3>6. t[c] \in Nat /\ v[m] \in Nat /\ v[j] \in Nat
      <4>1. m \in 1 .. n /\ j \in 1 .. n
        BY <2>3, <2>4
      <4> QED
        BY <3>2, <4>1 DEF Sums
    <3> QED
      BY <2>5, <3>4, <3>5, <3>6
  <2> QED
    BY <2>6, <2>7
<1>3. n \in S
  <2> HIDE DEF S
  <2> QED
    BY <1>0, <1>1, <1>2, Induction
<1> QED
  BY <1>0, <1>3

(* The numbers of a sequence can be added up in another order.             *)
LEMMA SumPermuted ==
    ASSUME NEW n, NEW v, NEW w, NEW t, Sums(t, n, v), NEW u, Sums(u, n, w),
           NEW p \in Injection(1 .. n, 1 .. n), \A i \in 1 .. n : w[i] = v[p[i]]
    PROVE  t[1 .. n] = u[1 .. n]
<1> DEFINE P(k) == {p[i] : i \in 1 .. k}
           S == {k \in Nat : k <= n => u[1 .. k] = t[P(k)]}
<1>0. /\ n \in Nat /\ p \in [1 .. n -> 1 .. n] /\ \A i, j \in 1 .. n : p[i] = p[j] => i = j
  BY DEF Sums, Injection, IsInjective
<1>1. 0 \in S
  <2>1. 1 .. 0 = {} /\ P(0) = {} /\ {} \in SUBSET (1 .. n)
    OBVIOUS
  <2> QED
    BY <2>1 DEF Sums
<1>2. ASSUME NEW k \in Nat, k \in S PROVE k + 1 \in S
  <2> USE <1>0
  <2> SUFFICES ASSUME k + 1 <= n PROVE u[1 .. (k + 1)] = t[P(k + 1)]
    OBVIOUS
  <2>1. PICK a, b, c, d : a = 1 .. (k + 1) /\ b = 1 .. k /\ c = P(k + 1) /\ d = P(k)
    OBVIOUS
  <2>2. a \in SUBSET (1 .. n) /\ k + 1 \in a /\ b = a \ {k + 1} /\ k + 1 \in 1 .. n
    BY <2>1
  <2>3. c \in SUBSET (1 .. n) /\ p[k + 1] \in c /\ d = c \ {p[k + 1]}
    <3>1. \A i \in 1 .. k : i \in 1 .. n /\ p[i] # p[k + 1]
      BY <1>0, <2>2
    <3>2. \A i \in 1 .. (k + 1) : i \in 1 .. k \/ i = k + 1
      OBVIOUS
    <3>3. \A i \in 1 .. (k + 1) : i \in 1 .. n
      OBVIOUS
    <3>4. \A e : e \in c <=> e \in d \/ e = p[k + 1]
      <4>1. \A e : e \in c <=> \E i \in 1 .. (k + 1) : e = p[i]
        BY <2>1
      <4>2. \A e : e \in d <=> \E i \in 1 .. k : e = p[i]
        BY <2>1
      <4>3. k + 1 \in 1 .. (k + 1) /\ \A i \in 1 .. k : i \in 1 .. (k + 1)
        OBVIOUS
      <4> HIDE DEF P, S
      <4> QED
        BY <3>2, <4>1, <4>2, <4>3
    <3>5. \A e \in d : e # p[k + 1]
      BY <2>1, <3>1
    <3>6. \A e \in c : e \in 1 .. n
      <4>1. \A e \in c : \E i \in 1 .. (k + 1) : e = p[i]
        BY <2>1
      <4>2. \A i \in 1 .. (k + 1) : p[i] \in 1 .. n
        BY <1>0, <3>3
      <4> HIDE DEF P, S
      <4> QED
        BY <4>1, <4>2
    <3> QED
      BY <3>4, <3>5, <3>6
  <2> HIDE DEF P, S
  <2>4. u[a] = u[b] + w[k + 1]
    <3>1. PICK e : e = k + 1
      OBVIOUS
    <3>2. a \in SUBSET (1 .. n) /\ b \in SUBSET (1 .. n) /\ e \in a /\ b = a \ {e}
      BY <2>2, <3>1
    <3>3. u[a] = u[b] + w[e]
      BY <3>2, SumAnyOrder
    <3> QED
      BY <3>1, <3>3
  <2>5. t[c] = t[d] + v[p[k + 1]]
    <3>1. PICK e : e = p[k + 1]
      OBVIOUS
    <3>2. c \in SUBSET (1 .. n) /\ d \in SUBSET (1 .. n) /\ e \in c /\ d = c \ {e}
      BY <2>3, <3>1
    <3>3. t[c] = t[d] + v[e]
      BY <3>2, SumAnyOrder
    <3> QED
      BY <3>1, <3>3
  <2>6. u[b] = t[d]
    BY <1>2, <2>1 DEF S
  <2>7. u[a] = t[c]
    BY <2>2, <2>4, <2>5, <2>6
  <2> QED
    BY <2>1, <2>7
<1>3. n \in S
  <2> HIDE DEF S
  <2> QED
    BY <1>0, <1>1, <1>2, Induction
<1>4. P(n) = 1 .. n
  <2>1. IsFiniteSet(1 .. n)
    BY <1>0, FS_Interval
  <2>2. p \in Surjection(1 .. n, 1 .. n)
    BY <1>0, <2>1, FS_Injection
  <2> QED
    BY <1>0, <2>2 DEF Surjection
<1>5. u[1 .. n] = t[P(n)]
  BY <1>0, <1>3
<1> QED
  BY <1>4, <1>5

----------------------------------------------------------------------------
(* UPLOAD_COMPLETE.                                                        *)

LEMMA SumOfSizesIs ==
    ASSUME NEW chunks \in Seq(Line)
    PROVE  \E t : /\ Sums(t, Len(chunks), [i \in 1 .. Len(chunks) |-> chunks[i].size])
                  /\ SumOfSizes(chunks) = t[1 .. Len(chunks)]
<1> DEFINE Is(h) == h = [s \in SUBSET DOMAIN chunks |->
                           IF s = {} THEN 0 ELSE h[s \ {Max(s)}] + chunks[Max(s)].size]
           g == CHOOSE g : Is(g)
<1>1. SumOfSizes(chunks) = g[DOMAIN chunks]
  BY DEF SumOfSizes, FoldLeft, MapThenFoldSet
<1>2. PICK n, v : n = Len(chunks) /\ v = [i \in 1 .. n |-> chunks[i].size]
  OBVIOUS
<1>3. /\ n \in Nat /\ DOMAIN chunks = 1 .. n /\ v \in [1 .. n -> Nat]
      /\ \A i \in 1 .. n : v[i] = chunks[i].size
  <2>1. n \in Nat /\ DOMAIN chunks = 1 .. n /\ \A i \in 1 .. n : chunks[i] \in Line
    BY <1>2
  <2>2. \A i \in 1 .. n : chunks[i].size \in Nat
    BY <2>1 DEF Line
  <2> QED
    BY <1>2, <2>1, <2>2
<1>4. PICK t : Sums(t, n, v)
  BY <1>3, SumExists
<1>5. Is(t)
  <2>1. ASSUME NEW s \in SUBSET (1 .. n)
        PROVE  t[s] = IF s = {} THEN 0 ELSE t[s \ {Max(s)}] + chunks[Max(s)].size
    <3>1. s # {} => Max(s) \in 1 .. n
      BY <1>3, MaxIs
    <3> QED
      BY <1>3, <1>4, <3>1 DEF Sums
  <2>2. t = [s \in SUBSET (1 .. n) |-> t[s]]
    BY <1>4 DEF Sums
  <2> QED
    BY <1>3, <2>1, <2>2
<1>6. Is(g)
  <2> HIDE DEF Is
  <2> QED
    BY <1>5
<1> HIDE DEF g
<1>7. ASSUME NEW h, Is(h), NEW k \in 1 .. n
      PROVE  h[1 .. k] = h[1 .. (k - 1)] + chunks[k].size
  <2>1. PICK s : s = 1 .. k
    OBVIOUS
  <2>2. s \in SUBSET DOMAIN chunks /\ s # {} /\ Max(s) = k /\ s \ {k} = 1 .. (k - 1)
    <3>1. k \in Nat \ {0}
      OBVIOUS
    <3>2. Max(1 .. k) = k /\ (1 .. k) \ {k} = 1 .. (k - 1) /\ 1 .. k # {}
      BY <3>1, MaxOfFirst
    <3>3. 1 .. k \in SUBSET (1 .. n)
      BY <1>3
    <3> QED
      BY <1>3, <2>1, <3>2, <3>3
  <2>3. h[s] = IF s = {} THEN 0 ELSE h[s \ {Max(s)}] + chunks[Max(s)].size
    BY <1>7, <2>2
  <2> HIDE DEF Is
  <2> QED
    BY <2>1, <2>2, <2>3
<1>8. ASSUME NEW h, Is(h) PROVE h[1 .. 0] = 0
  <2>1. 1 .. 0 = {} /\ {} \in SUBSET DOMAIN chunks
    OBVIOUS
  <2> QED
    BY <1>8, <2>1
<1> HIDE DEF Is
<1>9. g[1 .. n] = t[1 .. n]
  <2>1. g[1 .. 0] = t[1 .. 0]
    BY <1>5, <1>6, <1>8
  <2>2. \A k \in 1 .. n : g[1 .. (k - 1)] = t[1 .. (k - 1)] => g[1 .. k] = t[1 .. k]
    BY <1>5, <1>6, <1>7
  <2> QED
    BY <1>3, <2>1, <2>2, SameSteps
<1> QED
  BY <1>1, <1>2, <1>3, <1>4, <1>9

(* The sort loses no chunk.                                                *)
LEMMA SortSum ==
    ASSUME NEW chunks \in Seq(Line), ValidateChunkSequence(chunks)
    PROVE  /\ InIndexOrder(chunks) \in Seq(Line) /\ InIndexOrder(chunks) # <<>>
           /\ Len(InIndexOrder(chunks)) = Len(chunks)
           /\ \A i \in 1 .. Len(chunks) :
                 /\ \E j \in 1 .. Len(chunks) : InIndexOrder(chunks)[i] = chunks[j]
                 /\ InIndexOrder(chunks)[i].index = i - 1
           /\ SumOfSizes(InIndexOrder(chunks)) = SumOfSizes(chunks)
<1>1. PICK n, p, sorted :
         /\ n = Len(chunks) /\ sorted = InIndexOrder(chunks)
         /\ p = [i \in 1 .. n |-> CHOOSE j \in DOMAIN chunks : chunks[j].index = i - 1]
  OBVIOUS
<1>2. n \in Nat /\ n # 0 /\ DOMAIN chunks = 1 .. n /\ \A i \in 1 .. n : chunks[i] \in Line
  BY <1>1 DEF ValidateChunkSequence
<1>3. ASSUME NEW i \in 1 .. n PROVE p[i] \in 1 .. n /\ chunks[p[i]].index = i - 1
  <2>1. i - 1 \in 0 .. n - 1
    BY <1>2
  <2>2. \E j \in DOMAIN chunks : chunks[j].index = i - 1
    BY <1>1, <2>1 DEF ValidateChunkSequence
  <2>3. p[i] = CHOOSE j \in DOMAIN chunks : chunks[j].index = i - 1
    BY <1>1
  <2> QED
    BY <1>2, <2>2, <2>3
<1>4. p \in Injection(1 .. n, 1 .. n)
  <2>1. p \in [1 .. n -> 1 .. n]
    BY <1>1, <1>3
  <2>2. ASSUME NEW i \in 1 .. n, NEW j \in 1 .. n, p[i] = p[j] PROVE i = j
    <3>1. i - 1 = j - 1
      BY <1>3, <2>2
    <3> QED
      BY <1>2, <3>1
  <2> QED
    BY <2>1, <2>2 DEF Injection, IsInjective
<1>5. sorted = [i \in 1 .. n |-> chunks[p[i]]]
  BY <1>1 DEF InIndexOrder
<1>6. sorted \in Seq(Line) /\ Len(sorted) = n /\ \A i \in 1 .. n : sorted[i] = chunks[p[i]]
  BY <1>2, <1>3, <1>5
<1>7. PICK v, w : /\ v = [i \in 1 .. n |-> chunks[i].size]
                  /\ w = [i \in 1 .. n |-> sorted[i].size]
  OBVIOUS
<1>8. PICK t : Sums(t, n, v) /\ SumOfSizes(chunks) = t[1 .. n]
  BY <1>1, <1>7, SumOfSizesIs
<1>9. PICK u : Sums(u, n, w) /\ SumOfSizes(sorted) = u[1 .. n]
  BY <1>6, <1>7, SumOfSizesIs
<1>10. \A i \in 1 .. n : w[i] = v[p[i]]
  BY <1>3, <1>6, <1>7
<1>11. t[1 .. n] = u[1 .. n]
  BY <1>4, <1>8, <1>9, <1>10, SumPermuted
<1>12. sorted # <<>>
  BY <1>2, <1>6
<1> QED
  BY <1>1, <1>3, <1>6, <1>8, <1>9, <1>11, <1>12

(* The statistics are numbers.                                             *)
LEMMA BytesOfIs ==
    ASSUME NEW f, IsFiniteSet(DOMAIN f), \A key \in DOMAIN f : f[key].size \in Nat
    PROVE  BytesOf(f) \in Nat
<1>1. PICK seq, n : seq = SetToSeq(DOMAIN f) /\ n = Cardinality(DOMAIN f)
  OBVIOUS
<1>2. n \in Nat /\ seq \in [1 .. n -> DOMAIN f]
  <2>1. n \in Nat /\ ExistsBijection(1 .. n, DOMAIN f)
    BY <1>1, FS_CardinalityType, FS_NatBijection, FS_CountingElements
  <2>2. \E s \in [1 .. n -> DOMAIN f] : IsInjective(s)
    BY <2>1 DEF ExistsBijection, Bijection, Injection
  <2> QED
    BY <1>1, <2>1, <2>2 DEF SetToSeq
<1> DEFINE Is(h) == h = [s \in SUBSET DOMAIN seq |->
                           IF s = {} THEN 0 ELSE h[s \ {Max(s)}] + f[seq[Max(s)]].size]
           g == CHOOSE g : Is(g)
<1>3. BytesOf(f) = g[DOMAIN seq]
  BY <1>1 DEF BytesOf, FoldLeft, MapThenFoldSet
<1>4. PICK v : v = [i \in 1 .. n |-> f[seq[i]].size]
  OBVIOUS
<1>5. DOMAIN seq = 1 .. n /\ v \in [1 .. n -> Nat] /\ \A i \in 1 .. n : v[i] = f[seq[i]].size
  BY <1>2, <1>4
<1>6. PICK t : Sums(t, n, v)
  BY <1>2, <1>5, SumExists
<1>7. Is(t)
  <2>1. ASSUME NEW s \in SUBSET (1 .. n)
        PROVE  t[s] = IF s = {} THEN 0 ELSE t[s \ {Max(s)}] + f[seq[Max(s)]].size
    <3>1. s # {} => Max(s) \in 1 .. n
      BY <1>2, MaxIs
    <3> QED
      BY <1>5, <1>6, <3>1 DEF Sums
  <2>2. t = [s \in SUBSET (1 .. n) |-> t[s]]
    BY <1>6 DEF Sums
  <2> QED
    BY <1>5, <2>1, <2>2
<1>8. Is(g)
  <2> HIDE DEF Is
  <2> QED
    BY <1>7
<1> HIDE DEF g
<1>9. ASSUME NEW h, Is(h), NEW k \in 1 .. n
      PROVE  h[1 .. k] = h[1 .. (k - 1)] + f[seq[k]].size
  <2>1. PICK s : s = 1 .. k
    OBVIOUS
  <2>2. s \in SUBSET DOMAIN seq /\ s # {} /\ Max(s) = k /\ s \ {k} = 1 .. (k - 1)
    <3>1. k \in Nat \ {0}
      OBVIOUS
    <3>2. Max(1 .. k) = k /\ (1 .. k) \ {k} = 1 .. (k - 1) /\ 1 .. k # {}
      BY <3>1, MaxOfFirst
    <3>3. 1 .. k \in SUBSET (1 .. n)
      BY <1>2, <1>5
    <3> QED
      BY <1>2, <1>5, <2>1, <3>2, <3>3
  <2>3. h[s] = IF s = {} THEN 0 ELSE h[s \ {Max(s)}] + f[seq[Max(s)]].size
    BY <1>9, <2>2
  <2> HIDE DEF Is
  <2> QED
    BY <2>1, <2>2, <2>3
<1>10. ASSUME NEW h, Is(h) PROVE h[1 .. 0] = 0
  <2>1. 1 .. 0 = {} /\ {} \in SUBSET DOMAIN seq
    OBVIOUS
  <2> QED
    BY <1>10, <2>1
<1> HIDE DEF Is
<1>11. g[1 .. n] = t[1 .. n]
  <2>1. g[1 .. 0] = t[1 .. 0]
    BY <1>7, <1>8, <1>10
  <2>2. \A k \in 1 .. n : g[1 .. (k - 1)] = t[1 .. (k - 1)] => g[1 .. k] = t[1 .. k]
    BY <1>7, <1>8, <1>9
  <2> QED
    BY <1>2, <2>1, <2>2, SameSteps
<1>12. t[1 .. n] \in Nat
  <2>1. t \in [SUBSET (1 .. n) -> Nat]
    BY <1>6 DEF Sums
  <2> QED
    BY <2>1
<1> QED
  BY <1>3, <1>5, <1>11, <1>12

(* The loop of HandleUploadComplete keeps the lines it accepts.            *)
Good == {line \in Line : Accepts(line)}

LEMMA AcceptedIs ==
    ASSUME NEW body \in Seq(Line)
    PROVE  Accepted(body) \in Seq(Good)
<1>1. PICK n, X : n = Len(body) /\ X = Seq(Good)
  OBVIOUS
<1>2. n \in Nat /\ DOMAIN body = 1 .. n /\ <<>> \in X /\ \A i \in 1 .. n : body[i] \in Line
  BY <1>1
<1> DEFINE Keep(chunks, line) == IF Accepts(line) THEN Append(chunks, line) ELSE chunks
           Is(h) == h = [s \in SUBSET DOMAIN body |->
                           IF s = {} THEN <<>> ELSE Keep(h[s \ {Max(s)}], body[Max(s)])]
           g == CHOOSE g : Is(g)
<1>3. Accepted(body) = g[DOMAIN body]
  BY DEF Accepted, FoldLeft, MapThenFoldSet
<1>4. PICK step : step = [i \in 1 .. n |-> [a \in X |-> Keep(a, body[i])]]
  OBVIOUS
<1>5. \A i \in 1 .. n : \A a \in X : Keep(a, body[i]) \in X
  BY <1>1, <1>2 DEF Good
<1>6. step \in [1 .. n -> [X -> X]] /\ \A i \in 1 .. n : \A a \in X : step[i][a] = Keep(a, body[i])
  <2> HIDE DEF Keep
  <2> QED
    BY <1>4, <1>5
<1>7. PICK t : Folds(t, X, <<>>, n, step)
  BY <1>2, <1>6, FoldExists
<1> HIDE DEF Keep
<1>8. Is(t)
  <2>1. ASSUME NEW s \in SUBSET (1 .. n)
        PROVE  t[s] = IF s = {} THEN <<>> ELSE Keep(t[s \ {Max(s)}], body[Max(s)])
    <3>1. s # {} => Max(s) \in 1 .. n
      BY <1>2, MaxIs
    <3>2. PICK r : r = s \ {Max(s)}
      OBVIOUS
    <3>3. t[r] \in X /\ t[s] = IF s = {} THEN <<>> ELSE step[Max(s)][t[r]]
      BY <1>7, <3>2 DEF Folds
    <3> QED
      BY <1>6, <3>1, <3>2, <3>3
  <2>2. t = [s \in SUBSET (1 .. n) |-> t[s]]
    BY <1>7 DEF Folds
  <2> QED
    BY <1>2, <2>1, <2>2
<1>9. Is(g)
  <2> HIDE DEF Is
  <2> QED
    BY <1>8
<1> HIDE DEF g
<1>10. ASSUME NEW h, Is(h), NEW k \in 1 .. n
       PROVE  h[1 .. k] = Keep(h[1 .. (k - 1)], body[k])
  <2>1. PICK s : s = 1 .. k
    OBVIOUS
  <2>2. s \in SUBSET DOMAIN body /\ s # {} /\ Max(s) = k /\ s \ {k} = 1 .. (k - 1)
    <3>1. k \in Nat \ {0}
      OBVIOUS
    <3>2. Max(1 .. k) = k /\ (1 .. k) \ {k} = 1 .. (k - 1) /\ 1 .. k # {}
      BY <3>1, MaxOfFirst
    <3>3. 1 .. k \in SUBSET (1 .. n)
      BY <1>2
    <3> QED
      BY <1>2, <2>1, <3>2, <3>3
  <2>3. h[s] = IF s = {} THEN <<>> ELSE Keep(h[s \ {Max(s)}], body[Max(s)])
    BY <1>10, <2>2
  <2> HIDE DEF Is
  <2> QED
    BY <2>1, <2>2, <2>3
<1>11. ASSUME NEW h, Is(h) PROVE h[1 .. 0] = <<>>
  <2>1. 1 .. 0 = {} /\ {} \in SUBSET DOMAIN body
    OBVIOUS
  <2> QED
    BY <1>11, <2>1
<1> HIDE DEF Is
<1>12. g[1 .. n] = t[1 .. n]
  <2>1. g[1 .. 0] = t[1 .. 0]
    BY <1>8, <1>9, <1>11
  <2>2. \A k \in 1 .. n : g[1 .. (k - 1)] = t[1 .. (k - 1)] => g[1 .. k] = t[1 .. k]
    BY <1>8, <1>9, <1>10
  <2> QED
    BY <1>2, <2>1, <2>2, SameSteps
<1>13. t[1 .. n] \in X
  BY <1>7 DEF Folds
<1> QED
  BY <1>1, <1>2, <1>3, <1>12, <1>13

LEMMA FileOfIs ==
    ASSUME NEW body \in Seq(Line), ValidateChunkSequence(Accepted(body))
    PROVE  FileOf(body) \in File /\ WellFormed(FileOf(body))
<1>1. PICK chunks, sorted : chunks = Accepted(body) /\ sorted = InIndexOrder(chunks)
  OBVIOUS
<1>2. chunks \in Seq(Good)
  BY <1>1, AcceptedIs
<1>3. chunks \in Seq(Line) /\ Len(chunks) \in Nat /\ \A j \in 1 .. Len(chunks) : chunks[j] \in Good
  BY <1>2 DEF Good
<1>4. /\ sorted \in Seq(Line) /\ sorted # <<>> /\ Len(sorted) = Len(chunks)
      /\ \A i \in 1 .. Len(chunks) :
            /\ \E j \in 1 .. Len(chunks) : sorted[i] = chunks[j]
            /\ sorted[i].index = i - 1
      /\ SumOfSizes(sorted) = SumOfSizes(chunks)
  BY <1>1, <1>3, SortSum
<1>5. \A i \in 1 .. Len(sorted) : sorted[i] \in Chunk /\ sorted[i].copies >= 2
  <2>1. \A i \in 1 .. Len(sorted) : sorted[i] \in Good
    BY <1>3, <1>4
  <2>2. \A c \in Good : c \in Chunk /\ c.copies >= 2
    BY DEF Good, Line, Chunk, Accepts
  <2> QED
    BY <2>1, <2>2
<1>6. DOMAIN sorted = 1 .. Len(sorted) /\ sorted \in Seq(Chunk)
  <2>1. DOMAIN sorted = 1 .. Len(sorted) /\ Len(sorted) \in Nat /\ sorted = [i \in 1 .. Len(sorted) |-> sorted[i]]
    BY <1>4
  <2> QED
    BY <1>5, <2>1
<1>7. SumOfSizes(chunks) \in Nat
  <2>1. PICK t : /\ Sums(t, Len(chunks), [i \in 1 .. Len(chunks) |-> chunks[i].size])
                 /\ SumOfSizes(chunks) = t[1 .. Len(chunks)]
    BY <1>3, SumOfSizesIs
  <2>2. t \in [SUBSET (1 .. Len(chunks)) -> Nat]
    BY <2>1 DEF Sums
  <2> QED
    BY <2>1, <2>2
<1>8. FileOf(body) = [size |-> SumOfSizes(chunks), chunks |-> sorted]
  BY <1>1 DEF FileOf
<1>9. WellFormed(FileOf(body))
  BY <1>4, <1>5, <1>6, <1>8 DEF WellFormed
<1> QED
  BY <1>6, <1>7, <1>8, <1>9 DEF File

(* Files are only added: what a thread relies on stays true.               *)
LEMMA RequestStays ==
    ASSUME FilesSound, NEW x, RequestSound(x),
           IsFiniteSet(DOMAIN files'), DOMAIN files \subseteq DOMAIN files'
    PROVE  RequestSound(x)'
<1>1. /\ Cardinality(DOMAIN files) \in Nat /\ Cardinality(DOMAIN files') \in Nat
      /\ Cardinality(DOMAIN files) <= Cardinality(DOMAIN files')
  BY FS_Subset, FS_CardinalityType DEF FilesSound
<1> QED
  BY <1>1 DEF RequestSound

(* A step of one thread over an unchanged catalogue.                       *)
LEMMA ThreadSteps ==
    ASSUME CatalogSound, NEW w \in Workers, NEW x, Become(w, x), RequestSound(x),
           UNCHANGED <<files, totalFiles>>
    PROVE  CatalogSound'
<1>1. /\ worker' = [v \in Workers |-> worker'[v]]
      /\ \A v \in Workers : worker'[v] = IF v = w THEN x ELSE worker[v]
  BY DEF CatalogSound, Become
<1>2. \A v \in Workers : RequestSound(worker'[v])
  BY <1>1 DEF CatalogSound
<1>3. \A v \in Workers : RequestSound(worker[v])'
  BY <1>2 DEF RequestSound
<1> QED
  BY <1>1, <1>3 DEF CatalogSound, FilesSound

----------------------------------------------------------------------------

LEMMA RegisterFileKeeps ==
    ASSUME CatalogSound, NEW w \in Workers, NEW name \in Names, NEW body \in Bodies,
           RegisterFile(w, name, body)
    PROVE  CatalogSound'
<1> DEFINE key == Sanitize[name]
<1>1. /\ DOMAIN files' = DOMAIN files \cup {key}
      /\ worker' = AfterAssignment(w, key) /\ UNCHANGED totalFiles
  BY DEF RegisterFile, With, stats
<1> HIDE DEF key
<1>2. IsFiniteSet(DOMAIN files')
  BY <1>1, FS_AddElement DEF CatalogSound, FilesSound
<1>3. /\ Cardinality(DOMAIN files) \in Nat /\ Cardinality(DOMAIN files') \in Nat
      /\ Cardinality(DOMAIN files) <= Cardinality(DOMAIN files')
  BY <1>1, <1>2, FS_Subset, FS_CardinalityType DEF CatalogSound, FilesSound
<1>4. FilesSound'
  BY <1>1, <1>2, <1>3 DEF CatalogSound, FilesSound
<1>5. ASSUME NEW v \in Workers
      PROVE  RequestSound(worker[v])'
  <2>1. PICK old : old = worker[v]
    OBVIOUS
  <2>2. RequestSound(old)'
    BY <1>1, <1>2, <2>1, RequestStays DEF CatalogSound
  <2>3. CASE worker'[v] = Stored
    BY <2>3 DEF Stored, RequestSound
  <2>4. CASE worker'[v] = old
    BY <2>2, <2>4 DEF RequestSound
  <2>5. CASE /\ old.pc \in {"found", "headed", "reading"}
             /\ \/ old.pc = "reading" /\ worker'[v] = [old EXCEPT !.replaced = TRUE, !.dangling = TRUE]
                \/ worker'[v] = [old EXCEPT !.replaced = TRUE]
    <3>1. /\ {"pc", "key", "replaced"} \subseteq DOMAIN old /\ old.key \in DOMAIN files'
          /\ old.pc = "reading" => {"lines", "dangling"} \subseteq DOMAIN old
      BY <2>2, <2>5 DEF RequestSound
    <3>2. PICK new : new = worker'[v]
      OBVIOUS
    <3>3. new.pc = old.pc /\ new.key = old.key /\ DOMAIN new = DOMAIN old
      BY <2>5, <3>1, <3>2
    <3> QED
      BY <2>5, <3>1, <3>2, <3>3 DEF RequestSound
  <2> QED
    BY <1>1, <2>1, <2>3, <2>4, <2>5 DEF AfterAssignment, Pointing
<1>6. worker' = [v \in Workers |-> worker'[v]]
  BY <1>1 DEF AfterAssignment
<1> QED
  BY <1>4, <1>5, <1>6 DEF CatalogSound

LEMMA StatisticsKeep ==
    ASSUME CatalogSound, NEW w \in Workers,
           CountFiles(w) \/ SetTotalFiles(w) \/ SetTotalBytes(w)
    PROVE  CatalogSound'
<1>1. CASE CountFiles(w)
  <2> DEFINE x == [pc |-> "counted", files |-> Cardinality(DOMAIN files), bytes |-> BytesOf(files)]
  <2>1. RequestSound(x)
    BY FS_CardinalityType DEF RequestSound, CatalogSound, FilesSound
  <2>2. Become(w, x) /\ UNCHANGED <<files, totalFiles>>
    BY <1>1 DEF CountFiles, stats
  <2> HIDE DEF x
  <2> QED
    BY <2>1, <2>2, ThreadSteps
<1>2. CASE SetTotalFiles(w)
  <2> DEFINE x == [pc |-> "halfset", bytes |-> worker[w].bytes]
  <2>1. RequestSound(x) /\ Become(w, x)
    BY <1>2 DEF RequestSound, SetTotalFiles
  <2>2. /\ totalFiles' = worker[w].files /\ worker[w].files \in Nat
        /\ worker[w].files <= Cardinality(DOMAIN files) /\ UNCHANGED files
    BY <1>2 DEF SetTotalFiles, CatalogSound, RequestSound
  <2> HIDE DEF x
  <2>3. /\ worker' = [v \in Workers |-> worker'[v]]
        /\ \A v \in Workers : worker'[v] = IF v = w THEN x ELSE worker[v]
    BY <2>1 DEF CatalogSound, Become
  <2>4. \A v \in Workers : RequestSound(worker'[v])
    BY <2>1, <2>3 DEF CatalogSound
  <2>5. \A v \in Workers : RequestSound(worker[v])'
    BY <2>2, <2>4 DEF RequestSound
  <2> QED
    BY <2>2, <2>3, <2>5 DEF CatalogSound, FilesSound
<1>3. CASE SetTotalBytes(w)
  BY <1>3, ThreadSteps DEF SetTotalBytes, Idle, RequestSound
<1> QED
  BY <1>1, <1>2, <1>3

LEMMA DownloadKeeps ==
    ASSUME CatalogSound, NEW w \in Workers,
           \/ \E name \in Names : GetFileMetadata(w, name)
           \/ WriteHeader(w) \/ BeginChunks(w) \/ WriteChunk(w) \/ SendChunks(w)
    PROVE  CatalogSound'
<1>1. RequestSound(worker[w])
  BY DEF CatalogSound
<1>2. ASSUME NEW name \in Names, GetFileMetadata(w, name)
      PROVE  CatalogSound'
  <2> DEFINE x == [pc |-> "found", key |-> Sanitize[name], replaced |-> FALSE]
  <2>1. RequestSound(x) /\ Become(w, x) /\ UNCHANGED <<files, totalFiles>>
    BY <1>2 DEF GetFileMetadata, stats, RequestSound
  <2> HIDE DEF x
  <2> QED
    BY <2>1, ThreadSteps
<1>3. CASE WriteHeader(w)
  <2> DEFINE x == [pc |-> "headed", key |-> worker[w].key, replaced |-> worker[w].replaced,
                   size |-> files[worker[w].key].size,
                   count |-> Len(files[worker[w].key].chunks)]
  <2>1. RequestSound(x) /\ Become(w, x) /\ UNCHANGED <<files, totalFiles>>
    BY <1>1, <1>3 DEF WriteHeader, stats, RequestSound
  <2> HIDE DEF x
  <2> QED
    BY <2>1, ThreadSteps
<1>4. CASE BeginChunks(w)
  <2> DEFINE x == [pc |-> "reading", key |-> worker[w].key, replaced |-> worker[w].replaced,
                   size |-> worker[w].size, count |-> worker[w].count,
                   view |-> files[worker[w].key].chunks, lines |-> <<>>, dangling |-> FALSE]
  <2>1. RequestSound(x) /\ Become(w, x) /\ UNCHANGED <<files, totalFiles>>
    BY <1>1, <1>4 DEF BeginChunks, stats, RequestSound
  <2> HIDE DEF x
  <2> QED
    BY <2>1, ThreadSteps
<1>5. CASE WriteChunk(w)
  <2>1. PICK old, line : old = worker[w] /\ Become(w, [old EXCEPT !.lines = Append(@, line)])
    BY <1>5 DEF WriteChunk
  <2>2. /\ {"pc", "key", "replaced", "lines", "dangling"} \subseteq DOMAIN old
        /\ old.pc = "reading" /\ old.key \in DOMAIN files
    BY <1>1, <1>5, <2>1 DEF WriteChunk, RequestSound
  <2>3. PICK new : new = [old EXCEPT !.lines = Append(@, line)]
    OBVIOUS
  <2>4. new.pc = "reading" /\ new.key = old.key /\ DOMAIN new = DOMAIN old
    BY <2>2, <2>3
  <2>5. RequestSound(new)
    BY <2>2, <2>4 DEF RequestSound
  <2> QED
    BY <1>5, <2>1, <2>3, <2>5, ThreadSteps DEF WriteChunk, stats
<1>6. CASE SendChunks(w)
  BY <1>6, ThreadSteps DEF SendChunks, stats, Idle, RequestSound
<1> QED
  BY <1>2, <1>3, <1>4, <1>5, <1>6

LEMMA ListingKeeps ==
    ASSUME CatalogSound, NEW w \in Workers,
           \/ ListFiles(w) \/ SendFiles(w)
           \/ \E key \in Keys : WriteFile(w, key)
    PROVE  CatalogSound'
<1>1. CASE ListFiles(w)
  <2> DEFINE x == [pc |-> "listing", count |-> Cardinality(DOMAIN files),
                   todo |-> DOMAIN files, listed |-> {}]
  <2>1. DOMAIN files \cup {} = DOMAIN files
    OBVIOUS
  <2>2. RequestSound(x) /\ Become(w, x) /\ UNCHANGED <<files, totalFiles>>
    BY <1>1, <2>1 DEF ListFiles, stats, RequestSound
  <2> HIDE DEF x
  <2> QED
    BY <2>2, ThreadSteps
<1>2. ASSUME NEW key \in Keys, WriteFile(w, key)
      PROVE  CatalogSound'
  <2> DEFINE old == worker[w]
  <2>1. /\ DOMAIN old = {"pc", "count", "todo", "listed"}
        /\ old = [f \in DOMAIN old |-> old[f]] /\ old.pc = "listing"
        /\ old.todo \subseteq DOMAIN files /\ old.listed \subseteq DOMAIN files
        /\ old.todo \cap old.listed = {} /\ key \in old.todo
        /\ old.count = Cardinality(old.todo \cup old.listed)
    BY <1>2 DEF WriteFile, CatalogSound, RequestSound
  <2>2. Become(w, [old EXCEPT !.todo = @ \ {key},
                              !.listed = IF key \in DOMAIN files THEN @ \cup {key} ELSE @])
    BY <1>2 DEF WriteFile
  <2> HIDE DEF old
  <2>3. PICK new : new = [old EXCEPT !.todo = @ \ {key},
                              !.listed = IF key \in DOMAIN files THEN @ \cup {key} ELSE @]
    OBVIOUS
  <2>4. /\ new.pc = "listing" /\ new.count = old.count
        /\ new.todo = old.todo \ {key} /\ new.listed = old.listed \cup {key}
        /\ DOMAIN new = DOMAIN old /\ new = [f \in DOMAIN new |-> new[f]]
    BY <2>1, <2>3
  <2>5. new.todo \cup new.listed = old.todo \cup old.listed
    BY <2>1, <2>4
  <2>6. RequestSound(new)
    BY <2>1, <2>4, <2>5 DEF RequestSound
  <2> QED
    BY <1>2, <2>2, <2>3, <2>6, ThreadSteps DEF WriteFile, stats
<1>3. CASE SendFiles(w)
  BY <1>3, ThreadSteps DEF SendFiles, stats, Idle, RequestSound
<1> QED
  BY <1>1, <1>2, <1>3

LEMMA EmptyIsSound ==
    ASSUME files = [k \in {} |-> {}], totalFiles = 0, worker = [w \in Workers |-> Idle]
    PROVE  CatalogSound
  BY FS_EmptySet DEF CatalogSound, FilesSound, RequestSound, Idle

LEMMA CrashKeeps ==
    ASSUME Crash
    PROVE  CatalogSound'
<1>1. /\ files' = [k \in {} |-> {}] /\ totalFiles' = 0
      /\ worker' = [w \in Workers |-> Idle]
  BY DEF Crash
<1>2. DOMAIN files' = {} /\ IsFiniteSet(DOMAIN files') /\ Cardinality(DOMAIN files') = 0
  BY <1>1, FS_EmptySet
<1>3. \A w \in Workers : RequestSound(worker[w])'
  BY <1>1 DEF RequestSound, Idle
<1> QED
  BY <1>1, <1>2, <1>3 DEF CatalogSound, FilesSound

LEMMA SoundHolds == Spec => []CatalogSound
<1>1. Init => CatalogSound
  BY EmptyIsSound DEF Init
<1>2. CatalogSound /\ [Next]_vars => CatalogSound'
  <2> SUFFICES ASSUME CatalogSound, [Next]_vars PROVE CatalogSound'
    OBVIOUS
  <2>1. CASE UNCHANGED vars
    <3>1. \A w \in Workers : RequestSound(worker[w])'
      BY <2>1 DEF vars, CatalogSound, RequestSound
    <3> QED
      BY <2>1, <3>1 DEF vars, stats, CatalogSound, FilesSound
  <2>2. ASSUME NEW w \in Workers, Take(w) \/ Continue(w)
        PROVE  CatalogSound'
    BY <2>2, RegisterFileKeeps, StatisticsKeep, DownloadKeeps, ListingKeeps DEF Take, Continue
  <2> QED
    BY <2>1, <2>2, CrashKeeps DEF Next
<1> QED
  BY <1>1, <1>2, PTL DEF Spec

----------------------------------------------------------------------------
(* The types, and the files.                                               *)

CatalogTyped ==
    /\ TypeOK
    /\ \A key \in DOMAIN files : WellFormed(files[key])

(* What a thread is in the middle of tells the fields there are.           *)
LEMMA StateIs ==
    ASSUME NEW x \in WorkerState
    PROVE  /\ x.pc = "counted" => x \in Counted
           /\ x.pc = "halfset" => x \in HalfSet
           /\ x.pc = "found" => x \in Found
           /\ x.pc = "headed" => x \in Headed
           /\ x.pc = "reading" => x \in Reading
           /\ x.pc = "listing" => x \in Listing
  BY DEF WorkerState, Idle, Stored, Deleting, Counted, HalfSet, Found, Headed, Reading, Listing

LEMMA TypedSteps ==
    ASSUME CatalogTyped, NEW w \in Workers, NEW x \in WorkerState, Become(w, x), UNCHANGED files,
           totalFiles' \in Nat, totalBytes' \in Nat
    PROVE  CatalogTyped'
<1>1. worker' \in [Workers -> WorkerState]
  BY DEF Become, CatalogTyped, TypeOK
<1>2. \A key \in DOMAIN files' : WellFormed(files[key])'
  BY DEF CatalogTyped, WellFormed
<1> QED
  BY <1>1, <1>2 DEF CatalogTyped, TypeOK

LEMMA RegisterFileTyped ==
    ASSUME CatalogTyped, NEW w \in Workers, NEW name \in Names, NEW body \in Bodies,
           RegisterFile(w, name, body)
    PROVE  CatalogTyped'
<1>1. PICK key, file : key = Sanitize[name] /\ file = FileOf(body)
  OBVIOUS
<1>2. /\ files' = [k \in DOMAIN files \cup {key} |-> IF k = key THEN file ELSE files[k]]
      /\ worker' = AfterAssignment(w, key) /\ totalFiles' = totalFiles /\ totalBytes' = totalBytes
      /\ ValidateChunkSequence(Accepted(body)) /\ key \in Keys
  BY <1>1, CatalogAssumption DEF RegisterFile, With, IsRegistrable, stats
<1>3. file \in File /\ WellFormed(file)
  BY <1>1, <1>2, FileOfIs, CatalogAssumption
<1>4. /\ DOMAIN files' \subseteq Keys /\ files' \in [DOMAIN files' -> File]
      /\ \A k \in DOMAIN files' : WellFormed(files'[k])
  BY <1>2, <1>3 DEF CatalogTyped, TypeOK
<1>5. ASSUME NEW v \in Workers PROVE worker'[v] \in WorkerState
  <2>1. PICK old : old = worker[v]
    OBVIOUS
  <2>2. /\ old \in WorkerState /\ (old.pc = "reading" => old \in Reading)
        /\ (old.pc = "found" => old \in Found) /\ (old.pc = "headed" => old \in Headed)
    BY <2>1, StateIs DEF CatalogTyped, TypeOK
  <2>3. \/ worker'[v] = Stored \/ worker'[v] = old
        \/ old.pc = "reading" /\ worker'[v] = [old EXCEPT !.replaced = TRUE, !.dangling = TRUE]
        \/ old.pc \in {"found", "headed"} /\ worker'[v] = [old EXCEPT !.replaced = TRUE]
    BY <1>2, <2>1 DEF AfterAssignment, Pointing
  <2>4. /\ old \in Reading => [old EXCEPT !.replaced = TRUE, !.dangling = TRUE] \in Reading
        /\ old \in Found => [old EXCEPT !.replaced = TRUE] \in Found
        /\ old \in Headed => [old EXCEPT !.replaced = TRUE] \in Headed
    BY DEF Reading, Found, Headed
  <2>5. Stored \in WorkerState
    BY DEF WorkerState
  <2>6. Reading \subseteq WorkerState /\ Found \subseteq WorkerState /\ Headed \subseteq WorkerState
    BY DEF WorkerState
  <2> QED
    BY <2>2, <2>3, <2>4, <2>5, <2>6
<1>6. worker' \in [Workers -> WorkerState]
  BY <1>2, <1>5 DEF AfterAssignment
<1>7. \A k \in DOMAIN files' : WellFormed(files[k])'
  BY <1>4 DEF WellFormed
<1> QED
  BY <1>2, <1>4, <1>6, <1>7 DEF CatalogTyped, TypeOK

LEMMA StatisticsTyped ==
    ASSUME CatalogSound, CatalogTyped, NEW w \in Workers,
           CountFiles(w) \/ SetTotalFiles(w) \/ SetTotalBytes(w)
    PROVE  CatalogTyped'
<1>0. worker[w] \in WorkerState /\ totalFiles \in Nat /\ totalBytes \in Nat
  BY DEF CatalogTyped, TypeOK
<1>1. CASE CountFiles(w)
  <2>1. \A key \in DOMAIN files : files[key].size \in Nat
    BY DEF CatalogTyped, TypeOK, File
  <2>2. Cardinality(DOMAIN files) \in Nat /\ BytesOf(files) \in Nat
    BY <2>1, BytesOfIs, FS_CardinalityType DEF CatalogSound, FilesSound
  <2>3. PICK x : x = [pc |-> "counted", files |-> Cardinality(DOMAIN files), bytes |-> BytesOf(files)]
    OBVIOUS
  <2>4. x \in Counted
    BY <2>2, <2>3 DEF Counted
  <2>5. x \in WorkerState
    BY <2>4 DEF WorkerState
  <2>6. Become(w, x) /\ UNCHANGED files /\ totalFiles' = totalFiles /\ totalBytes' = totalBytes
    BY <1>1, <2>3 DEF CountFiles, stats
  <2> QED
    BY <1>0, <2>5, <2>6, TypedSteps
<1>2. CASE SetTotalFiles(w)
  <2>1. worker[w] \in Counted
    BY <1>0, <1>2, StateIs DEF SetTotalFiles
  <2>2. worker[w].files \in Nat /\ worker[w].bytes \in Nat
    BY <2>1 DEF Counted
  <2>3. PICK x : x = [pc |-> "halfset", bytes |-> worker[w].bytes]
    OBVIOUS
  <2>4. x \in HalfSet
    BY <2>2, <2>3 DEF HalfSet
  <2>5. x \in WorkerState
    BY <2>4 DEF WorkerState
  <2>6. Become(w, x) /\ UNCHANGED files /\ totalFiles' \in Nat /\ totalBytes' = totalBytes
    BY <1>2, <2>2, <2>3 DEF SetTotalFiles
  <2> QED
    BY <1>0, <2>5, <2>6, TypedSteps
<1>3. CASE SetTotalBytes(w)
  <2>1. worker[w] \in HalfSet
    BY <1>0, <1>3, StateIs DEF SetTotalBytes
  <2>2. worker[w].bytes \in Nat
    BY <2>1 DEF HalfSet
  <2>3. Idle \in WorkerState
    BY DEF WorkerState
  <2>4. Become(w, Idle) /\ UNCHANGED files /\ totalFiles' = totalFiles /\ totalBytes' \in Nat
    BY <1>3, <2>2 DEF SetTotalBytes
  <2> QED
    BY <1>0, <2>3, <2>4, TypedSteps
<1> QED
  BY <1>1, <1>2, <1>3

LEMMA DownloadTyped ==
    ASSUME CatalogSound, CatalogTyped, NEW w \in Workers,
           \/ \E name \in Names : GetFileMetadata(w, name)
           \/ WriteHeader(w) \/ BeginChunks(w) \/ WriteChunk(w) \/ SendChunks(w)
    PROVE  CatalogTyped'
<1>0. /\ worker[w] \in WorkerState /\ totalFiles \in Nat /\ totalBytes \in Nat
      /\ DOMAIN files \subseteq Keys
      /\ \A key \in DOMAIN files : /\ files[key] \in File /\ files[key].size \in Nat
                                   /\ files[key].chunks \in Seq(Chunk)
  BY DEF CatalogTyped, TypeOK, File
<1>1. worker[w].pc \in {"found", "headed", "reading"} => worker[w].key \in DOMAIN files
  BY DEF CatalogSound, RequestSound
<1>2. \E x \in WorkerState : Become(w, x)
  <2>1. ASSUME NEW name \in Names, GetFileMetadata(w, name)
        PROVE  \E x \in WorkerState : Become(w, x)
    <3>1. PICK x : x = [pc |-> "found", key |-> Sanitize[name], replaced |-> FALSE]
      OBVIOUS
    <3>2. Sanitize[name] \in Keys
      BY <1>0, <2>1 DEF GetFileMetadata
    <3>3. x \in Found
      BY <3>1, <3>2 DEF Found
    <3> QED
      BY <2>1, <3>1, <3>3 DEF GetFileMetadata, WorkerState
  <2>2. CASE WriteHeader(w)
    <3>1. PICK key, replaced : key = worker[w].key /\ replaced = worker[w].replaced
      OBVIOUS
    <3>2. key \in DOMAIN files /\ key \in Keys /\ replaced \in BOOLEAN
      BY <1>0, <1>1, <2>2, <3>1, StateIs DEF WriteHeader, Found
    <3>3. PICK x : x = [pc |-> "headed", key |-> key, replaced |-> replaced, size |-> files[key].size,
                        count |-> Len(files[key].chunks)]
      OBVIOUS
    <3>4. x \in Headed
      <4>1. files[key].size \in Nat /\ files[key].chunks \in Seq(Chunk)
        BY <1>0, <3>2
      <4>2. Len(files[key].chunks) \in Nat
        BY <4>1
      <4> QED
        BY <3>2, <3>3, <4>1, <4>2 DEF Headed
    <3>5. Become(w, x)
      BY <2>2, <3>1, <3>3 DEF WriteHeader
    <3> QED
      BY <3>4, <3>5 DEF WorkerState
  <2>3. CASE BeginChunks(w)
    <3>1. worker[w] \in Headed /\ worker[w].key \in DOMAIN files
      BY <1>0, <1>1, <2>3, StateIs DEF BeginChunks
    <3>2. PICK x : x = [pc |-> "reading", key |-> worker[w].key, replaced |-> worker[w].replaced,
                        size |-> worker[w].size, count |-> worker[w].count,
                        view |-> files[worker[w].key].chunks, lines |-> <<>>, dangling |-> FALSE]
      OBVIOUS
    <3>3. /\ worker[w].key \in Keys /\ worker[w].size \in Nat /\ worker[w].count \in Nat
          /\ worker[w].replaced \in BOOLEAN
      BY <3>1 DEF Headed
    <3>4. files[worker[w].key].chunks \in Seq(Chunk) /\ <<>> \in Seq(Line)
      BY <1>0, <3>1
    <3>5. x \in Reading
      BY <3>2, <3>3, <3>4 DEF Reading
    <3>6. Become(w, x)
      BY <2>3, <3>2 DEF BeginChunks
    <3> QED
      BY <3>5, <3>6 DEF WorkerState
  <2>4. CASE WriteChunk(w)
    <3>1. PICK old, i : old = worker[w] /\ i = Len(worker[w].lines) + 1
      OBVIOUS
    <3>2. old \in Reading
      BY <1>0, <2>4, <3>1, StateIs DEF WriteChunk
    <3>3. old.view \in Seq(Chunk) /\ old.lines \in Seq(Line)
      BY <3>2 DEF Reading
    <3>4. PICK line \in {old.view[i]} \cup Overwriting(w) :
             i \in DOMAIN old.view /\ Become(w, [old EXCEPT !.lines = Append(@, line)])
      BY <2>4, <3>1 DEF WriteChunk
    <3>5. old.view[i] \in Chunk
      BY <3>3, <3>4
    <3>6. line \in Line
      <4>1. worker[w].key \in DOMAIN files
        BY <1>1, <2>4, StateIs DEF WriteChunk
      <4>2. files[worker[w].key].chunks \in Seq(Chunk)
        BY <1>0, <4>1
      <4>3. Overwriting(w) \subseteq Leftovers \cup Chunk
        BY <4>2 DEF Overwriting
      <4>4. Chunk \subseteq Line
        BY DEF Chunk, Line
      <4> QED
        BY <3>4, <3>5, <4>3, <4>4, CatalogAssumption
    <3>7. PICK more : more = Append(old.lines, line)
      OBVIOUS
    <3>8. more \in Seq(Line)
      BY <3>3, <3>6, <3>7
    <3>9. [old EXCEPT !.lines = more] \in Reading
      BY <3>2, <3>8 DEF Reading
    <3>10. Become(w, [old EXCEPT !.lines = more])
      BY <3>4, <3>7
    <3> QED
      BY <3>9, <3>10 DEF WorkerState
  <2>5. CASE SendChunks(w)
    BY <2>5 DEF SendChunks, WorkerState
  <2> QED
    BY <2>1, <2>2, <2>3, <2>4, <2>5
<1>3. UNCHANGED files /\ totalFiles' = totalFiles /\ totalBytes' = totalBytes
  BY DEF GetFileMetadata, WriteHeader, BeginChunks, WriteChunk, SendChunks, stats
<1> QED
  BY <1>0, <1>2, <1>3, TypedSteps

LEMMA ListingTyped ==
    ASSUME CatalogSound, CatalogTyped, NEW w \in Workers,
           \/ ListFiles(w) \/ SendFiles(w)
           \/ \E key \in Keys : WriteFile(w, key)
    PROVE  CatalogTyped'
<1>0. worker[w] \in WorkerState /\ totalFiles \in Nat /\ totalBytes \in Nat /\ DOMAIN files \subseteq Keys
  BY DEF CatalogTyped, TypeOK
<1>1. \E x \in WorkerState : Become(w, x)
  <2>1. CASE ListFiles(w)
    <3>1. PICK x : x = [pc |-> "listing", count |-> Cardinality(DOMAIN files),
                        todo |-> DOMAIN files, listed |-> {}]
      OBVIOUS
    <3>2. x \in Listing
      BY <1>0, <3>1, FS_CardinalityType DEF Listing, CatalogSound, FilesSound
    <3> QED
      BY <2>1, <3>1, <3>2 DEF ListFiles, WorkerState
  <2>2. ASSUME NEW key \in Keys, WriteFile(w, key)
        PROVE  \E x \in WorkerState : Become(w, x)
    <3>1. PICK old : old = worker[w]
      OBVIOUS
    <3>2. old \in Listing
      BY <1>0, <2>2, <3>1, StateIs DEF WriteFile
    <3>3. PICK x : x = [old EXCEPT !.todo = @ \ {key},
                                   !.listed = IF key \in DOMAIN files THEN @ \cup {key} ELSE @]
      OBVIOUS
    <3>4. x \in Listing
      BY <3>2, <3>3 DEF Listing
    <3> QED
      BY <2>2, <3>1, <3>3, <3>4 DEF WriteFile, WorkerState
  <2>3. CASE SendFiles(w)
    BY <2>3 DEF SendFiles, WorkerState
  <2> QED
    BY <2>1, <2>2, <2>3
<1>2. UNCHANGED files /\ totalFiles' = totalFiles /\ totalBytes' = totalBytes
  BY DEF ListFiles, SendFiles, WriteFile, stats
<1> QED
  BY <1>0, <1>1, <1>2, TypedSteps

LEMMA EmptyIsTyped ==
    ASSUME files = [k \in {} |-> {}], totalFiles = 0, totalBytes = 0, worker = [w \in Workers |-> Idle]
    PROVE  CatalogTyped
<1>1. Idle \in WorkerState
  BY DEF WorkerState
<1> QED
  BY <1>1 DEF CatalogTyped, TypeOK

LEMMA CrashTyped ==
    ASSUME Crash
    PROVE  CatalogTyped'
<1>1. /\ files' = [k \in {} |-> {}] /\ totalFiles' = 0 /\ totalBytes' = 0
      /\ worker' = [w \in Workers |-> Idle]
  BY DEF Crash
<1>2. Idle \in WorkerState
  BY DEF WorkerState
<1> QED
  BY <1>1, <1>2 DEF CatalogTyped, TypeOK

LEMMA TypedHolds == Spec => []CatalogTyped
<1>1. Init => CatalogTyped
  BY EmptyIsTyped DEF Init
<1>2. CatalogSound /\ CatalogTyped /\ [Next]_vars => CatalogTyped'
  <2> SUFFICES ASSUME CatalogSound, CatalogTyped, [Next]_vars PROVE CatalogTyped'
    OBVIOUS
  <2>1. CASE UNCHANGED vars
    BY <2>1 DEF vars, CatalogTyped, TypeOK, WellFormed
  <2>2. ASSUME NEW w \in Workers, Take(w) \/ Continue(w)
        PROVE  CatalogTyped'
    BY <2>2, RegisterFileTyped, StatisticsTyped, DownloadTyped, ListingTyped DEF Take, Continue
  <2> QED
    BY <2>1, <2>2, CrashTyped DEF Next
<1> QED
  BY <1>1, <1>2, SoundHolds, PTL DEF Spec

----------------------------------------------------------------------------
(* The replies to REQUEST_DOWNLOAD.                                        *)

(* As long as its file has not been replaced, a reply has written what the *)
(* file begins with, under a first line that is the file's.                *)
ReplySound(x) ==
    /\ x.pc = "headed" /\ ~x.replaced =>
          x.size = files[x.key].size /\ x.count = Len(files[x.key].chunks)
    /\ x.pc = "reading" /\ ~x.replaced =>
          /\ ~x.dangling
          /\ x.view = files[x.key].chunks
          /\ x.size = files[x.key].size /\ x.count = Len(x.view)
          /\ Len(x.lines) <= Len(x.view)
          /\ \A i \in 1 .. Len(x.lines) : x.lines[i] = x.view[i]

RepliesSound == \A w \in Workers : ReplySound(worker[w])

LEMMA ReplySteps ==
    ASSUME CatalogSound, RepliesSound, NEW w \in Workers, NEW x, Become(w, x), ReplySound(x),
           UNCHANGED files
    PROVE  RepliesSound'
<1>1. \A v \in Workers : worker'[v] = IF v = w THEN x ELSE worker[v]
  BY DEF CatalogSound, Become
<1>2. \A v \in Workers : ReplySound(worker'[v])
  BY <1>1 DEF RepliesSound
<1> QED
  BY <1>2 DEF RepliesSound, ReplySound

(* Another file may be registered: the entry pointed to stays as it is.    *)
LEMMA RegisterFileReplies ==
    ASSUME CatalogSound, CatalogTyped, RepliesSound, NEW w \in Workers, NEW name \in Names,
           NEW body \in Bodies, RegisterFile(w, name, body)
    PROVE  RepliesSound'
<1>1. PICK key, file : key = Sanitize[name] /\ file = FileOf(body)
  OBVIOUS
<1>2. /\ files' = [k \in DOMAIN files \cup {key} |-> IF k = key THEN file ELSE files[k]]
      /\ worker' = AfterAssignment(w, key)
  BY <1>1 DEF RegisterFile, With
<1>3. ASSUME NEW v \in Workers
      PROVE  ReplySound(worker[v])'
  <2>1. PICK old : old = worker[v]
    OBVIOUS
  <2>2. /\ RequestSound(old) /\ ReplySound(old)
    BY <2>1 DEF CatalogSound, RepliesSound
  <2>3. CASE worker'[v] = Stored
    BY <2>3 DEF Stored, ReplySound
  <2>4. CASE worker'[v] = old /\ (old.pc \in {"found", "headed", "reading"} => old.key # key)
    <3>1. old.pc \in {"headed", "reading"} => files'[old.key] = files[old.key]
      BY <1>2, <2>2, <2>4 DEF RequestSound
    <3> QED
      BY <2>2, <2>4, <3>1 DEF ReplySound
  <2>5. CASE /\ old.pc \in {"found", "headed", "reading"}
             /\ \/ old.pc = "reading" /\ worker'[v] = [old EXCEPT !.replaced = TRUE, !.dangling = TRUE]
                \/ worker'[v] = [old EXCEPT !.replaced = TRUE]
    <3>1. "replaced" \in DOMAIN old
      BY <2>2, <2>5 DEF RequestSound
    <3>2. PICK new : new = worker'[v]
      OBVIOUS
    <3>3. new.replaced = TRUE
      BY <2>5, <3>1, <3>2
    <3> QED
      BY <3>2, <3>3 DEF ReplySound
  <2> QED
    BY <1>2, <2>1, <2>3, <2>4, <2>5 DEF AfterAssignment, Pointing
<1> QED
  BY <1>3 DEF RepliesSound

LEMMA DownloadReplies ==
    ASSUME CatalogSound, CatalogTyped, RepliesSound, NEW w \in Workers,
           WriteHeader(w) \/ BeginChunks(w) \/ WriteChunk(w)
    PROVE  RepliesSound'
<1>1. /\ RequestSound(worker[w]) /\ ReplySound(worker[w]) /\ worker[w] \in WorkerState
  BY DEF CatalogSound, RepliesSound, CatalogTyped, TypeOK
<1>2. CASE WriteHeader(w)
  <2>1. PICK x : x = [pc |-> "headed", key |-> worker[w].key, replaced |-> worker[w].replaced,
                      size |-> files[worker[w].key].size,
                      count |-> Len(files[worker[w].key].chunks)]
    OBVIOUS
  <2>2. ReplySound(x)
    BY <2>1 DEF ReplySound
  <2> QED
    BY <1>2, <2>1, <2>2, ReplySteps DEF WriteHeader
<1>3. CASE BeginChunks(w)
  <2>1. PICK x : x = [pc |-> "reading", key |-> worker[w].key, replaced |-> worker[w].replaced,
                      size |-> worker[w].size, count |-> worker[w].count,
                      view |-> files[worker[w].key].chunks, lines |-> <<>>, dangling |-> FALSE]
    OBVIOUS
  <2>2. files[worker[w].key].chunks \in Seq(Chunk)
    BY <1>1, <1>3 DEF BeginChunks, RequestSound, CatalogTyped, TypeOK, File
  <2>3. Len(<<>>) = 0 /\ Len(files[worker[w].key].chunks) \in Nat
    BY <2>2
  <2>4. ReplySound(x)
    BY <1>1, <1>3, <2>1, <2>3 DEF BeginChunks, ReplySound
  <2> QED
    BY <1>3, <2>1, <2>4, ReplySteps DEF BeginChunks
<1>4. CASE WriteChunk(w)
  <2>1. PICK old, i : old = worker[w] /\ i = Len(worker[w].lines) + 1
    OBVIOUS
  <2>2. PICK line : /\ old.pc = "reading" /\ i \in DOMAIN old.view
                    /\ ~old.dangling => line = old.view[i]
                    /\ Become(w, [old EXCEPT !.lines = Append(@, line)])
    BY <1>4, <2>1 DEF WriteChunk
  <2>3. old \in Reading
    BY <1>1, <2>1, <2>2, StateIs
  <2>4. PICK lines, more : lines = old.lines /\ more = Append(lines, line)
    OBVIOUS
  <2>5. PICK x : x = [old EXCEPT !.lines = more]
    OBVIOUS
  <2>6. /\ x.pc = "reading" /\ x.replaced = old.replaced /\ x.dangling = old.dangling
        /\ x.view = old.view /\ x.size = old.size /\ x.count = old.count
        /\ x.key = old.key /\ x.lines = more
    BY <2>2, <2>3, <2>5 DEF Reading
  <2>7. lines \in Seq(Line) /\ old.view \in Seq(Chunk) /\ i = Len(lines) + 1
    BY <2>1, <2>3, <2>4 DEF Reading
  <2>8. /\ Len(more) = i /\ more[i] = line /\ i <= Len(old.view)
        /\ \A j \in 1 .. Len(lines) : more[j] = lines[j]
    <3>1. PICK S : S = Line \cup {line}
      OBVIOUS
    <3>2. lines \in Seq(S) /\ line \in S
      BY <2>7, <3>1
    <3> QED
      BY <2>2, <2>4, <2>7, <3>2
  <2>9. ReplySound(x)
    <3>1. SUFFICES ASSUME ~old.replaced
                   PROVE  /\ ~old.dangling /\ old.view = files[old.key].chunks
                          /\ old.size = files[old.key].size /\ old.count = Len(old.view)
                          /\ Len(more) <= Len(old.view)
                          /\ \A j \in 1 .. Len(more) : more[j] = old.view[j]
      BY <2>6 DEF ReplySound
    <3>2. /\ ~old.dangling /\ old.view = files[old.key].chunks
          /\ old.size = files[old.key].size /\ old.count = Len(old.view)
          /\ \A j \in 1 .. Len(lines) : lines[j] = old.view[j]
      BY <1>1, <2>1, <2>2, <2>4, <3>1 DEF ReplySound
    <3>3. line = old.view[i]
      BY <2>2, <3>2
    <3>4. ASSUME NEW j \in 1 .. Len(more) PROVE more[j] = old.view[j]
      <4>1. j = i \/ j \in 1 .. Len(lines)
        BY <2>7, <2>8
      <4> QED
        BY <2>8, <3>2, <3>3, <4>1
    <3> QED
      BY <2>8, <3>2, <3>4
  <2> QED
    BY <1>4, <2>2, <2>4, <2>5, <2>9, ReplySteps DEF WriteChunk
<1> QED
  BY <1>2, <1>3, <1>4

LEMMA OthersReply ==
    ASSUME CatalogSound, CatalogTyped, RepliesSound, NEW w \in Workers,
           \/ CountFiles(w) \/ SetTotalFiles(w) \/ SetTotalBytes(w)
           \/ \E name \in Names : GetFileMetadata(w, name)
           \/ SendChunks(w) \/ ListFiles(w) \/ SendFiles(w)
           \/ \E key \in Keys : WriteFile(w, key)
    PROVE  RepliesSound'
<1>1. UNCHANGED files
  BY DEF CountFiles, SetTotalFiles, SetTotalBytes, GetFileMetadata, SendChunks, ListFiles,
         SendFiles, WriteFile
<1>2. \E x : Become(w, x) /\ x.pc \notin {"headed", "reading"}
  <2>1. CASE \E key \in Keys : WriteFile(w, key)
    <3>1. PICK key \in Keys : WriteFile(w, key)
      BY <2>1
    <3>2. worker[w].pc = "listing" /\ DOMAIN worker[w] = {"pc", "count", "todo", "listed"}
      BY <3>1 DEF WriteFile, CatalogSound, RequestSound
    <3>3. PICK x : x = [worker[w] EXCEPT !.todo = @ \ {key},
                          !.listed = IF key \in DOMAIN files THEN @ \cup {key} ELSE @]
      OBVIOUS
    <3>4. x.pc = "listing"
      BY <3>2, <3>3
    <3> QED
      BY <3>1, <3>3, <3>4 DEF WriteFile
  <2>2. CASE CountFiles(w)
    BY <2>2 DEF CountFiles
  <2>3. CASE SetTotalFiles(w) \/ SetTotalBytes(w)
    BY <2>3 DEF SetTotalFiles, SetTotalBytes, Idle
  <2>4. CASE \E name \in Names : GetFileMetadata(w, name)
    BY <2>4 DEF GetFileMetadata
  <2>5. CASE SendChunks(w) \/ SendFiles(w)
    BY <2>5 DEF SendChunks, SendFiles, Idle
  <2>6. CASE ListFiles(w)
    BY <2>6 DEF ListFiles
  <2> QED
    BY <2>1, <2>2, <2>3, <2>4, <2>5, <2>6
<1> QED
  BY <1>1, <1>2, ReplySteps DEF ReplySound

LEMMA RepliesHold == Spec => []RepliesSound
<1>1. Init => RepliesSound
  BY DEF Init, Idle, RepliesSound, ReplySound
<1>2. CatalogSound /\ CatalogTyped /\ RepliesSound /\ [Next]_vars => RepliesSound'
  <2> SUFFICES ASSUME CatalogSound, CatalogTyped, RepliesSound, [Next]_vars PROVE RepliesSound'
    OBVIOUS
  <2>1. CASE UNCHANGED vars
    BY <2>1 DEF vars, RepliesSound, ReplySound
  <2>2. ASSUME NEW w \in Workers, Take(w) \/ Continue(w)
        PROVE  RepliesSound'
    BY <2>2, RegisterFileReplies, DownloadReplies, OthersReply DEF Take, Continue
  <2>3. CASE Crash
    BY <2>3 DEF Crash, Idle, RepliesSound, ReplySound
  <2> QED
    BY <2>1, <2>2, <2>3 DEF Next
<1> QED
  BY <1>1, <1>2, SoundHolds, TypedHolds, PTL DEF Spec

----------------------------------------------------------------------------

(* Every variable keeps its type: an upload of any lines leaves a file of  *)
(* chunks, and no count or size is lost on the way through the statistics. *)
THEOREM TypeCorrect == Spec => []TypeOK
<1>1. CatalogTyped => TypeOK
  BY DEF CatalogTyped
<1> QED
  BY TypedHolds, <1>1, PTL

(* The sort of RegisterFile loses no chunk and adds none, and what         *)
(* HandleUploadComplete skips is in no file.                               *)
THEOREM FilesAreWellFormed == Spec => []FilesWellFormed
<1>1. CatalogTyped => FilesWellFormed
  BY DEF CatalogTyped, WellFormed, FilesWellFormed
<1> QED
  BY TypedHolds, <1>1, PTL

(* Whatever other files are registered while a reply is written, and       *)
(* however often, the reply is the file that was asked for, unless that    *)
(* file itself was replaced: no pointer of another thread is made invalid. *)
THEOREM RepliesAreTheFile == Spec => []ReplyIsTheFile
<1>1. CatalogSound /\ CatalogTyped /\ RepliesSound => ReplyIsTheFile
  <2> SUFFICES ASSUME CatalogSound, CatalogTyped, RepliesSound,
                      NEW w \in Workers, ChunksWritten(w), ~worker[w].replaced
               PROVE  /\ worker[w].lines = files[worker[w].key].chunks
                      /\ worker[w].count = Len(worker[w].lines)
                      /\ worker[w].size = SumOfSizes(worker[w].lines)
    BY DEF ReplyIsTheFile
  <2>1. PICK x : x = worker[w]
    OBVIOUS
  <2>2. /\ x.pc = "reading" /\ Len(x.lines) = Len(x.view) /\ x.key \in DOMAIN files
        /\ x \in WorkerState /\ ReplySound(x)
    BY <2>1 DEF ChunksWritten, CatalogSound, RequestSound, CatalogTyped, TypeOK, RepliesSound
  <2>3. x \in Reading
    BY <2>2, StateIs
  <2>4. PICK lines, view : lines = x.lines /\ view = x.view
    OBVIOUS
  <2>5. lines \in Seq(Line) /\ view \in Seq(Chunk)
    BY <2>3, <2>4 DEF Reading
  <2>6. /\ view = files[x.key].chunks /\ x.size = files[x.key].size /\ x.count = Len(view)
        /\ \A i \in 1 .. Len(lines) : lines[i] = view[i]
    BY <2>1, <2>2, <2>4 DEF ReplySound
  <2>7. lines = view
    BY <2>2, <2>4, <2>5, <2>6
  <2>8. files[x.key].size = SumOfSizes(files[x.key].chunks)
    BY <2>2 DEF CatalogTyped, WellFormed
  <2> QED
    BY <2>1, <2>2, <2>4, <2>6, <2>7, <2>8
<1> QED
  BY SoundHolds, TypedHolds, RepliesHold, <1>1, PTL

(* However registrations overlap, the statistics claim no file that the    *)
(* catalogue does not have.                                                *)
THEOREM StatisticsAreNotAhead == Spec => []StatsNeverAhead
<1>1. CatalogSound => StatsNeverAhead
  BY DEF CatalogSound, FilesSound, RequestSound, StatsNeverAhead
<1> QED
  BY SoundHolds, <1>1, PTL

(* A listing that has been written has as many files as its first line     *)
(* says, whatever was registered in between.                               *)
THEOREM ListingsMatch == Spec => []ListingMatchesHeader
<1>1. CatalogSound => ListingMatchesHeader
  <2> SUFFICES ASSUME CatalogSound, NEW w \in Workers, FilesWritten(w)
               PROVE  Cardinality(worker[w].listed) = worker[w].count
    BY DEF ListingMatchesHeader
  <2>1. worker[w].todo \cup worker[w].listed = worker[w].listed
    BY DEF FilesWritten
  <2> QED
    BY <2>1 DEF FilesWritten, CatalogSound, RequestSound
<1> QED
  BY SoundHolds, <1>1, PTL
=============================================================================
