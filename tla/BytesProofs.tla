----------------------------- MODULE BytesProofs -----------------------------
(***************************************************************************)
(* Proofs about the operators of BufferBytes, for sizes, indices and       *)
(* sequences of any length.                                                *)
(*                                                                         *)
(* Where a definition is recursive, the proof goes by a counterexample of  *)
(* least size (LeastNatural).                                              *)
(***************************************************************************)
EXTENDS BufferBytes, SequenceTheorems, FiniteSetTheorems, FunctionTheorems,
        WellFoundedInduction, TLAPS

(* Numbers. *)

\* A set of numbers has a least one.
LEMMA LeastNatural ==
    ASSUME NEW S \in SUBSET Nat, S # {}
    PROVE  \E m \in S : \A x \in S : m <= x
<1> DEFINE R == OpToRel(<, Nat)
<1>1. \A x, y \in Nat : <<x, y>> \in R <=> x < y
  BY DEF OpToRel
<1>2. IsWellFoundedOn(R, Nat)
  BY NatLessThanWellFounded
<1> HIDE DEF R
<1>3. PICK m \in S : \A y \in S : ~(<<y, m>> \in R)
  BY <1>2, WFMin
<1>4. \A y \in S : ~(y < m)
  BY <1>1, <1>3
<1> QED
  BY <1>4

\* What a remainder is.
LEMMA RemainderIs ==
    ASSUME NEW n \in Nat \ {0}, NEW a \in Int
    PROVE  /\ a % n \in 0..(n - 1)
           /\ \E q \in Int : a = q * n + (a % n)
<1> DEFINE d == a \div n
           r == a % n
<1>1. d \in Int /\ r \in 0..(n - 1) /\ r = a - n * d
  OBVIOUS
<1> HIDE DEF d, r
<1>2. a = d * n + r
  BY <1>1
<1>3. r \in 0..(n - 1) /\ \E q \in Int : a = q * n + r
  BY <1>1, <1>2
<1> QED
  BY <1>3 DEF r

LEMMA RemainderUnique ==
    ASSUME NEW n \in Nat \ {0}, NEW q \in Int, NEW r \in 0..(n - 1)
    PROVE  (q * n + r) % n = r /\ (q * n + r) \div n = q
OBVIOUS

LEMMA RemainderSmall ==
    ASSUME NEW n \in Nat \ {0}, NEW a \in 0..(n - 1)
    PROVE  a % n = a
OBVIOUS

\* Remainders repeat after n numbers, and after any multiple of it.
LEMMA RemainderRepeats ==
    ASSUME NEW n \in Nat \ {0}, NEW a \in Int, NEW k \in Int
    PROVE  (a + k * n) % n = a % n
<1> DEFINE r == a % n
<1>1. PICK q \in Int : a = q * n + r
  BY RemainderIs
<1>2. r \in 0..(n - 1)
  BY RemainderIs
<1> HIDE DEF r
<1>3. a + k * n = (q + k) * n + r
  BY <1>1, <1>2
<1>4. q + k \in Int /\ r \in 0..(n - 1)
  BY <1>2
<1>5. ((q + k) * n + r) % n = r
  BY <1>4, RemainderUnique
<1> QED
  BY <1>3, <1>5 DEF r

LEMMA RemainderNext ==
    ASSUME NEW n \in Nat \ {0}, NEW a \in Int, NEW b \in Int, b = a + n
    PROVE  b % n = a % n
<1> DEFINE k == 1
<1>1. k \in Int
  OBVIOUS
<1> HIDE DEF k
<1>2. (a + k * n) % n = a % n
  BY <1>1, RemainderRepeats
<1>3. a + k * n = b
  BY DEF k
<1> QED
  BY <1>2, <1>3

\* So does the remainder by a multiple of n.
LEMMA RemainderOfDouble ==
    ASSUME NEW n \in Nat \ {0}, NEW a \in Int
    PROVE  (a % (2 * n)) % n = a % n
<1> DEFINE m == 2 * n
           r == a % m
<1>1. m \in Nat \ {0}
  OBVIOUS
<1> HIDE DEF m
<1>2. r \in 0..(m - 1) /\ \E q \in Int : a = q * m + r
  BY <1>1, RemainderIs
<1> HIDE DEF r
<1>5. PICK q \in Int : a = q * m + r
  BY <1>2
<1>3. a = r + (2 * q) * n
  BY <1>2, <1>5 DEF m
<1>4. 2 * q \in Int /\ r \in Int
  BY <1>2
<1>6. r % n = (r + (2 * q) * n) % n
  BY <1>4, RemainderRepeats
<1> QED
  BY <1>3, <1>6 DEF r, m

-----------------------------------------------------------------------------
(* Functions on 0..n that are defined by recursion. *)

\* Each value of f is the next one after the value before.
Follows(f, n, next) == \A i \in 1..n : f[i] = next[i][f[i - 1]]

\* There is one with a first value and a function from each value to the next.
LEMMA Recursion ==
    ASSUME NEW V, NEW first \in V, NEW n \in Nat, NEW next \in [1..n -> [V -> V]]
    PROVE  \E f \in [0..n -> V] :
              f[0] = first /\ Follows(f, n, next)
<1> DEFINE Begins(f, k) == f[0] = first /\ \A i \in 1..k : f[i] = next[i][f[i - 1]]
           bad == {k \in 0..n : ~ \E f \in [0..k -> V] : Begins(f, k)}
<1>1. ASSUME bad # {} PROVE FALSE
  <2>1. bad \in SUBSET Nat
    OBVIOUS
  <2> HIDE DEF bad
  <2>2. PICK k \in bad : \A j \in bad : k <= j
    BY <1>1, <2>1, LeastNatural
  <2>3. k \in 0..n /\ ~ \E f \in [0..k -> V] : Begins(f, k)
    BY DEF bad
  <2>4. CASE k = 0
    <3> DEFINE f == [i \in 0..k |-> first]
    <3>1. f \in [0..k -> V] /\ Begins(f, k)
      BY <2>4
    <3> QED
      BY <2>3, <3>1
  <2>5. CASE k # 0
    <3>1. k - 1 \in 0..n /\ k - 1 \notin bad /\ k \in 1..n
      BY <2>2, <2>3, <2>5
    <3>2. PICK f \in [0..(k - 1) -> V] : Begins(f, k - 1)
      BY <3>1 DEF bad
    <3> DEFINE last == next[k][f[k - 1]]
               g == [i \in 0..k |-> IF i = k THEN last ELSE f[i]]
    <3>3. k - 1 \in 0..(k - 1) /\ f[k - 1] \in V /\ next[k] \in [V -> V]
      BY <3>1, <3>2
    <3>4. last \in V
      BY <3>3
    <3> HIDE DEF last
    <3>5. g \in [0..k -> V]
      BY <3>1, <3>2, <3>4
    <3>6. g[0] = first
      BY <3>1, <3>2
    <3>7. ASSUME NEW i \in 1..k PROVE g[i] = next[i][g[i - 1]]
      <4>1. CASE i = k
        BY <3>1, <4>1 DEF last
      <4>2. CASE i # k
        <5>1. i \in 1..(k - 1) /\ i \in 0..k /\ i - 1 \in 0..k /\ i - 1 # k
          BY <3>1, <4>2
        <5> QED
          BY <3>2, <4>2, <5>1
      <4> QED
        BY <4>1, <4>2
    <3> HIDE DEF g
    <3> QED
      BY <2>3, <3>5, <3>6, <3>7
  <2> QED
    BY <2>4, <2>5
<1>2. n \in 0..n /\ n \notin bad
  BY <1>1
<1> QED
  BY <1>2 DEF Follows

\* A longer one begins like a shorter one.
LEMMA RecursionUnique ==
    ASSUME NEW n \in Nat, NEW m \in Nat, n <= m, NEW next, NEW f, NEW g,
           f[0] = g[0], Follows(f, n, next), Follows(g, m, next)
    PROVE  \A i \in 0..n : f[i] = g[i]
<1> DEFINE bad == {i \in 0..n : f[i] # g[i]}
<1> SUFFICES ASSUME bad # {} PROVE FALSE
  OBVIOUS
<1>1. bad \in SUBSET Nat
  OBVIOUS
<1> HIDE DEF bad
<1>2. PICK k \in bad : \A j \in bad : k <= j
  BY <1>1, LeastNatural
<1>3. k \in 0..n /\ f[k] # g[k]
  BY DEF bad
<1>4. k # 0 /\ k \in 1..n /\ k \in 1..m /\ k - 1 \in 0..n
  BY <1>3
<1>5. f[k - 1] = g[k - 1]
  <2>1. k - 1 \notin bad
    BY <1>2, <1>4
  <2> QED
    BY <1>4, <2>1 DEF bad
<1> QED
  BY <1>3, <1>4, <1>5 DEF Follows

-----------------------------------------------------------------------------
(* Powers. *)

\* Powers, as a function.
Powers(n) ==
    LET power[i \in 0..n] == IF i = 0 THEN 1 ELSE power[i - 1] * Base
    IN power

LEMMA PowersIs ==
    ASSUME NEW n \in Nat
    PROVE  /\ Powers(n) \in [0..n -> Nat \ {0}]
           /\ Powers(n)[0] = 1
           /\ \A i \in 1..n : Powers(n)[i] = Powers(n)[i - 1] * Base
<1> DEFINE V == Nat \ {0}
           times == [x \in V |-> x * Base]
           next == [i \in 1..n |-> times]
<1>1. next \in [1..n -> [V -> V]] /\ 1 \in V
  BY BytesAssumption
<1>2. \A i \in 1..n : \A x \in V : next[i][x] = x * Base
  OBVIOUS
<1> HIDE DEF next, V
<1>3. PICK f \in [0..n -> V] : f[0] = 1 /\ \A i \in 1..n : f[i] = next[i][f[i - 1]]
  BY <1>1, Recursion DEF Follows
<1>4. ASSUME NEW i \in 0..n PROVE f[i] = IF i = 0 THEN 1 ELSE f[i - 1] * Base
  <2>1. CASE i = 0
    BY <1>3, <2>1
  <2>2. CASE i # 0
    <3>1. i \in 1..n /\ i - 1 \in 0..n /\ f[i - 1] \in V
      BY <1>3, <2>2
    <3> QED
      BY <1>2, <1>3, <2>2, <3>1
  <2> QED
    BY <2>1, <2>2
<1>5. f = [i \in 0..n |-> IF i = 0 THEN 1 ELSE f[i - 1] * Base]
  BY <1>3, <1>4
<1> DEFINE g == Powers(n)
<1>6. g = [i \in 0..n |-> IF i = 0 THEN 1 ELSE g[i - 1] * Base]
  BY <1>5 DEF Powers
<1> HIDE DEF g
<1>7. g[0] = 1 /\ \A i \in 1..n : g[i] = g[i - 1] * Base
  <2>1. 0 \in 0..n /\ \A i \in 1..n : i \in 0..n /\ i # 0
    OBVIOUS
  <2>2. \A i \in 0..n : g[i] = IF i = 0 THEN 1 ELSE g[i - 1] * Base
    BY <1>6, Zenon
  <2> QED
    BY <2>1, <2>2
<1>8. \A i \in 0..n : g[i] \in V
  <2> DEFINE bad == {i \in 0..n : g[i] \notin V}
  <2> SUFFICES ASSUME bad # {} PROVE FALSE
    OBVIOUS
  <2>1. bad \in SUBSET Nat
    OBVIOUS
  <2> HIDE DEF bad
  <2>2. PICK k \in bad : \A j \in bad : k <= j
    BY <2>1, LeastNatural
  <2>3. k \in 0..n /\ g[k] \notin V
    BY DEF bad
  <2>4. k # 0 /\ k \in 1..n /\ k - 1 \in 0..n
    BY <1>1, <1>7, <2>3
  <2>5. g[k - 1] \in V
    BY <2>2, <2>4 DEF bad
  <2>6. g[k] = g[k - 1] * Base
    BY <1>7, <2>4
  <2> QED
    BY <2>3, <2>5, <2>6, BytesAssumption DEF V
<1>9. g \in [0..n -> V]
  BY <1>6, <1>8
<1> QED
  BY <1>7, <1>9 DEF V, g

LEMMA PowerIs ==
    /\ Power(0) = 1
    /\ \A n \in Nat : Power(n) \in Nat \ {0} /\ Power(n + 1) = Power(n) * Base
<1>1. \A n : Power(n) = Powers(n)[n]
  BY DEF Power, Powers
<1>2. Power(0) = 1
  BY <1>1, PowersIs
<1>3. ASSUME NEW n \in Nat PROVE Power(n) \in Nat \ {0} /\ Power(n + 1) = Power(n) * Base
  <2> DEFINE m == n + 1
             f == Powers(n)
             g == Powers(m)
             next == [i \in 1..m |-> [x \in Nat \ {0} |-> x * Base]]
  <2>1. n \in 0..n /\ m \in Nat /\ m \in 1..m /\ n <= m /\ m - 1 = n /\ n \in 0..m
    OBVIOUS
  <2>2. f \in [0..n -> Nat \ {0}] /\ f[0] = 1 /\ \A i \in 1..n : f[i] = f[i - 1] * Base
    BY PowersIs
  <2>3. g \in [0..m -> Nat \ {0}] /\ g[0] = 1 /\ \A i \in 1..m : g[i] = g[i - 1] * Base
    <3> HIDE DEF m
    <3> QED
      BY <2>1, PowersIs
  <2> HIDE DEF f, g
  <2>4. Follows(f, n, next)
    BY <2>2 DEF Follows
  <2>5. Follows(g, m, next)
    BY <2>3 DEF Follows
  <2> HIDE DEF next, m
  <2>8. f[0] = g[0]
    BY <2>2, <2>3
  <2>6. \A i \in 0..n : f[i] = g[i]
    BY <2>1, <2>4, <2>5, <2>8, RecursionUnique
  <2>7. g[m] = f[n] * Base /\ f[n] \in Nat \ {0}
    BY <2>1, <2>2, <2>3, <2>6
  <2> QED
    BY <1>1, <2>7 DEF f, g, m
<1> QED
  BY <1>2, <1>3

-----------------------------------------------------------------------------
(* Sequences. *)

\* n elements after the first p.
LEMMA SubSeqIs ==
    ASSUME NEW S, NEW u \in Seq(S), NEW p \in Nat, NEW n \in Nat, p + n <= Len(u)
    PROVE  /\ SubSeq(u, p + 1, p + n) \in Seq(S)
           /\ Len(SubSeq(u, p + 1, p + n)) = n
           /\ \A i \in 1..n : SubSeq(u, p + 1, p + n)[i] = u[p + i]
           /\ SubSeq(u, p + 1, p + n) = [i \in 1..n |-> u[p + i]]
<1> DEFINE w == SubSeq(u, p + 1, p + n)
<1>1. /\ w \in Seq(S) /\ Len(w) = n
      /\ \A i \in 1..n : w[i] = u[p + i]
  BY SMTT(30)
<1>2. w = [i \in 1..n |-> w[i]]
  <2> HIDE DEF w
  <2> QED
    BY <1>1
<1> HIDE DEF w
<1>3. w = [i \in 1..n |-> u[p + i]]
  BY <1>1, <1>2
<1> QED
  BY <1>1, <1>3 DEF w

-----------------------------------------------------------------------------
(* The pattern fill writes. *)

\* The numbers of times a value is repeated when it is doubled.
Doubling(p) == \A S \in SUBSET Nat : 1 \in S /\ (\A x \in S : 2 * x \in S) => p \in S

LEMMA DoublingIs ==
    /\ Doubling(1)
    /\ \A p \in Nat : Doubling(p) => Doubling(2 * p)
    /\ \A p : Doubling(p) => /\ p \in Nat \ {0}
                             /\ p = 1 \/ \E q \in Nat : Doubling(q) /\ p = 2 * q
<1>1. Doubling(1)
  BY DEF Doubling
<1>2. ASSUME NEW p \in Nat, Doubling(p) PROVE Doubling(2 * p)
  BY <1>2 DEF Doubling
<1>3. ASSUME NEW p, Doubling(p)
      PROVE  /\ p \in Nat \ {0}
             /\ p = 1 \/ \E q \in Nat : Doubling(q) /\ p = 2 * q
  <2> DEFINE S == {1} \cup {2 * q : q \in {q \in Nat \ {0} : Doubling(q)}}
  <2>1. S \in SUBSET (Nat \ {0})
    OBVIOUS
  <2>2. 1 \in S
    OBVIOUS
  <2>3. ASSUME NEW x \in S PROVE 2 * x \in S
    <3>1. x \in Nat \ {0} /\ Doubling(x)
      BY <1>1, <1>2, <2>3
    <3> QED
      BY <3>1
  <2>4. p \in S
    <3> HIDE DEF S
    <3> QED
      BY <1>3, <2>1, <2>2, <2>3 DEF Doubling
  <2> QED
    BY <2>1, <2>4
<1> QED
  BY <1>1, <1>2, <1>3

\* Where the doubling of a value of this size may stop.
Stops(size, length) ==
    {m \in Nat : /\ 2 * m >= length
                 /\ \E p \in Nat : /\ Doubling(p) /\ m = size * p
                                   /\ p = 1 \/ m < length}

LEMMA StopsStep ==
    ASSUME NEW size \in Nat, NEW length \in Nat
    PROVE  /\ 2 * size >= length => Stops(size, length) = {size}
           /\ 2 * size < length => Stops(size, length) = Stops(2 * size, length)
<1>1. ASSUME 2 * size >= length PROVE Stops(size, length) = {size}
  <2>1. size \in Stops(size, length)
    <3>1. Doubling(1) /\ 1 \in Nat /\ size = size * 1
      BY DoublingIs
    <3> QED
      BY <1>1, <3>1 DEF Stops
  <2>2. ASSUME NEW m \in Stops(size, length) PROVE m = size
    <3>1. PICK p \in Nat : Doubling(p) /\ m = size * p /\ (p = 1 \/ m < length)
      BY DEF Stops
    <3>2. CASE p = 1
      BY <3>1, <3>2
    <3>3. CASE p # 1
      <4>1. PICK q \in Nat : Doubling(q) /\ p = 2 * q
        BY <3>1, <3>3, DoublingIs
      <4>2. q >= 1
        BY <4>1, DoublingIs
      <4>3. m = (2 * size) * q
        BY <3>1, <4>1
      <4>4. m >= 2 * size
        BY <4>2, <4>3
      <4> QED
        BY <1>1, <3>1, <3>3, <4>4
    <3> QED
      BY <3>2, <3>3
  <2> QED
    BY <2>1, <2>2
<1>2. ASSUME 2 * size < length PROVE Stops(size, length) = Stops(2 * size, length)
  <2>1. ASSUME NEW m \in Stops(size, length) PROVE m \in Stops(2 * size, length)
    <3>1. PICK p \in Nat : Doubling(p) /\ m = size * p /\ (p = 1 \/ m < length)
      BY DEF Stops
    <3>2. m \in Nat /\ 2 * m >= length
      BY DEF Stops
    <3>3. p # 1
      BY <1>2, <3>1, <3>2
    <3>4. PICK q \in Nat : Doubling(q) /\ p = 2 * q
      BY <3>1, <3>3, DoublingIs
    <3>5. m = (2 * size) * q
      BY <3>1, <3>4
    <3> QED
      BY <3>1, <3>2, <3>3, <3>4, <3>5 DEF Stops
  <2>2. ASSUME NEW m \in Stops(2 * size, length) PROVE m \in Stops(size, length)
    <3>1. PICK q \in Nat : Doubling(q) /\ m = (2 * size) * q /\ (q = 1 \/ m < length)
      BY DEF Stops
    <3>2. m \in Nat /\ 2 * m >= length
      BY DEF Stops
    <3>3. m < length
      BY <1>2, <3>1
    <3>4. Doubling(2 * q) /\ 2 * q \in Nat /\ m = size * (2 * q)
      BY <3>1, DoublingIs
    <3> QED
      BY <3>2, <3>3, <3>4 DEF Stops
  <2> QED
    BY <2>1, <2>2
<1> QED
  BY <1>1, <1>2

\* One of those places.
StopOf(size, length) ==
    CHOOSE m \in Nat : m \in Stops(size, length) \/ Stops(size, length) = {}

LEMMA StopOfStep ==
    ASSUME NEW size \in Nat, NEW length \in Nat
    PROVE  /\ StopOf(size, length) \in Nat
           /\ 2 * size >= length => StopOf(size, length) = size
           /\ 2 * size < length => StopOf(size, length) = StopOf(2 * size, length)
<1>1. \E m \in Nat : m \in Stops(size, length) \/ Stops(size, length) = {}
  BY DEF Stops
<1>2. StopOf(size, length) \in Nat
  BY <1>1 DEF StopOf
<1>3. ASSUME 2 * size >= length PROVE StopOf(size, length) = size
  BY <1>1, <1>3, StopsStep DEF StopOf
<1>4. ASSUME 2 * size < length PROVE StopOf(size, length) = StopOf(2 * size, length)
  BY <1>4, StopsStep DEF StopOf
<1> QED
  BY <1>2, <1>3, <1>4

\* A value, over and over.
Repeated(value, length) == [i \in 1..length |-> value[((i - 1) % Len(value)) + 1]]

LEMMA RepeatedIsSeq ==
    ASSUME NEW value \in Seq(Byte), value # <<>>, NEW length \in Nat
    PROVE  Repeated(value, length) \in Seq(Byte) /\ Len(Repeated(value, length)) = length
<1>1. Len(value) \in Nat \ {0}
  OBVIOUS
<1>2. ASSUME NEW i \in 1..length
      PROVE  value[((i - 1) % Len(value)) + 1] \in Byte
  <2> DEFINE n == Len(value)
  <2>1. n \in Nat \ {0} /\ i - 1 \in Int
    BY <1>1
  <2> HIDE DEF n
  <2>2. (i - 1) % n \in 0..(n - 1)
    BY <2>1, RemainderIs
  <2> QED
    BY <1>1, <2>1, <2>2 DEF n
<1>3. Repeated(value, length) \in [1..length -> Byte]
  BY <1>2 DEF Repeated
<1> QED
  BY <1>3

LEMMA RepeatedOnce ==
    ASSUME NEW value \in Seq(Byte)
    PROVE  Repeated(value, Len(value)) = value
<1> DEFINE n == Len(value)
<1>1. ASSUME NEW i \in 1..n PROVE value[((i - 1) % n) + 1] = value[i]
  <2>1. n \in Nat \ {0} /\ i - 1 \in 0..(n - 1)
    OBVIOUS
  <2>2. (i - 1) % n = i - 1
    BY <2>1, RemainderSmall
  <2> QED
    BY <2>2
<1> QED
  BY <1>1 DEF Repeated

LEMMA TwiceAt ==
    ASSUME NEW value \in Seq(Byte), value # <<>>, NEW r \in 0..(2 * Len(value) - 1)
    PROVE  (value \o value)[r + 1] = value[(r % Len(value)) + 1]
<1> DEFINE n == Len(value)
<1>1. n \in Nat \ {0} /\ r \in 0..(2 * n - 1)
  OBVIOUS
<1>2. CASE r < n
  <2>1. r % n = r
    BY <1>1, <1>2, RemainderSmall
  <2> QED
    BY <1>1, <1>2, <2>1
<1>3. CASE r >= n
  <2> DEFINE rest == r - n
  <2>1. r % n = rest
    <3> HIDE DEF n
    <3>1. rest \in 0..(n - 1) /\ r = rest + n /\ r \in Int
      BY <1>1, <1>3
    <3> HIDE DEF rest
    <3>2. rest % n = rest
      BY <1>1, <3>1, RemainderSmall
    <3>3. rest \in Int
      BY <1>1, <3>1
    <3> QED
      BY <1>1, <3>1, <3>2, <3>3, RemainderNext
  <2>2. (value \o value)[r + 1] = value[(r + 1) - n]
    BY <1>1, <1>3
  <2> QED
    BY <2>1, <2>2
<1> QED
  BY <1>1, <1>2, <1>3

LEMMA RepeatedTwice ==
    ASSUME NEW value \in Seq(Byte), NEW length \in Nat
    PROVE  Repeated(value \o value, length) = Repeated(value, length)
<1>1. CASE value = <<>>
  <2>1. value \o value = value
    BY <1>1
  <2> QED
    BY <2>1
<1>2. CASE value # <<>>
  <2> DEFINE n == Len(value)
             twice == value \o value
  <2>1. n \in Nat \ {0} /\ Len(twice) = 2 * n
    BY <1>2
  <2>2. ASSUME NEW i \in 1..length
        PROVE  twice[((i - 1) % Len(twice)) + 1] = value[((i - 1) % n) + 1]
    <3> DEFINE r == (i - 1) % (2 * n)
    <3>1. 2 * n \in Nat \ {0} /\ i - 1 \in Int
      BY <2>1
    <3>2. r \in 0..(2 * n - 1)
      BY <3>1, RemainderIs
    <3>3. r % n = (i - 1) % n
      BY <2>1, <3>1, RemainderOfDouble
    <3> HIDE DEF r
    <3>4. twice[r + 1] = value[(r % n) + 1]
      BY <1>2, <3>2, TwiceAt
    <3> QED
      BY <2>1, <3>3, <3>4 DEF r
  <2> QED
    BY <2>2 DEF Repeated
<1> QED
  BY <1>1, <1>2

\* What fill doubles, until twice as much does not fit.
Doubled(length) ==
    LET doubled[written \in Seq(Byte)] ==
            IF Len(written) < length - Len(written)
            THEN doubled[written \o written] ELSE written
    IN doubled

LEMMA FillIs ==
    ASSUME NEW value, NEW length
    PROVE  FillPattern(value, length) =
             IF Len(value) >= length THEN SubSeq(value, 1, length)
             ELSE Doubled(length)[value] \o FillRest(Doubled(length)[value], length)
BY DEF FillPattern, Doubled

LEMMA DoubledIs ==
    ASSUME NEW length \in Nat
    PROVE  Doubled(length) = [written \in Seq(Byte) |->
             IF Len(written) < length - Len(written)
             THEN Doubled(length)[written \o written] ELSE written]
<1> DEFINE f == [written \in Seq(Byte) |-> Repeated(written, StopOf(Len(written), length))]
<1>1. ASSUME NEW written \in Seq(Byte)
      PROVE  f[written] = IF Len(written) < length - Len(written)
                          THEN f[written \o written] ELSE written
  <2> DEFINE n == Len(written)
  <2>1. /\ n \in Nat /\ written \o written \in Seq(Byte)
        /\ Len(written \o written) = 2 * n
    OBVIOUS
  <2>2. CASE 2 * n < length
    <3>1. StopOf(2 * n, length) = StopOf(n, length) /\ StopOf(n, length) \in Nat
      BY <2>1, <2>2, StopOfStep
    <3>2. Repeated(written \o written, StopOf(n, length)) = Repeated(written, StopOf(n, length))
      BY <3>1, RepeatedTwice
    <3> QED
      BY <2>1, <2>2, <3>1, <3>2
  <2>3. CASE 2 * n >= length
    <3>1. StopOf(n, length) = n
      BY <2>1, <2>3, StopOfStep
    <3>2. Repeated(written, n) = written
      BY RepeatedOnce
    <3> QED
      BY <2>1, <2>3, <3>1, <3>2
  <2> QED
    BY <2>1, <2>2, <2>3
<1>2. f = [written \in Seq(Byte) |-> IF Len(written) < length - Len(written)
                                     THEN f[written \o written] ELSE written]
  BY <1>1
<1> HIDE DEF f
<1>3. \E doubled : doubled = [written \in Seq(Byte) |->
             IF Len(written) < length - Len(written)
             THEN doubled[written \o written] ELSE written]
  BY <1>2
<1> QED
  BY <1>3 DEF Doubled

\* The value that is doubled stays a repetition of the first one.
LEMMA DoubledRepeats ==
    ASSUME NEW length \in Nat, NEW value \in Seq(Byte), value # <<>>, Len(value) < length
    PROVE  \E q \in Nat : LET most == q * Len(value) IN
              /\ Doubled(length)[value] = Repeated(value, most)
              /\ most <= length /\ length <= 2 * most
<1> DEFINE Repeats(v) == \E q \in Nat : LET most == q * Len(v) IN
                            /\ Doubled(length)[v] = Repeated(v, most)
                            /\ most <= length /\ length <= 2 * most
           Shorter == {v \in Seq(Byte) : v # <<>> /\ Len(v) < length}
           bad == {k \in Nat : \E v \in Shorter : k = length - Len(v) /\ ~Repeats(v)}
<1>1. ASSUME bad # {} PROVE FALSE
  <2>1. bad \in SUBSET Nat
    OBVIOUS
  <2> HIDE DEF bad
  <2>2. PICK k \in bad : \A j \in bad : k <= j
    BY <1>1, <2>1, LeastNatural
  <2>3. PICK v \in Shorter : k = length - Len(v) /\ ~Repeats(v)
    BY DEF bad
  <2> DEFINE n == Len(v)
             twice == v \o v
  <2>4. /\ v \in Seq(Byte) /\ n \in Nat \ {0} /\ n < length
        /\ twice \in Seq(Byte) /\ Len(twice) = 2 * n
    BY <2>3
  <2>5. CASE 2 * n < length
    <3>1. Doubled(length)[v] = Doubled(length)[twice]
      BY <2>4, <2>5, DoubledIs
    <3>2. twice \in Shorter /\ length - Len(twice) \in Nat /\ length - Len(twice) < k
      BY <2>3, <2>4, <2>5
    <3>3. length - Len(twice) \notin bad
      BY <2>1, <2>2, <3>2
    <3>4. Repeats(twice)
      BY <3>2, <3>3 DEF bad
    <3>5. PICK q \in Nat : /\ Doubled(length)[twice] = Repeated(twice, q * (2 * n))
                           /\ q * (2 * n) <= length /\ length <= 2 * (q * (2 * n))
      BY <2>4, <3>4
    <3>6. q * (2 * n) = (2 * q) * n /\ 2 * q \in Nat /\ q * (2 * n) \in Nat
      BY <2>4, <3>5
    <3>7. Doubled(length)[v] = Repeated(v, (2 * q) * n)
      BY <2>4, <3>1, <3>5, <3>6, RepeatedTwice
    <3>8. Repeats(v)
      BY <3>5, <3>6, <3>7
    <3> QED
      BY <2>3, <3>8
  <2>6. CASE 2 * n >= length
    <3>1. Doubled(length)[v] = v
      BY <2>4, <2>6, DoubledIs
    <3>2. Repeated(v, n) = v
      BY <2>4, RepeatedOnce
    <3>3. PICK q \in Nat : q * n = n
      <4>1. 1 * n = n
        BY <2>4
      <4> QED
        BY <4>1
    <3>5. /\ Doubled(length)[v] = Repeated(v, q * n)
          /\ q * n <= length /\ length <= 2 * (q * n)
      BY <2>4, <2>6, <3>1, <3>2, <3>3
    <3>4. Repeats(v)
      BY <3>5
    <3> QED
      BY <2>3, <3>4
  <2> QED
    BY <2>4, <2>5, <2>6
<1>2. Repeats(value)
  <2>1. value \in Shorter /\ length - Len(value) \in Nat
    OBVIOUS
  <2> QED
    BY <1>1, <2>1
<1> QED
  BY <1>2

\* fill writes the value over and over, from the start of the range to its end.
THEOREM FillPatternRepeats ==
    ASSUME NEW value \in Seq(Byte), value # <<>>, NEW length \in Nat
    PROVE  FillPattern(value, length) = Repeated(value, length)
<1> DEFINE n == Len(value)
<1>1. n \in Nat \ {0} /\ value = [i \in 1..n |-> value[i]]
  OBVIOUS
<1>2. CASE n >= length
  <2>1. FillPattern(value, length) = SubSeq(value, 1, length)
    BY <1>2, FillIs
  <2>2. SubSeq(value, 1, length) = [i \in 1..length |-> value[i]]
    BY <1>1, <1>2
  <2>3. ASSUME NEW i \in 1..length PROVE value[((i - 1) % n) + 1] = value[i]
    <3>1. i - 1 \in 0..(n - 1)
      BY <1>1, <1>2
    <3>2. (i - 1) % n = i - 1
      BY <1>1, <3>1, RemainderSmall
    <3> QED
      BY <3>2
  <2> QED
    BY <2>1, <2>2, <2>3 DEF Repeated
<1>3. CASE n < length
  <2>1. PICK q \in Nat : LET most == q * n IN
           /\ Doubled(length)[value] = Repeated(value, most)
           /\ most <= length /\ length <= 2 * most
    BY <1>1, <1>3, DoubledRepeats
  <2> DEFINE most == q * n
             first == Repeated(value, most)
             rest == SubSeq(first, 1, length - most)
  <2>2. most \in Nat /\ length - most \in 0..most
    BY <1>1, <2>1
  <2>3. first \in Seq(Byte) /\ Len(first) = most
    BY <2>2, RepeatedIsSeq
  <2>4. FillPattern(value, length) = first \o rest
    <3>1. ~(Len(value) >= length) /\ Doubled(length)[value] = first
      BY <1>1, <1>3, <2>1
    <3>2. FillPattern(value, length) = first \o FillRest(first, length)
      <4> HIDE DEF first
      <4> QED
        BY <3>1, FillIs
    <3>3. FillRest(first, length) = rest
      <4> HIDE DEF first
      <4> QED
        BY <2>3 DEF FillRest
    <3> QED
      BY <3>2, <3>3
  <2> HIDE DEF most
  <2>5. /\ rest \in Seq(Byte) /\ Len(rest) = length - most
        /\ \A i \in 1..(length - most) : rest[i] = first[i]
    <3> HIDE DEF first
    <3> QED
      BY <2>2, <2>3
  <2>6. ASSUME NEW i \in 1..length
        PROVE  (first \o rest)[i] = value[((i - 1) % n) + 1]
    <3>1. CASE i <= most
      <4>1. (first \o rest)[i] = first[i] /\ i \in 1..most
        <5> HIDE DEF first, rest
        <5> QED
          BY <2>2, <2>3, <2>5, <3>1
      <4> QED
        BY <4>1 DEF Repeated
    <3>2. CASE i > most
      <4> DEFINE j == i - most
      <4>1. j \in 1..(length - most) /\ j \in 1..most
        BY <2>2, <3>2
      <4>2. (first \o rest)[i] = rest[j]
        <5> HIDE DEF first, rest
        <5> QED
          BY <2>2, <2>3, <2>5, <3>2
      <4>3. rest[j] = first[j]
        BY <2>5, <4>1
      <4>4. first[j] = value[((j - 1) % n) + 1]
        BY <4>1 DEF Repeated
      <4>5. (j - 1) % n = (i - 1) % n
        <5> DEFINE a == j - 1
                   b == i - 1
        <5> HIDE DEF n
        <5>1. a \in Int /\ b = a + most
          BY <2>2, <4>1
        <5> HIDE DEF a, b
        <5>2. b = a + q * n /\ q \in Int
          BY <5>1 DEF most
        <5>3. (a + q * n) % n = a % n
          BY <1>1, <5>1, <5>2, RemainderRepeats
        <5>4. a % n = b % n
          BY <5>2, <5>3
        <5> QED
          BY <5>4 DEF a, b
      <4> QED
        BY <4>2, <4>3, <4>4, <4>5
    <3>3. i <= most \/ i > most
      BY <2>2
    <3> QED
      BY <3>1, <3>2, <3>3
  <2>7. /\ first \o rest \in Seq(Byte) /\ Len(first \o rest) = length
    <3> HIDE DEF first, rest
    <3> QED
      BY <2>2, <2>3, <2>5
  <2>8. first \o rest = [i \in 1..length |-> (first \o rest)[i]]
    <3> DEFINE all == first \o rest
    <3> HIDE DEF all
    <3> QED
      BY <2>7 DEF all
  <2> HIDE DEF first, rest
  <2>9. first \o rest = Repeated(value, length)
    BY <2>6, <2>8 DEF Repeated
  <2> QED
    BY <2>4, <2>9
<1> QED
  BY <1>1, <1>2, <1>3

-----------------------------------------------------------------------------
(* The digits of a number. *)

\* What a quotient is.
LEMMA QuotientIs ==
    ASSUME NEW n \in Nat \ {0}, NEW a \in Int
    PROVE  /\ a \div n \in Int
           /\ a % n \in 0..(n - 1)
           /\ a = (a \div n) * n + (a % n)
<1> DEFINE d == a \div n
           r == a % n
<1>1. d \in Int /\ r \in 0..(n - 1) /\ r = a - n * d
  OBVIOUS
<1> HIDE DEF d, r
<1>2. a = d * n + r
  BY <1>1
<1> QED
  BY <1>1, <1>2 DEF d, r

\* Multiplying keeps the order.
LEMMA TimesMonotone ==
    ASSUME NEW a \in Int, NEW b \in Int, NEW n \in Nat, a <= b
    PROVE  a * n <= b * n
<1>1. (b - a) \in Nat
  OBVIOUS
<1>2. \A x \in Nat : x * n \in Nat
  OBVIOUS
<1>3. (b - a) * n \in Nat
  BY <1>1, <1>2
<1>4. b * n = a * n + (b - a) * n
  OBVIOUS
<1> QED
  BY <1>3, <1>4

\* A quotient by a product.
LEMMA QuotientByProduct ==
    ASSUME NEW p \in Nat \ {0}, NEW b \in Nat \ {0}, NEW v \in Int
    PROVE  v \div (p * b) = (v \div p) \div b
<1> DEFINE a == v \div p
           s == v % p
           c == a \div b
           d == a % b
           q == p * b
           r == d * p + s
<1>1. a \in Int /\ s \in 0..(p - 1) /\ v = a * p + s
  BY QuotientIs
<1> HIDE DEF a, s
<1>2. c \in Int /\ d \in 0..(b - 1) /\ a = c * b + d
  BY <1>1, QuotientIs
<1> HIDE DEF c, d
<1>3. q \in Nat \ {0}
  BY DEF q
<1>4. v = c * q + r
  <2>1. (c * b + d) * p = (c * b) * p + d * p
    BY <1>2
  <2>2. (c * b) * p = c * (p * b)
    BY <1>2
  <2> QED
    BY <1>1, <1>2, <2>1, <2>2
<1>5. r \in 0..(q - 1)
  <2>1. d * p <= (b - 1) * p
    BY <1>2, TimesMonotone
  <2>2. (b - 1) * p = p * b - p
    OBVIOUS
  <2>3. d * p \in Nat
    BY <1>2
  <2> DEFINE x == d * p
             y == p * b
  <2>4. x \in Nat /\ y \in Nat /\ x <= y - p
    BY <2>1, <2>2, <2>3
  <2> HIDE DEF x, y
  <2>5. x + s \in 0..(y - 1)
    BY <1>1, <2>4
  <2> QED
    BY <2>5 DEF x, y
<1> HIDE DEF q, r
<1>6. (c * q + r) \div q = c
  BY <1>2, <1>3, <1>5, RemainderUnique
<1> QED
  BY <1>4, <1>6 DEF q, c, a

\* The last digit of what is left of a number.
LEMMA DigitIs ==
    ASSUME NEW v \in Int, NEW n \in Nat
    PROVE  /\ v \div Power(n) \in Int
           /\ Digit(v, n) \in Byte
           /\ v \div Power(n) = (v \div Power(n + 1)) * Base + Digit(v, n)
<1> DEFINE p == Power(n)
           a == v \div p
<1>1. p \in Nat \ {0} /\ Power(n + 1) = p * Base /\ Base \in Nat \ {0}
  BY PowerIs, BytesAssumption
<1> HIDE DEF p
<1>2. v \div Power(n + 1) = a \div Base
  <2> DEFINE q == p * Base
  <2>1. v \div q = (v \div p) \div Base
    BY <1>1, QuotientByProduct
  <2>2. Power(n + 1) = q
    BY <1>1
  <2> HIDE DEF q
  <2> QED
    BY <2>1, <2>2
<1>3. a \in Int
  BY <1>1, QuotientIs
<1>4. Digit(v, n) = a % Base
  BY DEF Digit, p
<1> HIDE DEF a
<1>5. a % Base \in 0..(Base - 1) /\ a = (a \div Base) * Base + (a % Base)
  BY <1>1, <1>3, QuotientIs
<1> QED
  BY <1>2, <1>3, <1>4, <1>5 DEF a, p, Byte

-----------------------------------------------------------------------------
(* Integers. *)

\* The values decoded from the first bytes.
Values(bytes, little) ==
    LET width == Len(bytes)
        value[n \in 0..width] ==
            IF n = 0 THEN 0
            ELSE value[n - 1] * Base + bytes[IF little THEN width - n + 1 ELSE n]
    IN value

LEMMA DecodeIs ==
    ASSUME NEW bytes, NEW signed, NEW little
    PROVE  Decode(bytes, signed, little)
           = AsType(Values(bytes, little)[Len(bytes)], Len(bytes), signed)
BY DEF Decode, Values

\* A function defined by recursion exists and is as it is defined.
LEMMA ValuesIs ==
    ASSUME NEW bytes \in Seq(Byte), NEW little \in BOOLEAN
    PROVE  LET width == Len(bytes)  value == Values(bytes, little) IN
           /\ value[0] = 0
           /\ \A n \in 1..width :
                 value[n] = value[n - 1] * Base
                            + bytes[IF little THEN width - n + 1 ELSE n]
<1> DEFINE width == Len(bytes)
           digit == [n \in 1..width |-> bytes[IF little THEN width - n + 1 ELSE n]]
           next == [n \in 1..width |-> [x \in Int |-> x * Base + digit[n]]]
<1>1. width \in Nat
  OBVIOUS
<1>2. digit \in [1..width -> Int]
  <2>1. ASSUME NEW n \in 1..width
        PROVE  bytes[IF little THEN width - n + 1 ELSE n] \in Int
    <3>1. (IF little THEN width - n + 1 ELSE n) \in 1..Len(bytes)
      BY <1>1
    <3> HIDE DEF width
    <3>2. \A i \in 1..Len(bytes) : bytes[i] \in Byte
      OBVIOUS
    <3> QED
      BY <3>1, <3>2 DEF Byte
  <2> QED
    BY <2>1
<1>3. \A n \in 1..width : digit[n] = bytes[IF little THEN width - n + 1 ELSE n]
  OBVIOUS
<1> HIDE DEF width, digit
<1>4. next \in [1..width -> [Int -> Int]] /\ 0 \in Int
  BY <1>2, BytesAssumption
<1>5. \A n \in 1..width : \A x \in Int : next[n][x] = x * Base + digit[n]
  OBVIOUS
<1> HIDE DEF next
<1>6. PICK f \in [0..width -> Int] : f[0] = 0 /\ Follows(f, width, next)
  BY <1>1, <1>4, Recursion
<1> DEFINE Step(f1, n) == IF n = 0 THEN 0
                         ELSE f1[n - 1] * Base
                              + bytes[IF little THEN width - n + 1 ELSE n]
<1>7. ASSUME NEW n \in 0..width PROVE f[n] = Step(f, n)
  <2>1. CASE n = 0
    BY <1>6, <2>1
  <2>2. CASE n # 0
    <3>1. n \in 1..width /\ n - 1 \in 0..width /\ f[n - 1] \in Int
      BY <1>1, <1>6, <2>2
    <3>2. f[n] = next[n][f[n - 1]]
      BY <1>6, <3>1 DEF Follows
    <3>3. f[n] = f[n - 1] * Base + digit[n]
      BY <1>5, <3>1, <3>2
    <3> QED
      BY <1>3, <2>2, <3>1, <3>3
  <2> QED
    BY <2>1, <2>2
<1>8. f = [n \in 0..width |-> Step(f, n)]
  BY <1>6, <1>7
<1> DEFINE g == Values(bytes, little)
<1>9. g = [n \in 0..width |-> Step(g, n)]
  BY <1>8 DEF Values, width
<1> HIDE DEF g
<1>10. \A n \in 0..width : g[n] = Step(g, n)
  BY <1>9, Zenon
<1>11. 0 \in 0..width /\ \A n \in 1..width : n \in 0..width /\ n # 0
  BY <1>1
<1> QED
  BY <1>10, <1>11 DEF g, width

\* Decoding what was encoded gives the number modulo the values of the type: after n
\* bytes, the value is the number without its last digits and without the multiples of
\* the values of the type.
LEMMA EncodeIs ==
    ASSUME NEW v \in Int, NEW width \in Nat, NEW little \in BOOLEAN
    PROVE  /\ Encode(v, width, little) \in Seq(Byte)
           /\ Len(Encode(v, width, little)) = width
           /\ \A n \in 1..width :
                 Encode(v, width, little)[IF little THEN width - n + 1 ELSE n]
                 = Digit(v, width - n)
<1> DEFINE e == [i \in 1..width |-> Digit(v, IF little THEN i - 1 ELSE width - i)]
<1>1. ASSUME NEW i \in 1..width
      PROVE  Digit(v, IF little THEN i - 1 ELSE width - i) \in Byte
  <2>1. (IF little THEN i - 1 ELSE width - i) \in Nat
    OBVIOUS
  <2> QED
    BY <2>1, DigitIs
<1>2. e \in [1..width -> Byte]
  BY <1>1
<1>3. e \in Seq(Byte) /\ Len(e) = width
  BY <1>2
<1>4. ASSUME NEW n \in 1..width
      PROVE  e[IF little THEN width - n + 1 ELSE n] = Digit(v, width - n)
  <2>1. CASE little
    <3> DEFINE i == width - n + 1
    <3>1. i \in 1..width /\ i - 1 = width - n
      OBVIOUS
    <3> HIDE DEF i
    <3>2. e[i] = Digit(v, width - n)
      BY <2>1, <3>1
    <3> QED
      BY <2>1, <3>2 DEF i
  <2>2. CASE ~little
    BY <2>2
  <2> QED
    BY <2>1, <2>2
<1> QED
  BY <1>3, <1>4 DEF Encode

LEMMA DecodeEncode ==
    ASSUME NEW v \in Int, NEW width \in Nat, NEW little \in BOOLEAN, NEW signed
    PROVE  Decode(Encode(v, width, little), signed, little)
           = AsType(v % Power(width), width, signed)
<1> DEFINE bytes == Encode(v, width, little)
           value == Values(bytes, little)
           rest == [n \in 0..width |-> v \div Power(width - n)]
           high == v \div Power(width)
           Right(n) == value[n] = rest[n] - Power(n) * high
           bad == {n \in 0..width : ~Right(n)}
<1>1. bytes \in Seq(Byte) /\ Len(bytes) = width
  BY EncodeIs
<1>2. \A n \in 1..width : bytes[IF little THEN width - n + 1 ELSE n] = Digit(v, width - n)
  BY EncodeIs
<1> HIDE DEF bytes
<1>3. value[0] = 0 /\ \A n \in 1..width : value[n] = value[n - 1] * Base + Digit(v, width - n)
  BY <1>1, <1>2, ValuesIs
<1> HIDE DEF value
<1>4. high \in Int
  BY DigitIs
<1>5. ASSUME NEW n \in 0..width
      PROVE  /\ rest[n] \in Int
             /\ n # 0 => rest[n] = rest[n - 1] * Base + Digit(v, width - n)
  <2>1. width - n \in Nat
    OBVIOUS
  <2>2. rest[n] \in Int
    BY <2>1, DigitIs
  <2>3. ASSUME n # 0 PROVE rest[n] = rest[n - 1] * Base + Digit(v, width - n)
    <3> DEFINE k == width - n
    <3>1. k \in Nat /\ k + 1 = width - (n - 1) /\ n - 1 \in 0..width
      BY <2>3
    <3>2. rest[n] = v \div Power(k) /\ rest[n - 1] = v \div Power(k + 1)
      BY <3>1
    <3> HIDE DEF k, rest
    <3>3. v \div Power(k) = (v \div Power(k + 1)) * Base + Digit(v, k)
      BY <3>1, DigitIs
    <3> QED
      BY <3>2, <3>3 DEF k
  <2> QED
    BY <2>2, <2>3
<1>6. rest[0] = high /\ rest[width] = v \div Power(0)
  OBVIOUS
<1> HIDE DEF rest, high
<1>7. bad = {}
  <2> SUFFICES ASSUME bad # {} PROVE FALSE
    OBVIOUS
  <2>1. bad \in SUBSET Nat
    OBVIOUS
  <2> HIDE DEF bad
  <2>2. PICK n \in bad : \A j \in bad : n <= j
    BY <2>1, LeastNatural
  <2>3. n \in 0..width /\ ~Right(n)
    BY DEF bad
  <2>4. n # 0
    BY <1>3, <1>4, <1>6, <2>3, PowerIs
  <2> DEFINE m == n - 1
             d == Digit(v, width - n)
             p == Power(m)
  <2>5. m \in 0..width /\ m \in Nat /\ m + 1 = n /\ n \in 1..width /\ Right(m)
    <3>1. n - 1 \in 0..width /\ ~(n <= n - 1)
      BY <2>3, <2>4
    <3>2. n - 1 \notin bad
      BY <2>2, <3>1
    <3> QED
      BY <2>3, <2>4, <3>1, <3>2 DEF bad
  <2>6. value[n] = value[m] * Base + d
    BY <1>3, <2>5
  <2>7. d \in Int
    BY <2>5, DigitIs DEF Byte
  <2> HIDE DEF m
  <2>8. p \in Nat /\ Power(n) = p * Base
    BY <2>5, PowerIs
  <2>9. rest[m] \in Int /\ rest[n] = rest[m] * Base + d
    BY <1>5, <2>4, <2>5 DEF m
  <2> HIDE DEF d, p
  <2>10. value[m] = rest[m] - p * high
    BY <2>5 DEF p
  <2> DEFINE r == rest[m]
             h == high
  <2>11. (r - p * h) * Base + d = (r * Base + d) - (p * Base) * h
    BY <1>4, <2>7, <2>8, <2>9, BytesAssumption
  <2>12. value[n] = rest[n] - Power(n) * high
    BY <2>6, <2>8, <2>9, <2>10, <2>11
  <2> QED
    BY <2>3, <2>12
<1>8. value[width] = v % Power(width)
  <2>1. width \in 0..width /\ width \notin bad
    BY <1>7
  <2>2. value[width] = v \div Power(0) - Power(width) * high
    BY <1>6, <2>1
  <2> DEFINE p == Power(width)
             r == v % p
  <2>3. p \in Nat \ {0} /\ Power(0) = 1
    BY PowerIs
  <2> HIDE DEF p
  <2>4. r \in Int /\ v = high * p + r
    <3>1. v % p \in 0..(p - 1) /\ v = (v \div p) * p + (v % p)
      BY <2>3, QuotientIs
    <3>2. high = v \div p
      BY DEF high, p
    <3> QED
      BY <2>3, <3>1, <3>2
  <2>5. v \div Power(0) = v
    BY <2>3
  <2> HIDE DEF r
  <2>6. high * p = p * high
    BY <1>4, <2>3
  <2>7. value[width] = v - p * high
    BY <2>2, <2>5 DEF p
  <2>8. p * high \in Int
    BY <1>4, <2>3
  <2>9. value[width] = r
    BY <2>4, <2>6, <2>7, <2>8
  <2> QED
    BY <2>9 DEF r, p
<1> QED
  BY <1>1, <1>8, DecodeIs DEF bytes, value

-----------------------------------------------------------------------------
(* The order of strings. *)

LEMMA BytesAt ==
    ASSUME NEW a \in Seq(Byte)
    PROVE  \A i \in 1..Len(a) : a[i] \in Int
<1>1. \A i \in 1..Len(a) : a[i] \in Byte
  OBVIOUS
<1> QED
  BY <1>1 DEF Byte

\* a comes before b: where they first differ, a ends or has the smaller byte.
Before(a, b) ==
    \E i \in 1..Len(b) :
       /\ i <= Len(a) + 1
       /\ \A j \in 1..i - 1 : a[j] = b[j]
       /\ i <= Len(a) => a[i] < b[i]

LEMMA CompareIs ==
    ASSUME NEW a \in Seq(Byte), NEW b \in Seq(Byte)
    PROVE  \/ Compare(a, b) = -1 /\ Before(a, b)
           \/ Compare(a, b) = 0 /\ a = b
           \/ Compare(a, b) = 1 /\ Before(b, a)
<1> DEFINE least == Least(Len(a), Len(b))
           differ == {i \in 1..least : a[i] # b[i]}
           first == CHOOSE i \in differ : \A j \in differ : i <= j
<1>1. least \in Nat /\ least <= Len(a) /\ least <= Len(b)
      /\ (least = Len(a) \/ least = Len(b))
  BY DEF Least
<1>2. \A i \in 1..Len(a) : a[i] \in Int
  BY BytesAt
<1>3. \A i \in 1..Len(b) : b[i] \in Int
  BY BytesAt
<1>4. CASE differ # {}
  <2>1. differ \in SUBSET Nat
    BY <1>1
  <2> HIDE DEF differ
  <2>2. \E i \in differ : \A j \in differ : i <= j
    BY <1>4, <2>1, LeastNatural
  <2>3. first \in differ /\ \A j \in differ : first <= j
    BY <2>2
  <2>4. Compare(a, b) = IF a[first] > b[first] THEN 1 ELSE -1
    BY <1>4 DEF Compare, differ, least
  <2> HIDE DEF first
  <2>5. first \in 1..least /\ a[first] # b[first]
    BY <2>3 DEF differ
  <2>6. \A j \in 1..first - 1 : a[j] = b[j]
    <3> TAKE j \in 1..first - 1
    <3>1. j \in 1..least /\ ~(first <= j)
      BY <1>1, <2>5
    <3>2. j \notin differ
      BY <2>3, <3>1
    <3> QED
      BY <3>1, <3>2 DEF differ
  <2>7. first \in 1..Len(a) /\ first \in 1..Len(b)
    BY <1>1, <2>5
  <2>8. CASE a[first] > b[first]
    <3>1. Before(b, a)
      BY <2>6, <2>7, <2>8 DEF Before
    <3> QED
      BY <2>4, <2>8, <3>1
  <2>9. CASE ~(a[first] > b[first])
    <3>1. a[first] < b[first]
      BY <1>2, <1>3, <2>5, <2>7, <2>9
    <3>2. Before(a, b)
      BY <2>6, <2>7, <3>1 DEF Before
    <3> QED
      BY <2>4, <2>9, <3>2
  <2> QED
    BY <2>8, <2>9
<1>5. CASE differ = {}
  <2>1. \A i \in 1..least : a[i] = b[i]
    BY <1>5
  <2>2. Compare(a, b) = IF Len(a) > Len(b) THEN 1 ELSE IF Len(a) < Len(b) THEN -1 ELSE 0
    BY <1>5 DEF Compare, differ, least
  <2> HIDE DEF least
  <2>3. CASE Len(a) = Len(b)
    <3>1. a = b
      BY <1>1, <2>1, <2>3
    <3> QED
      BY <2>2, <2>3, <3>1
  <2>4. CASE Len(a) > Len(b)
    <3> DEFINE i == Len(b) + 1
    <3>1. i \in 1..Len(a) /\ i <= Len(b) + 1 /\ ~(i <= Len(b))
          /\ \A j \in 1..i - 1 : b[j] = a[j]
      BY <1>1, <2>1, <2>4
    <3>2. Before(b, a)
      BY <3>1 DEF Before
    <3> QED
      BY <2>2, <2>4, <3>2
  <2>5. CASE Len(a) < Len(b)
    <3> DEFINE i == Len(a) + 1
    <3>1. i \in 1..Len(b) /\ i <= Len(a) + 1 /\ ~(i <= Len(a))
          /\ \A j \in 1..i - 1 : a[j] = b[j]
      BY <1>1, <2>1, <2>5
    <3>2. Before(a, b)
      BY <3>1 DEF Before
    <3> QED
      BY <2>2, <2>5, <3>2
  <2> QED
    BY <2>3, <2>4, <2>5
<1> QED
  BY <1>4, <1>5

LEMMA BeforeAsymmetric ==
    ASSUME NEW a \in Seq(Byte), NEW b \in Seq(Byte), Before(a, b)
    PROVE  ~Before(b, a) /\ a # b
<1>1. \A i \in 1..Len(a) : a[i] \in Int
  BY BytesAt
<1>2. \A i \in 1..Len(b) : b[i] \in Int
  BY BytesAt
<1>3. PICK i \in 1..Len(b) : /\ i <= Len(a) + 1
                             /\ \A j \in 1..i - 1 : a[j] = b[j]
                             /\ i <= Len(a) => a[i] < b[i]
  BY DEF Before
<1>4. ASSUME Before(b, a) PROVE FALSE
  <2>1. PICK k \in 1..Len(a) : /\ k <= Len(b) + 1
                               /\ \A j \in 1..k - 1 : b[j] = a[j]
                               /\ k <= Len(b) => b[k] < a[k]
    BY <1>4 DEF Before
  <2>2. CASE i < k
    <3>1. i \in 1..k - 1 /\ i <= Len(a) /\ i \in 1..Len(a)
      BY <2>2
    <3> QED
      BY <1>1, <1>2, <1>3, <2>1, <3>1
  <2>3. CASE k < i
    <3>1. k \in 1..i - 1 /\ k <= Len(b) /\ k \in 1..Len(b)
      BY <2>3
    <3> QED
      BY <1>1, <1>2, <1>3, <2>1, <3>1
  <2>4. CASE i = k
    BY <1>1, <1>2, <1>3, <2>1, <2>4
  <2> QED
    BY <2>2, <2>3, <2>4
<1>5. ASSUME a = b PROVE FALSE
  BY <1>4, <1>5
<1> QED
  BY <1>4, <1>5

LEMMA BeforeTransitive ==
    ASSUME NEW a \in Seq(Byte), NEW b \in Seq(Byte), NEW c \in Seq(Byte),
           Before(a, b), Before(b, c)
    PROVE  Before(a, c)
<1>1. /\ \A i \in 1..Len(a) : a[i] \in Int
      /\ \A i \in 1..Len(b) : b[i] \in Int
      /\ \A i \in 1..Len(c) : c[i] \in Int
  BY BytesAt
<1>2. PICK i \in 1..Len(b) : /\ i <= Len(a) + 1
                             /\ \A j \in 1..i - 1 : a[j] = b[j]
                             /\ i <= Len(a) => a[i] < b[i]
  BY DEF Before
<1>3. PICK k \in 1..Len(c) : /\ k <= Len(b) + 1
                             /\ \A j \in 1..k - 1 : b[j] = c[j]
                             /\ k <= Len(b) => b[k] < c[k]
  BY DEF Before
<1>4. CASE i <= k
  <2>1. i \in 1..Len(c) /\ \A j \in 1..i - 1 : a[j] = c[j]
    <3>1. \A j \in 1..i - 1 : j \in 1..k - 1
      BY <1>4
    <3> QED
      BY <1>2, <1>3, <1>4, <3>1
  <2>2. ASSUME i <= Len(a) PROVE a[i] < c[i]
    <3>1. i \in 1..Len(a) /\ i \in 1..Len(c) /\ a[i] < b[i]
      BY <1>2, <2>1, <2>2
    <3>2. CASE i = k
      BY <1>1, <1>2, <1>3, <3>1, <3>2
    <3>3. CASE i < k
      <4>1. b[i] = c[i]
        BY <1>3, <3>3
      <4> QED
        BY <3>1, <4>1
    <3> QED
      BY <1>4, <3>2, <3>3
  <2> QED
    BY <1>2, <2>1, <2>2 DEF Before
<1>5. CASE k < i
  <2>1. /\ k \in 1..Len(b) /\ k \in 1..Len(a) /\ k <= Len(a) + 1
        /\ a[k] = b[k] /\ b[k] < c[k]
    BY <1>2, <1>3, <1>5
  <2>2. \A j \in 1..k - 1 : a[j] = c[j]
    <3>1. \A j \in 1..k - 1 : j \in 1..i - 1
      BY <1>5
    <3> QED
      BY <1>2, <1>3, <3>1
  <2> QED
    BY <2>1, <2>2 DEF Before
<1> QED
  BY <1>4, <1>5

\* compare is an order.
LEMMA CompareOrders ==
    ASSUME NEW a \in Seq(Byte), NEW b \in Seq(Byte), NEW c \in Seq(Byte)
    PROVE  /\ Compare(a, b) = - Compare(b, a)
           /\ Compare(a, b) = 0 <=> a = b
           /\ Compare(a, b) <= 0 /\ Compare(b, c) <= 0 => Compare(a, c) <= 0
<1>1. /\ ~(Before(a, b) /\ Before(b, a)) /\ ~(Before(a, c) /\ Before(c, a))
      /\ (a = b => ~Before(a, b) /\ ~Before(b, a))
      /\ (a = c => ~Before(a, c) /\ ~Before(c, a))
  BY BeforeAsymmetric
<1>2. Before(a, b) /\ Before(b, c) => Before(a, c)
  BY BeforeTransitive
<1>3. \/ Compare(a, b) = -1 /\ Before(a, b)
      \/ Compare(a, b) = 0 /\ a = b
      \/ Compare(a, b) = 1 /\ Before(b, a)
  BY CompareIs
<1>4. \/ Compare(b, a) = -1 /\ Before(b, a)
      \/ Compare(b, a) = 0 /\ a = b
      \/ Compare(b, a) = 1 /\ Before(a, b)
  BY CompareIs
<1>5. \/ Compare(b, c) = -1 /\ Before(b, c)
      \/ Compare(b, c) = 0 /\ b = c
      \/ Compare(b, c) = 1 /\ Before(c, b)
  BY CompareIs
<1>6. \/ Compare(a, c) = -1 /\ Before(a, c)
      \/ Compare(a, c) = 0 /\ a = c
      \/ Compare(a, c) = 1 /\ Before(c, a)
  BY CompareIs
<1>7. Compare(a, b) = - Compare(b, a)
  BY <1>1, <1>3, <1>4
<1>8. Compare(a, b) = 0 <=> a = b
  BY <1>1, <1>3
<1>9. ASSUME Compare(a, b) <= 0, Compare(b, c) <= 0 PROVE Compare(a, c) <= 0
  <2>1. (Before(a, b) \/ a = b) /\ (Before(b, c) \/ b = c)
    BY <1>3, <1>5, <1>9
  <2>2. Before(a, c) \/ a = c
    BY <1>2, <2>1
  <2>3. ~Before(c, a)
    BY <1>1, <2>2
  <2> QED
    BY <1>6, <2>3
<1> QED
  BY <1>7, <1>8, <1>9

-----------------------------------------------------------------------------
(* Characters. *)

\* The sizes of the first characters together.
SizesOf(chars) ==
    LET size[n \in 0..Len(chars)] ==
            IF n = 0 THEN 0 ELSE size[n - 1] + Len(chars[n])
    IN size

LEMMA SizesAre ==
    ASSUME NEW S, NEW chars \in Seq(Seq(S))
    PROVE  LET size == SizesOf(chars) IN
           /\ size[0] = 0
           /\ \A n \in 0..Len(chars) : size[n] \in Nat
           /\ \A n \in 1..Len(chars) : size[n] = size[n - 1] + Len(chars[n])
<1> DEFINE all == Len(chars)
           next == [n \in 1..all |-> [x \in Nat |-> x + Len(chars[n])]]
           Step(f, n) == IF n = 0 THEN 0 ELSE f[n - 1] + Len(chars[n])
<1>1. all \in Nat /\ \A n \in 1..all : Len(chars[n]) \in Nat
  <2>1. \A n \in 1..Len(chars) : chars[n] \in Seq(S)
    OBVIOUS
  <2> QED
    BY <2>1
<1> HIDE DEF all
<1>2. next \in [1..all -> [Nat -> Nat]] /\ 0 \in Nat
  BY <1>1
<1>3. \A n \in 1..all : \A x \in Nat : next[n][x] = x + Len(chars[n])
  OBVIOUS
<1> HIDE DEF next
<1>4. PICK f \in [0..all -> Nat] : f[0] = 0 /\ Follows(f, all, next)
  BY <1>1, <1>2, Recursion
<1>5. ASSUME NEW n \in 0..all PROVE f[n] = Step(f, n)
  <2>1. CASE n = 0
    BY <1>4, <2>1
  <2>2. CASE n # 0
    <3>1. n \in 1..all /\ n - 1 \in 0..all /\ f[n - 1] \in Nat
      BY <1>1, <1>4, <2>2
    <3>2. f[n] = next[n][f[n - 1]]
      BY <1>4, <3>1 DEF Follows
    <3> QED
      BY <1>3, <2>2, <3>1, <3>2
  <2> QED
    BY <2>1, <2>2
<1>6. f = [n \in 0..all |-> Step(f, n)]
  BY <1>4, <1>5
<1> DEFINE g == SizesOf(chars)
<1>7. g = [n \in 0..all |-> Step(g, n)]
  BY <1>6 DEF SizesOf, all
<1> HIDE DEF g
<1>8. \A n \in 0..all : g[n] = Step(g, n)
  BY <1>7, Zenon
<1>9. 0 \in 0..all /\ \A n \in 1..all : n \in 0..all /\ n # 0
  BY <1>1
<1>10. g[0] = 0 /\ \A n \in 1..all : g[n] = g[n - 1] + Len(chars[n])
  BY <1>8, <1>9
<1> DEFINE bad == {n \in 0..all : g[n] \notin Nat}
<1>11. bad = {}
  <2> SUFFICES ASSUME bad # {} PROVE FALSE
    OBVIOUS
  <2>1. bad \in SUBSET Nat
    BY <1>1
  <2> HIDE DEF bad
  <2>2. PICK k \in bad : \A j \in bad : k <= j
    BY <2>1, LeastNatural
  <2>3. k \in 0..all /\ g[k] \notin Nat
    BY DEF bad
  <2>4. k # 0 /\ k \in 1..all /\ k - 1 \in 0..all
    BY <1>1, <1>10, <2>3
  <2>5. g[k - 1] \in Nat
    BY <2>2, <2>4 DEF bad
  <2>6. g[k] = g[k - 1] + Len(chars[k]) /\ Len(chars[k]) \in Nat
    BY <1>1, <1>10, <2>4
  <2> QED
    BY <2>3, <2>5, <2>6
<1>12. \A n \in 0..all : g[n] \in Nat
  BY <1>11
<1> QED
  BY <1>10, <1>12 DEF g, all

\* The first characters together are no larger than more of them.
LEMMA SizesGrow ==
    ASSUME NEW S, NEW chars \in Seq(Seq(S)), NEW n \in 0..Len(chars),
           NEW m \in n..Len(chars)
    PROVE  SizesOf(chars)[n] <= SizesOf(chars)[m]
<1> DEFINE all == Len(chars)
           size == SizesOf(chars)
           bad == {k \in n..all : ~(size[n] <= size[k])}
<1>1. /\ all \in Nat
      /\ \A k \in 1..all : Len(chars[k]) \in Nat
      /\ \A k \in 0..all : size[k] \in Nat
      /\ \A k \in 1..all : size[k] = size[k - 1] + Len(chars[k])
  <2>1. \A k \in 1..Len(chars) : chars[k] \in Seq(S)
    OBVIOUS
  <2> QED
    BY <2>1, SizesAre
<1> HIDE DEF all, size
<1>2. n \in 0..all /\ m \in n..all
  BY DEF all
<1>3. bad = {}
  <2> SUFFICES ASSUME bad # {} PROVE FALSE
    OBVIOUS
  <2>1. bad \in SUBSET Nat
    BY <1>1, <1>2
  <2> HIDE DEF bad
  <2>2. PICK k \in bad : \A j \in bad : k <= j
    BY <2>1, LeastNatural
  <2>3. k \in n..all /\ ~(size[n] <= size[k])
    BY DEF bad
  <2>4. k # n
    BY <1>1, <1>2, <2>3
  <2>5. k - 1 \in n..all /\ k - 1 \in 0..all /\ k \in 1..all /\ ~(k <= k - 1)
    BY <1>1, <1>2, <2>3, <2>4
  <2>6. size[n] <= size[k - 1]
    BY <2>2, <2>5 DEF bad
  <2>7. /\ size[k] = size[k - 1] + Len(chars[k]) /\ Len(chars[k]) \in Nat
        /\ size[k - 1] \in Nat /\ size[n] \in Nat
    BY <1>1, <1>2, <2>5
  <2> QED
    BY <2>3, <2>6, <2>7
<1>4. m \notin bad
  BY <1>3
<1> QED
  BY <1>2, <1>4 DEF size

\* The bytes of the first characters, as far as they fit.
TakenOf(chars, limit) ==
    LET size[n \in 0..Len(chars)] ==
            IF n = 0 THEN 0 ELSE size[n - 1] + Len(chars[n])
        taken[n \in 0..Len(chars)] ==
            IF n = 0 THEN <<>>
            ELSE IF size[n] > limit THEN taken[n - 1]
            ELSE taken[n - 1] \o chars[n]
    IN taken

LEMMA DecodeUtf8Is ==
    ASSUME NEW chars, NEW limit
    PROVE  /\ DecodeUtf8(chars, limit) = TakenOf(chars, limit)[Len(chars)]
           /\ ByteLength(chars, "utf8") = SizesOf(chars)[Len(chars)]
BY DEF DecodeUtf8, TakenOf, ByteLength, SizesOf

LEMMA TakenAre ==
    ASSUME NEW S, NEW chars \in Seq(Seq(S)), NEW limit
    PROVE  LET taken == TakenOf(chars, limit)  size == SizesOf(chars) IN
           /\ taken[0] = <<>>
           /\ \A n \in 0..Len(chars) : taken[n] \in Seq(S)
           /\ \A n \in 1..Len(chars) :
                 taken[n] = IF size[n] > limit THEN taken[n - 1]
                            ELSE taken[n - 1] \o chars[n]
<1> DEFINE all == Len(chars)
           size == SizesOf(chars)
           V == Seq(S)
           next == [n \in 1..all |->
                       [x \in V |-> IF size[n] > limit THEN x ELSE x \o chars[n]]]
           Step(f, n) == IF n = 0 THEN <<>>
                         ELSE IF size[n] > limit THEN f[n - 1] ELSE f[n - 1] \o chars[n]
<1>1. all \in Nat /\ \A n \in 1..all : chars[n] \in V
  OBVIOUS
<1>2. <<>> \in V /\ \A x, y \in V : x \o y \in V
  OBVIOUS
<1> HIDE DEF V, all
<1>3. next \in [1..all -> [V -> V]]
  BY <1>1, <1>2
<1>4. \A n \in 1..all : \A x \in V :
         next[n][x] = IF size[n] > limit THEN x ELSE x \o chars[n]
  OBVIOUS
<1> HIDE DEF next
<1>5. PICK f \in [0..all -> V] : f[0] = <<>> /\ Follows(f, all, next)
  BY <1>1, <1>2, <1>3, Recursion
<1>6. ASSUME NEW n \in 0..all PROVE f[n] = Step(f, n)
  <2>1. CASE n = 0
    BY <1>5, <2>1
  <2>2. CASE n # 0
    <3>1. n \in 1..all /\ n - 1 \in 0..all /\ f[n - 1] \in V
      BY <1>1, <1>5, <2>2
    <3>2. f[n] = next[n][f[n - 1]]
      BY <1>5, <3>1 DEF Follows
    <3> HIDE DEF size
    <3> QED
      BY <1>4, <2>2, <3>1, <3>2
  <2> QED
    BY <2>1, <2>2
<1>7. f = [n \in 0..all |-> Step(f, n)]
  BY <1>5, <1>6
<1> DEFINE g == TakenOf(chars, limit)
<1>8. g = [n \in 0..all |-> Step(g, n)]
  BY <1>7 DEF TakenOf, SizesOf, all
<1> HIDE DEF g
<1>9. \A n \in 0..all : g[n] = Step(g, n)
  BY <1>8, Zenon
<1>10. 0 \in 0..all /\ \A n \in 1..all : n \in 0..all /\ n # 0
  BY <1>1
<1> HIDE DEF size
<1>11. g[0] = <<>> /\ \A n \in 1..all :
          g[n] = IF size[n] > limit THEN g[n - 1] ELSE g[n - 1] \o chars[n]
  BY <1>9, <1>10
<1> DEFINE bad == {n \in 0..all : g[n] \notin V}
<1>12. bad = {}
  <2> SUFFICES ASSUME bad # {} PROVE FALSE
    OBVIOUS
  <2>1. bad \in SUBSET Nat
    BY <1>1
  <2> HIDE DEF bad
  <2>2. PICK k \in bad : \A j \in bad : k <= j
    BY <2>1, LeastNatural
  <2>3. k \in 0..all /\ g[k] \notin V
    BY DEF bad
  <2>4. k # 0 /\ k \in 1..all /\ k - 1 \in 0..all
    BY <1>1, <1>2, <1>11, <2>3
  <2>5. g[k - 1] \in V
    BY <2>2, <2>4 DEF bad
  <2> QED
    BY <1>1, <1>2, <1>11, <2>3, <2>4, <2>5
<1>13. \A n \in 0..all : g[n] \in V
  BY <1>12
<1> QED
  BY <1>11, <1>13 DEF g, V, all, size

\* What is written is whole characters, as many as fit.
LEMMA Utf8Fits ==
    ASSUME NEW S, NEW chars \in Seq(Seq(S)), NEW limit \in Nat
    PROVE  LET size == SizesOf(chars)
               written == Len(DecodeUtf8(chars, limit))
           IN \E n \in 0..Len(chars) : /\ written = size[n] /\ written <= limit
                                       /\ n < Len(chars) => size[n + 1] > limit
<1> DEFINE all == Len(chars)
           size == SizesOf(chars)
           taken == TakenOf(chars, limit)
           Right(n) == \E m \in 0..n : /\ Len(taken[n]) = size[m] /\ size[m] <= limit
                                       /\ m < n => size[m + 1] > limit
           bad == {n \in 0..all : ~Right(n)}
<1>1. all \in Nat /\ \A n \in 1..all : chars[n] \in Seq(S) /\ Len(chars[n]) \in Nat
  <2>1. \A n \in 1..Len(chars) : chars[n] \in Seq(S)
    OBVIOUS
  <2> QED
    BY <2>1
<1>2. /\ size[0] = 0
      /\ \A n \in 0..all : size[n] \in Nat
      /\ \A n \in 1..all : size[n] = size[n - 1] + Len(chars[n])
  BY SizesAre
<1>3. \A n \in 0..all : \A m \in n..all : size[n] <= size[m]
  BY SizesGrow
<1>4. /\ taken[0] = <<>>
      /\ \A n \in 0..all : taken[n] \in Seq(S)
      /\ \A n \in 1..all : taken[n] = IF size[n] > limit THEN taken[n - 1]
                                      ELSE taken[n - 1] \o chars[n]
  BY TakenAre
<1>5. DecodeUtf8(chars, limit) = taken[all]
  BY DecodeUtf8Is
<1> HIDE DEF all, size, taken
<1>6. bad = {}
  <2> SUFFICES ASSUME bad # {} PROVE FALSE
    OBVIOUS
  <2>1. bad \in SUBSET Nat
    BY <1>1
  <2> HIDE DEF bad
  <2>2. PICK k \in bad : \A j \in bad : k <= j
    BY <2>1, LeastNatural
  <2>3. k \in 0..all /\ ~Right(k)
    BY DEF bad
  <2>4. k # 0
    <3>1. Right(0)
      BY <1>2, <1>4
    <3> QED
      BY <2>3, <3>1
  <2> DEFINE n == k - 1
  <2>5. n \in 0..all /\ k \in 1..all /\ k = n + 1 /\ n \in Nat /\ ~(k <= n)
    BY <1>1, <2>3, <2>4
  <2>6. Right(n)
    BY <2>2, <2>5 DEF bad
  <2>7. PICK m \in 0..n : /\ Len(taken[n]) = size[m] /\ size[m] <= limit
                          /\ m < n => size[m + 1] > limit
    BY <2>6
  <2>8. /\ taken[k] = IF size[k] > limit THEN taken[n] ELSE taken[n] \o chars[k]
        /\ size[k] = size[n] + Len(chars[k])
    BY <1>2, <1>4, <2>5
  <2> HIDE DEF n
  <2>9. CASE size[k] > limit
    <3>1. m \in 0..k /\ Len(taken[k]) = size[m]
      BY <2>5, <2>7, <2>8, <2>9
    <3>2. m < k => size[m + 1] > limit
      <4>1. CASE m < n
        BY <2>7, <4>1
      <4>2. CASE m = n
        BY <2>5, <2>9, <4>2
      <4> QED
        BY <2>5, <2>7, <4>1, <4>2
    <3> QED
      BY <2>3, <2>7, <3>1, <3>2
  <2>10. CASE ~(size[k] > limit)
    <3>1. m = n
      <4> SUFFICES ASSUME m # n PROVE FALSE
        OBVIOUS
      <4> DEFINE i == m + 1
      <4>3. m \in Nat /\ n \in Nat /\ m < n
        BY <2>5
      <4>1. i \in 0..all /\ k \in i..all /\ m < n
        BY <1>1, <2>5, <4>3
      <4> HIDE DEF i
      <4>2. size[i] <= size[k] /\ size[i] \in Nat /\ size[k] \in Nat
        BY <1>2, <1>3, <2>5, <4>1
      <4>4. size[i] > limit
        BY <2>7, <4>1 DEF i
      <4> QED
        BY <2>10, <4>2, <4>4
    <3>2. Len(taken[k]) = Len(taken[n]) + Len(chars[k])
      <4>1. taken[n] \in Seq(S) /\ chars[k] \in Seq(S)
        BY <1>1, <1>4, <2>5
      <4>2. taken[k] = taken[n] \o chars[k]
        BY <2>8, <2>10
      <4> QED
        BY <4>1, <4>2
    <3>3. Len(taken[k]) = size[k] /\ size[k] <= limit
      <4>1. size[k] \in Nat
        BY <1>2, <2>5
      <4>2. Len(taken[n]) = size[n]
        BY <2>7, <3>1
      <4>3. Len(taken[k]) = size[k]
        BY <2>8, <3>2, <4>2
      <4> QED
        BY <2>10, <4>1, <4>3
    <3>4. k \in 0..k /\ ~(k < k)
      BY <2>5
    <3> QED
      BY <2>3, <3>3, <3>4
  <2> QED
    BY <2>9, <2>10
<1>7. Right(all)
  <2>1. all \in 0..all
    BY <1>1
  <2> HIDE DEF Right
  <2>2. \A n \in 0..all : Right(n)
    BY <1>6
  <2> QED
    BY <2>1, <2>2
<1> QED
  BY <1>5, <1>7 DEF all, size
=============================================================================
