------------------------------ MODULE PathsProofs ------------------------------
(***************************************************************************)
(* Proofs that the functions of Paths agree with each other, for paths of  *)
(* any length.  All of them clean a path, name after name: the lemmas say  *)
(* what that does to a path in two parts, to one that has been cleaned and *)
(* to one that is clean.                                                   *)
(***************************************************************************)
EXTENDS LibraryProofs

(* Sequences. *)

\* What holds of <<>>, and of a sequence with an element more, holds of all sequences.
LEMMA FromBack ==
    ASSUME NEW S, NEW B, <<>> \in B,
           \A t \in Seq(S) \cap B : \A e \in S : Append(t, e) \in B
    PROVE  Seq(S) \subseteq B
<1> DEFINE bad == {n \in Nat : \E t \in Seq(S) : Len(t) = n /\ t \notin B}
<1> SUFFICES ASSUME bad # {} PROVE FALSE
  <2> SUFFICES ASSUME NEW t \in Seq(S), t \notin B PROVE bad # {}
    OBVIOUS
  <2>1. Len(t) \in Nat
    OBVIOUS
  <2>2. Len(t) \in bad
    BY <2>1
  <2> QED
    BY <2>2
<1>1. bad \in SUBSET Nat
  OBVIOUS
<1> HIDE DEF bad
<1>2. PICK n \in bad : \A j \in bad : n <= j
  BY <1>1, LeastNatural
<1>3. PICK t \in Seq(S) : Len(t) = n /\ t \notin B
  BY <1>2 DEF bad
<1>4. n \in Nat /\ n # 0
  BY <1>1, <1>2, <1>3
<1> DEFINE u == SubSeq(t, 1, n - 1)
<1>5. u \in Seq(S) /\ Len(u) = n - 1 /\ t[n] \in S /\ t = Append(u, t[n])
  BY <1>3, <1>4
<1>6. n - 1 \in Nat /\ n - 1 \notin bad
  BY <1>2, <1>4
<1>7. u \in B
  BY <1>5, <1>6 DEF bad
<1> QED
  BY <1>3, <1>5, <1>7

LEMMA Appended ==
    ASSUME NEW S, NEW t \in Seq(S), NEW e \in S
    PROVE  /\ Append(t, e) \in Seq(S) /\ Append(t, e) # <<>>
           /\ Len(t) \in Nat /\ Len(Append(t, e)) = Len(t) + 1
           /\ Append(t, e)[Len(t) + 1] = e
           /\ \A i \in 1..Len(t) : Append(t, e)[i] = t[i]
           /\ Last(Append(t, e)) = e /\ Front(Append(t, e)) = t
           /\ Append(t, e) = t \o <<e>>
<1>1. Append(t, e) \in Seq(S) /\ Len(t) \in Nat /\ Len(Append(t, e)) = Len(t) + 1
  OBVIOUS
<1>2. Append(t, e)[Len(t) + 1] = e /\ \A i \in 1..Len(t) : Append(t, e)[i] = t[i]
  OBVIOUS
<1>3. Last(Append(t, e)) = e
  BY <1>1, <1>2 DEF Last
<1>4. Front(Append(t, e)) = t
  <2>1. Front(Append(t, e)) = SubSeq(Append(t, e), 1, Len(t))
    BY <1>1 DEF Front
  <2> QED
    BY <1>1, <1>2, <2>1
<1>5. Append(t, e) = t \o <<e>>
  BY AppendIsConcat
<1> QED
  BY <1>1, <1>2, <1>3, <1>4, <1>5

LEMMA AppendedEnds ==
    ASSUME NEW S, NEW t \in Seq(S), NEW e \in S
    PROVE  Append(t, e) # <<>> /\ Last(Append(t, e)) = e /\ Front(Append(t, e)) = t
BY Appended, ZenonT(30)

LEMMA Ended ==
    ASSUME NEW S, NEW t \in Seq(S), t # <<>>
    PROVE  /\ Len(t) \in Nat \ {0} /\ Last(t) \in S /\ Last(t) = t[Len(t)]
           /\ Front(t) \in Seq(S) /\ Len(Front(t)) = Len(t) - 1
           /\ \A i \in 1 .. Len(t) - 1 : Front(t)[i] = t[i]
           /\ t = Append(Front(t), Last(t))
<1>1. Len(t) \in Nat \ {0}
  OBVIOUS
<1>2. t[Len(t)] \in S
  BY <1>1
<1>3. SubSeq(t, 1, Len(t) - 1) \in Seq(S) /\ Len(SubSeq(t, 1, Len(t) - 1)) = Len(t) - 1
  BY <1>1, SMTT(30)
<1>4. \A i \in 1 .. Len(t) - 1 : SubSeq(t, 1, Len(t) - 1)[i] = t[i]
  BY <1>1
<1>5. t = Append(SubSeq(t, 1, Len(t) - 1), t[Len(t)])
  BY <1>1, <1>2, <1>3, <1>4
<1> QED
  BY <1>1, <1>2, <1>3, <1>4, <1>5 DEF Last, Front

LEMMA ConcatAppended ==
    ASSUME NEW S, NEW s \in Seq(S), NEW t \in Seq(S), NEW e \in S
    PROVE  s \o Append(t, e) = Append(s \o t, e)
<1>1. <<e>> \in Seq(S) /\ s \o t \in Seq(S)
  OBVIOUS
<1>2. (s \o t) \o <<e>> = s \o (t \o <<e>>)
  BY <1>1, ConcatAssociative
<1> QED
  BY <1>1, <1>2, Appended

(* Short ones. *)

LEMMA Prepended ==
    ASSUME NEW D, NEW a \in D, NEW u \in Seq(D)
    PROVE  /\ <<a>> \o u \in Seq(D) /\ Len(<<a>> \o u) = Len(u) + 1 /\ Len(u) \in Nat
           /\ (<<a>> \o u)[1] = a
           /\ \A k \in 1..Len(u) : (<<a>> \o u)[k + 1] = u[k]
<1>1. <<a>> \in Seq(D) /\ Len(<<a>>) = 1 /\ <<a>>[1] = a /\ Len(u) \in Nat
  OBVIOUS
<1> QED
  BY <1>1, ConcatProperties

LEMMA OfOne == ASSUME NEW S, NEW t \in Seq(S), Len(t) = 1 PROVE t = <<t[1]>>
OBVIOUS

LEMMA OfTwo == ASSUME NEW S, NEW t \in Seq(S), Len(t) = 2 PROVE t = <<t[1], t[2]>>
OBVIOUS

LEMMA OfThree == ASSUME NEW S, NEW t \in Seq(S), Len(t) = 3 PROVE t = <<t[1], t[2], t[3]>>
OBVIOUS

LEMMA ConcatTwo ==
    ASSUME NEW S, NEW a \in S, NEW b \in S
    PROVE  <<a>> \o <<b>> = <<a, b>> /\ <<a, b>> \in Seq(S) /\ Len(<<a, b>>) = 2
           /\ <<a, b>>[1] = a /\ <<a, b>>[2] = b
<1> DEFINE u == <<a>>
           v == <<b>>
           t == u \o v
<1>0. v \in Seq(S)
  OBVIOUS
<1>1. Len(v) = 1 /\ v[1] = b
  OBVIOUS
<1> HIDE DEF u, v
<1>2. t \in Seq(S) /\ Len(t) = 2 /\ t[1] = a /\ t[2] = b
  <2>0. /\ <<a>> \o v \in Seq(S) /\ Len(<<a>> \o v) = Len(v) + 1 /\ (<<a>> \o v)[1] = a
        /\ \A k \in 1..Len(v) : (<<a>> \o v)[k + 1] = v[k]
    BY <1>0, Prepended
  <2>1. /\ t \in Seq(S) /\ Len(t) = Len(v) + 1 /\ t[1] = a
        /\ \A k \in 1..Len(v) : t[k + 1] = v[k]
    BY <2>0 DEF u
  <2> HIDE DEF t
  <2>2. t[1 + 1] = v[1]
    BY <1>1, <2>1
  <2> QED
    BY <1>1, <2>1, <2>2
<1> HIDE DEF t
<1>3. t = <<a, b>>
  BY <1>2, OfTwo
<1> QED
  BY <1>2, <1>3 DEF t, u, v

LEMMA ConcatThree ==
    ASSUME NEW S, NEW a \in S, NEW b \in S, NEW c \in S
    PROVE  <<a>> \o <<b, c>> = <<a, b, c>> /\ <<a, b, c>> \in Seq(S) /\ Len(<<a, b, c>>) = 3
           /\ <<a, b, c>>[1] = a /\ <<a, b, c>>[2] = b /\ <<a, b, c>>[3] = c
<1> DEFINE u == <<a>>
           v == <<b, c>>
           t == u \o v
<1>0. v \in Seq(S)
  OBVIOUS
<1>1. Len(v) = 2 /\ v[1] = b /\ v[2] = c
  OBVIOUS
<1> HIDE DEF u, v
<1>2. t \in Seq(S) /\ Len(t) = 3 /\ t[1] = a /\ t[2] = b /\ t[3] = c
  <2>0. /\ <<a>> \o v \in Seq(S) /\ Len(<<a>> \o v) = Len(v) + 1 /\ (<<a>> \o v)[1] = a
        /\ \A k \in 1..Len(v) : (<<a>> \o v)[k + 1] = v[k]
    BY <1>0, Prepended
  <2>1. /\ t \in Seq(S) /\ Len(t) = Len(v) + 1 /\ t[1] = a
        /\ \A k \in 1..Len(v) : t[k + 1] = v[k]
    BY <2>0 DEF u
  <2> HIDE DEF t
  <2>2. t[1 + 1] = v[1] /\ t[2 + 1] = v[2]
    BY <1>1, <2>1
  <2> QED
    BY <1>1, <2>1, <2>2
<1> HIDE DEF t
<1>3. t = <<a, b, c>>
  BY <1>2, OfThree
<1> QED
  BY <1>2, <1>3 DEF t, u, v

\* The last elements of a short sequence.
LEMMA EndOfTwo ==
    ASSUME NEW S, NEW t \in Seq(S), Len(t) = 2
    PROVE  SubSeq(t, 2, 2) = <<t[2]>> /\ SubSeq(t, 1, 2) = t
<1> DEFINE u == SubSeq(t, 2, 2)
<1>1. u \in Seq(S) /\ Len(u) = 1 /\ u[1] = t[2]
  OBVIOUS
<1> HIDE DEF u
<1>2. u = <<t[2]>>
  BY <1>1, OfOne
<1>3. SubSeq(t, 1, Len(t)) = t
  BY SubSeqFull
<1> QED
  BY <1>2, <1>3 DEF u

LEMMA EndOfThree ==
    ASSUME NEW S, NEW t \in Seq(S), Len(t) = 3
    PROVE  /\ SubSeq(t, 3, 3) = <<t[3]>> /\ SubSeq(t, 2, 3) = <<t[2], t[3]>>
           /\ SubSeq(t, 1, 3) = t
<1> DEFINE u == SubSeq(t, 3, 3)
           v == SubSeq(t, 2, 3)
<1>1. u \in Seq(S) /\ Len(u) = 1 /\ u[1] = t[3]
  OBVIOUS
<1>2. v \in Seq(S) /\ Len(v) = 2 /\ v[1] = t[2] /\ v[2] = t[3]
  OBVIOUS
<1> HIDE DEF u, v
<1>3. u = <<t[3]>>
  BY <1>1, OfOne
<1>4. v = <<t[2], t[3]>>
  BY <1>2, OfTwo
<1>5. SubSeq(t, 1, Len(t)) = t
  BY SubSeqFull
<1> QED
  BY <1>3, <1>4, <1>5 DEF u, v
-----------------------------------------------------------------------------
(* Names put after names. *)

\* STRING: the provers do not know its elements.
Letters == STRING \cup {"", "a", "b", "u", "x"}

Name == Seq(Letters) \ {<<>>}

Path == Seq(Name) \ {<<>>}

LEMMA Specials ==
    /\ Empty \in Name /\ Dot \in Name /\ DotDot \in Name
    /\ Empty # Dot /\ Empty # DotDot /\ Dot # DotDot
<1> DEFINE e == ""
<1>1. e \in Letters
  BY DEF Letters, e
<1> HIDE DEF e
<1>2. <<e>> \in Seq(Letters) /\ Len(<<e>>) = 1
  BY <1>1
<1>3. <<e, e>> \in Seq(Letters) /\ Len(<<e, e>>) = 2
  BY <1>1
<1>4. <<e, e, e>> \in Seq(Letters) /\ Len(<<e, e, e>>) = 3
  BY <1>1
<1>5. Empty = <<e>> /\ Dot = <<e, e>> /\ DotDot = <<e, e, e>>
  BY DEF Empty, Dot, DotDot, e
<1>6. Len(<<>>) = 0
  OBVIOUS
<1> QED
  BY <1>2, <1>3, <1>4, <1>5, <1>6 DEF Name

LEMMA ThenIs ==
    ASSUME NEW s \in Seq(Name), NEW n \in Name
    PROVE  Then(s, n) \in Seq(Name)
<1>1. Append(s, n) \in Seq(Name) /\ (s # <<>> => Front(s) \in Seq(Name))
  BY Appended, Ended
<1> QED
  BY <1>1 DEF Then

\* The names of a path put after others, one after the other.
PutAfter(s, p) ==
    LET cleaned[i \in 0..Len(p)] ==
            IF i = 0 THEN s ELSE Then(cleaned[i - 1], p[i])
    IN cleaned

After(s, p) == PutAfter(s, p)[Len(p)]

LEMMA CleanedIs ==
    ASSUME NEW p
    PROVE  Cleaned(p) = After(<<>>, p)
BY DEF Cleaned, After, PutAfter

LEMMA PutAfterIs ==
    ASSUME NEW s \in Seq(Name), NEW p \in Seq(Name)
    PROVE  /\ PutAfter(s, p) \in [0..Len(p) -> Seq(Name)] /\ PutAfter(s, p)[0] = s
           /\ \A i \in 1..Len(p) : PutAfter(s, p)[i] = Then(PutAfter(s, p)[i - 1], p[i])
<1> DEFINE N == Len(p)
           V == Seq(Name)
           next == [i \in 1..N |-> [v \in V |-> Then(v, p[i])]]
<1>1. N \in Nat /\ \A i \in 1..N : p[i] \in Name
  OBVIOUS
<1>2. \A i \in 1..N, v \in V : Then(v, p[i]) \in V
  BY <1>1, ThenIs
<1> HIDE DEF V, N
<1>3. next \in [1..N -> [V -> V]]
  BY <1>2
<1>4. \A i \in 1..N : \A v \in V : next[i][v] = Then(v, p[i])
  OBVIOUS
<1> HIDE DEF next
<1>5. PICK f \in [0..N -> V] : f[0] = s /\ \A i \in 1..N : f[i] = next[i][f[i - 1]]
  <2>1. s \in V
    BY DEF V
  <2>2. \E f \in [0..N -> V] : f[0] = s /\ Follows(f, N, next)
    BY <1>1, <1>3, <2>1, Recursion
  <2> QED
    BY <2>2 DEF Follows
<1> DEFINE Level(g, i) == IF i = 0 THEN s ELSE Then(g[i - 1], p[i])
<1>6. ASSUME NEW i \in 0..N PROVE f[i] = Level(f, i)
  <2>1. CASE i = 0
    BY <1>5, <2>1
  <2>2. CASE i # 0
    <3>1. i \in 1..N /\ i - 1 \in 0..N
      BY <1>1, <2>2
    <3>2. f[i - 1] \in V
      BY <3>1
    <3> QED
      BY <1>4, <1>5, <2>2, <3>1, <3>2
  <2> QED
    BY <2>1, <2>2
<1>7. f = [i \in 0..N |-> Level(f, i)]
  <2> HIDE DEF Level
  <2> QED
    BY <1>6
<1> DEFINE put == PutAfter(s, p)
<1>8. put = [i \in 0..N |-> Level(put, i)]
  <2>1. PutAfter(s, p) = CHOOSE g : g = [i \in 0..N |-> Level(g, i)]
    BY Zenon DEF PutAfter, N
  <2> HIDE DEF Level
  <2> QED
    BY <1>7, <2>1
<1> HIDE DEF put
<1>9. \A i \in 0..N : put[i] = Level(put, i)
  <2> HIDE DEF Level
  <2> QED
    BY <1>8, Zenon
<1>10. put[0] = s /\ \A i \in 1..N : put[i] = Then(put[i - 1], p[i])
  BY <1>1, <1>9
<1>11. \A i \in 0..N : put[i] = f[i]
  <2>1. \A i \in 1..N : put[i] = Then(put[i - 1], p[i]) /\ f[i] = Then(f[i - 1], p[i])
    BY <1>1, <1>6, <1>10
  <2> DEFINE bad == {i \in 0..N : put[i] # f[i]}
  <2> SUFFICES ASSUME bad # {} PROVE FALSE
    OBVIOUS
  <2>2. bad \in SUBSET Nat
    BY <1>1
  <2> HIDE DEF bad
  <2>3. PICK k \in bad : \A j \in bad : k <= j
    BY <2>2, LeastNatural
  <2>4. k \in 0..N /\ put[k] # f[k]
    BY DEF bad
  <2>5. k \in 1..N /\ k - 1 \in 0..N /\ k - 1 \notin bad
    BY <1>1, <1>5, <1>10, <2>3, <2>4
  <2>6. put[k - 1] = f[k - 1]
    BY <2>5 DEF bad
  <2> QED
    BY <2>1, <2>4, <2>5, <2>6
<1>12. put \in [0..N -> V]
  <2> HIDE DEF Level
  <2> QED
    BY <1>8, <1>11
<1> QED
  BY <1>10, <1>12 DEF put, N, V

LEMMA AfterIs ==
    ASSUME NEW s \in Seq(Name), NEW p \in Seq(Name)
    PROVE  After(s, p) \in Seq(Name)
<1>1. Len(p) \in 0..Len(p)
  OBVIOUS
<1> QED
  BY <1>1, PutAfterIs DEF After

LEMMA AfterNone ==
    ASSUME NEW s \in Seq(Name)
    PROVE  After(s, <<>>) = s
<1>1. <<>> \in Seq(Name) /\ Len(<<>>) = 0
  OBVIOUS
<1> QED
  BY <1>1, PutAfterIs DEF After

LEMMA AfterOneMore ==
    ASSUME NEW s \in Seq(Name), NEW p \in Seq(Name), NEW n \in Name
    PROVE  After(s, Append(p, n)) = Then(After(s, p), n)
<1> DEFINE q == Append(p, n)
           f == PutAfter(s, p)
           g == PutAfter(s, q)
           N == Len(p)
<1>1. q \in Seq(Name) /\ N \in Nat /\ Len(q) = N + 1 /\ q[N + 1] = n
      /\ \A i \in 1..N : q[i] = p[i]
  BY Appended
<1>2. f[0] = s /\ \A i \in 1..N : f[i] = Then(f[i - 1], p[i])
  BY PutAfterIs
<1> HIDE DEF q
<1>3. g[0] = s /\ \A i \in 1 .. N + 1 : g[i] = Then(g[i - 1], q[i])
  BY <1>1, PutAfterIs
<1> HIDE DEF f, g, N
<1> DEFINE bad == {i \in 0..N : f[i] # g[i]}
<1>4. bad = {}
  <2> SUFFICES ASSUME bad # {} PROVE FALSE
    OBVIOUS
  <2>1. bad \in SUBSET Nat
    BY <1>1
  <2> HIDE DEF bad
  <2>2. PICK k \in bad : \A j \in bad : k <= j
    BY <2>1, LeastNatural
  <2>3. k \in 0..N /\ f[k] # g[k]
    BY DEF bad
  <2>4. k \in 1..N /\ k \in 1 .. N + 1 /\ k - 1 \in 0..N /\ k - 1 \notin bad
    BY <1>1, <1>2, <1>3, <2>2, <2>3
  <2>5. f[k - 1] = g[k - 1]
    BY <2>4 DEF bad
  <2> QED
    BY <1>1, <1>2, <1>3, <2>3, <2>4, <2>5
<1>5. N \in 0..N /\ N + 1 \in 1 .. N + 1 /\ (N + 1) - 1 = N
  BY <1>1
<1>6. f[N] = g[N]
  BY <1>4, <1>5
<1>7. g[N + 1] = Then(f[N], n)
  BY <1>1, <1>3, <1>5, <1>6
<1> QED
  BY <1>1, <1>7 DEF After, f, g, q, N

LEMMA AfterBoth ==
    ASSUME NEW s \in Seq(Name), NEW p \in Seq(Name), NEW q \in Seq(Name)
    PROVE  After(s, p \o q) = After(After(s, p), q)
<1> DEFINE B == {t \in Seq(Name) : After(s, p \o t) = After(After(s, p), t)}
<1>1. After(s, p) \in Seq(Name)
  BY AfterIs
<1>2. <<>> \in B
  <2>1. p \o <<>> = p /\ <<>> \in Seq(Name)
    OBVIOUS
  <2> QED
    BY <1>1, <2>1, AfterNone
<1>3. ASSUME NEW t \in Seq(Name) \cap B, NEW e \in Name PROVE Append(t, e) \in B
  <2>0. t \in Seq(Name) /\ After(s, p \o t) = After(After(s, p), t)
    OBVIOUS
  <2> HIDE DEF B
  <2>1. p \o t \in Seq(Name) /\ Append(t, e) \in Seq(Name)
    BY <2>0
  <2>4. p \o Append(t, e) = Append(p \o t, e)
    BY <2>0, ConcatAppended
  <2> DEFINE u == p \o t
  <2>5. u \in Seq(Name)
    BY <2>1
  <2> HIDE DEF u
  <2>6. After(s, Append(u, e)) = Then(After(s, u), e)
    BY <2>5, AfterOneMore
  <2>2. After(s, p \o Append(t, e)) = Then(After(s, p \o t), e)
    BY <2>4, <2>6 DEF u
  <2>3. After(After(s, p), Append(t, e)) = Then(After(After(s, p), t), e)
    BY <1>1, <2>0, AfterOneMore
  <2> QED
    BY <2>0, <2>1, <2>2, <2>3 DEF B
<1> HIDE DEF B
<1>4. Seq(Name) \subseteq B
  BY <1>2, <1>3, FromBack
<1> QED
  BY <1>4 DEF B

-----------------------------------------------------------------------------
(* Clean paths. *)

\* No name is empty or ".", and ".." are before all other names.
IsClean(s) ==
    \A i \in 1..Len(s) : /\ s[i] \notin {Empty, Dot}
                         /\ s[i] = DotDot => \A j \in 1..i : s[j] = DotDot

LEMMA FrontClean ==
    ASSUME NEW t \in Seq(Name), NEW e \in Name, IsClean(Append(t, e))
    PROVE  /\ IsClean(t) /\ e \notin {Empty, Dot}
           /\ e = DotDot /\ t # <<>> => Last(t) = DotDot
<1> DEFINE u == Append(t, e)
           N == Len(t)
<1>1. /\ N \in Nat /\ Len(u) = N + 1 /\ u[N + 1] = e
      /\ \A i \in 1..N : u[i] = t[i]
  BY Appended
<1>2. \A i \in 1 .. N + 1 : /\ u[i] \notin {Empty, Dot}
                            /\ u[i] = DotDot => \A j \in 1..i : u[j] = DotDot
  BY <1>1 DEF IsClean
<1>3. t # <<>> => N # 0 /\ Last(t) = t[N]
  BY Ended
<1> HIDE DEF u, N
<1>4. \A i \in 1..N : /\ t[i] \notin {Empty, Dot}
                      /\ t[i] = DotDot => \A j \in 1..i : t[j] = DotDot
  <2> SUFFICES ASSUME NEW i \in 1..N
               PROVE  /\ t[i] \notin {Empty, Dot}
                      /\ t[i] = DotDot => \A j \in 1..i : t[j] = DotDot
    OBVIOUS
  <2>1. i \in 1 .. N + 1 /\ u[i] = t[i] /\ \A j \in 1..i : j \in 1..N
    BY <1>1
  <2> QED
    BY <1>1, <1>2, <2>1
<1>5. N + 1 \in 1 .. N + 1 /\ e \notin {Empty, Dot}
  BY <1>1, <1>2
<1>6. e = DotDot /\ t # <<>> => Last(t) = DotDot
  <2> SUFFICES ASSUME e = DotDot, t # <<>> PROVE t[N] = DotDot
    BY <1>3
  <2>1. N \in 1 .. N + 1 /\ N \in 1..N
    BY <1>1, <1>3
  <2> QED
    BY <1>1, <1>2, <1>5, <2>1
<1> QED
  BY <1>4, <1>5, <1>6 DEF IsClean, N

LEMMA ThenClean ==
    ASSUME NEW s \in Seq(Name), NEW n \in Name, IsClean(s)
    PROVE  IsClean(Then(s, n))
<1>1. CASE n \in {Empty, Dot}
  BY <1>1 DEF Then
<1>2. CASE n \notin {Empty, Dot} /\ n = DotDot /\ s # <<>> /\ Last(s) # DotDot
  <2>1. s = Append(Front(s), Last(s)) /\ Front(s) \in Seq(Name) /\ Last(s) \in Name
    BY <1>2, Ended
  <2>2. IsClean(Front(s))
    BY <2>1, FrontClean
  <2> QED
    BY <1>2, <2>2 DEF Then
<1>3. CASE n \notin {Empty, Dot} /\ ~(n = DotDot /\ s # <<>> /\ Last(s) # DotDot)
  <2> DEFINE u == Append(s, n)
             N == Len(s)
  <2>1. /\ N \in Nat /\ Len(u) = N + 1 /\ u[N + 1] = n
        /\ \A i \in 1..N : u[i] = s[i]
    BY Appended
  <2>2. N # 0 => s # <<>> /\ Last(s) = s[N]
    BY <2>1 DEF Last
  <2>3. Then(s, n) = u
    BY <1>3 DEF Then
  <2>4. \A i \in 1..N : /\ s[i] \notin {Empty, Dot}
                        /\ s[i] = DotDot => \A j \in 1..i : s[j] = DotDot
    BY DEF IsClean
  <2> HIDE DEF u, N
  <2>5. n = DotDot => \A j \in 1..N : s[j] = DotDot
    <3> SUFFICES ASSUME n = DotDot, NEW j \in 1..N PROVE s[j] = DotDot
      OBVIOUS
    <3>1. N # 0 /\ N \in 1..N /\ j \in 1..N
      BY <2>1
    <3>2. s[N] = DotDot
      BY <1>3, <2>2, <3>1
    <3> QED
      BY <2>4, <3>1, <3>2
  <2>6. \A i \in 1 .. N + 1 : /\ u[i] \notin {Empty, Dot}
                              /\ u[i] = DotDot => \A j \in 1..i : u[j] = DotDot
    <3> SUFFICES ASSUME NEW i \in 1 .. N + 1
                 PROVE  /\ u[i] \notin {Empty, Dot}
                        /\ u[i] = DotDot => \A j \in 1..i : u[j] = DotDot
      OBVIOUS
    <3>1. CASE i = N + 1
      <4>1. \A j \in 1..i : j \in 1..N \/ j = N + 1
        BY <2>1, <3>1
      <4> QED
        BY <1>3, <2>1, <2>5, <3>1, <4>1
    <3>2. CASE i # N + 1
      <4>1. i \in 1..N /\ \A j \in 1..i : j \in 1..N
        BY <2>1, <3>2
      <4> QED
        BY <2>1, <2>4, <4>1
    <3> QED
      BY <3>1, <3>2
  <2> QED
    BY <2>1, <2>3, <2>6 DEF IsClean
<1> QED
  BY <1>1, <1>2, <1>3

\* A path that has been cleaned is clean, ...
LEMMA AfterClean ==
    ASSUME NEW s \in Seq(Name), IsClean(s), NEW p \in Seq(Name)
    PROVE  IsClean(After(s, p))
<1> DEFINE B == {t \in Seq(Name) : IsClean(After(s, t))}
<1>1. <<>> \in B
  <2>1. <<>> \in Seq(Name) /\ After(s, <<>>) = s
    BY AfterNone
  <2> QED
    BY <2>1
<1>2. ASSUME NEW t \in Seq(Name) \cap B, NEW e \in Name PROVE Append(t, e) \in B
  <2>1. Append(t, e) \in Seq(Name) /\ After(s, t) \in Seq(Name) /\ IsClean(After(s, t))
    BY AfterIs
  <2>2. After(s, Append(t, e)) = Then(After(s, t), e)
    BY AfterOneMore
  <2>3. IsClean(Then(After(s, t), e))
    BY <2>1, ThenClean
  <2> QED
    BY <2>1, <2>2, <2>3
<1> HIDE DEF B
<1>3. Seq(Name) \subseteq B
  BY <1>1, <1>2, FromBack
<1> QED
  BY <1>3 DEF B

LEMMA CleanedClean ==
    ASSUME NEW p \in Seq(Name)
    PROVE  Cleaned(p) \in Seq(Name) /\ IsClean(Cleaned(p))
<1>1. <<>> \in Seq(Name) /\ IsClean(<<>>)
  BY DEF IsClean
<1> QED
  BY <1>1, AfterClean, AfterIs, CleanedIs

\* ... and stays as it is.
LEMMA CleanStays ==
    ASSUME NEW p \in Seq(Name), IsClean(p)
    PROVE  Cleaned(p) = p
<1> DEFINE B == {t \in Seq(Name) : IsClean(t) => After(<<>>, t) = t}
<1>0. <<>> \in Seq(Name)
  OBVIOUS
<1>1. <<>> \in B
  BY <1>0, AfterNone
<1>2. ASSUME NEW t \in Seq(Name) \cap B, NEW e \in Name PROVE Append(t, e) \in B
  <2>1. Append(t, e) \in Seq(Name) /\ t \in Seq(Name)
    OBVIOUS
  <2>2. ASSUME IsClean(Append(t, e)) PROVE After(<<>>, Append(t, e)) = Append(t, e)
    <3>1. /\ IsClean(t) /\ e \notin {Empty, Dot}
          /\ e = DotDot /\ t # <<>> => Last(t) = DotDot
      BY <2>2, FrontClean
    <3>2. After(<<>>, t) = t
      BY <3>1
    <3> HIDE DEF B
    <3>3. After(<<>>, Append(t, e)) = Then(After(<<>>, t), e)
      BY <1>0, <2>1, AfterOneMore
    <3> QED
      BY <3>1, <3>2, <3>3 DEF Then
  <2> QED
    BY <2>1, <2>2
<1> HIDE DEF B
<1>3. Seq(Name) \subseteq B
  BY <1>1, <1>2, FromBack
<1> QED
  BY <1>3, CleanedIs DEF B

\* It makes no difference whether what comes after is cleaned first.
LEMMA AfterCleaned ==
    ASSUME NEW s \in Seq(Name), NEW p \in Seq(Name)
    PROVE  After(s, Cleaned(p)) = After(s, p)
<1> DEFINE B == {t \in Seq(Name) : After(s, After(<<>>, t)) = After(s, t)}
<1>0. <<>> \in Seq(Name)
  OBVIOUS
<1>1. <<>> \in B
  BY <1>0, AfterNone
<1>2. ASSUME NEW t \in Seq(Name) \cap B, NEW e \in Name PROVE Append(t, e) \in B
  <2> DEFINE c == After(<<>>, t)
  <2>0. t \in Seq(Name) /\ After(s, c) = After(s, t)
    OBVIOUS
  <2> HIDE DEF B
  <2>1. c \in Seq(Name) /\ IsClean(c) /\ Append(t, e) \in Seq(Name)
    BY <1>0, <2>0, CleanedIs, CleanedClean
  <2>2. After(<<>>, Append(t, e)) = Then(c, e)
    BY <1>0, <2>0, AfterOneMore
  <2>4. After(s, Append(t, e)) = Then(After(s, t), e)
    BY <2>0, AfterOneMore
  <2> HIDE DEF c
  <2>3. After(s, Then(c, e)) = Then(After(s, c), e)
    <3>1. CASE e \in {Empty, Dot}
      BY <3>1 DEF Then
    <3>2. CASE e \notin {Empty, Dot} /\ e = DotDot /\ c # <<>> /\ Last(c) # DotDot
      <4> DEFINE n == Last(c)
                 u == Front(c)
      <4>1. u \in Seq(Name) /\ n \in Name /\ c = Append(u, n) /\ n # DotDot
        BY <2>1, <3>2, Ended
      <4> HIDE DEF n, u
      <4>2. After(s, c) = Then(After(s, u), n) /\ After(s, u) \in Seq(Name)
        BY <4>1, AfterOneMore, AfterIs
      <4>3. Then(c, e) = u
        BY <3>2 DEF Then, u
      <4>4. n \notin {Empty, Dot}
        BY <2>1, <4>1, FrontClean
      <4> DEFINE v == After(s, u)
      <4>5. After(s, c) = Append(v, n)
        BY <4>1, <4>2, <4>4 DEF Then
      <4>6. v \in Seq(Name)
        BY <4>2
      <4> HIDE DEF v
      <4>7. Append(v, n) # <<>> /\ Last(Append(v, n)) = n /\ Front(Append(v, n)) = v
        BY <4>1, <4>6, AppendedEnds
      <4>8. Then(Append(v, n), e) = v
        BY <3>2, <4>1, <4>7 DEF Then
      <4> QED
        BY <4>3, <4>5, <4>8 DEF v
    <3>3. CASE e \notin {Empty, Dot} /\ ~(e = DotDot /\ c # <<>> /\ Last(c) # DotDot)
      <4>1. Then(c, e) = Append(c, e)
        BY <3>3 DEF Then
      <4> QED
        BY <2>1, <4>1, AfterOneMore
    <3> QED
      BY <3>1, <3>2, <3>3
  <2> QED
    BY <2>0, <2>1, <2>2, <2>3, <2>4 DEF c, B
<1> HIDE DEF B
<1>3. Seq(Name) \subseteq B
  BY <1>1, <1>2, FromBack
<1> QED
  BY <1>3, CleanedIs DEF B
-----------------------------------------------------------------------------
(* CleanPath: an absolute path stays one, and its names are cleaned. *)

LEMMA SingleIs ==
    ASSUME NEW S, NEW a \in S
    PROVE  <<a>> \in Seq(S) /\ <<a>> # <<>> /\ Len(<<a>>) = 1 /\ <<a>>[1] = a
OBVIOUS

\* Names that are empty or "." change nothing.
LEMMA AfterDropped ==
    ASSUME NEW s \in Seq(Name), NEW n \in {Empty, Dot}
    PROVE  After(s, <<n>>) = s
<1>1. n \in Name /\ <<>> \in Seq(Name) /\ <<n>> = Append(<<>>, n)
  BY Specials
<1>2. After(s, Append(<<>>, n)) = Then(After(s, <<>>), n)
  BY <1>1, AfterOneMore
<1> QED
  BY <1>1, <1>2, AfterNone DEF Then

LEMMA CleanedDropped ==
    ASSUME NEW n \in {Empty, Dot}, NEW p \in Seq(Name)
    PROVE  /\ Cleaned(<<n>>) = <<>> /\ Cleaned(<<n>> \o p) = Cleaned(p)
           /\ Cleaned(p \o <<n>>) = Cleaned(p)
<1>1. <<>> \in Seq(Name) /\ n \in Name
  BY Specials
<1>2. <<n>> \in Seq(Name)
  BY <1>1, SingleIs
<1>3. Cleaned(<<n>>) = <<>>
  BY <1>1, AfterDropped, CleanedIs
<1>4. After(<<>>, <<n>> \o p) = After(After(<<>>, <<n>>), p)
  BY <1>1, <1>2, AfterBoth
<1>5. After(<<>>, p \o <<n>>) = After(After(<<>>, p), <<n>>)
  BY <1>1, <1>2, AfterBoth
<1>6. After(<<>>, p) \in Seq(Name)
  BY <1>1, AfterIs
<1>7. After(After(<<>>, p), <<n>>) = After(<<>>, p)
  BY <1>6, AfterDropped
<1> QED
  BY <1>3, <1>4, <1>5, <1>7, CleanedIs

LEMMA PathIs ==
    ASSUME NEW p \in Path
    PROVE  p \in Seq(Name) /\ p # <<>> /\ Len(p) \in Nat \ {0} /\ p[1] \in Name
<1>1. p \in Seq(Name) /\ p # <<>>
  BY DEF Path
<1>2. Len(p) \in Nat \ {0}
  BY <1>1
<1> QED
  BY <1>1, <1>2

LEMMA CleanPathIs ==
    ASSUME NEW p \in Path
    PROVE  /\ CleanPath(p) \in Path
           /\ Cleaned(CleanPath(p)) = Cleaned(p)
           /\ IsAbsolute(CleanPath(p)) <=> IsAbsolute(p)
           /\ CleanPath(p) = NoString <=> p = NoString
<1> DEFINE c == Cleaned(p)
<1>1. p \in Seq(Name) /\ Len(p) \in Nat \ {0}
  BY PathIs
<1>2. c \in Seq(Name) /\ IsClean(c)
  BY <1>1, CleanedClean
<1>3. Cleaned(c) = c
  BY <1>2, CleanStays
<1>4. Empty \in Name /\ Dot \in Name /\ Empty # Dot
  BY Specials
<1> HIDE DEF c
<1>5. <<Empty>> \in Seq(Name) /\ Len(<<Empty>>) = 1 /\ <<Empty>>[1] = Empty
      /\ <<Dot>> \in Seq(Name) /\ Len(<<Dot>>) = 1 /\ <<Dot>>[1] = Dot
  BY <1>4, SingleIs
<1>6. Len(<<>>) = 0
  OBVIOUS
<1>7. CASE p = NoString
  <2>1. CleanPath(p) = p
    BY <1>7 DEF CleanPath
  <2> QED
    BY <1>7, <2>1
<1>8. CASE p # NoString /\ IsAbsolute(p) /\ c = <<>>
  <2>1. CleanPath(p) = Root
    BY <1>8 DEF CleanPath, c
  <2>2. Root = <<Empty>> \o <<Empty>>
    BY DEF Root
  <2>3. Cleaned(Root) = c
    <3>1. Cleaned(<<Empty>> \o <<Empty>>) = Cleaned(<<Empty>>)
      BY <1>5, CleanedDropped
    <3>2. Cleaned(<<Empty>>) = <<>>
      BY <1>5, CleanedDropped
    <3> QED
      BY <1>8, <2>2, <3>1, <3>2
  <2>4. Root \in Seq(Name) /\ Len(Root) = 2 /\ Root[1] = Empty
    BY <1>4 DEF Root
  <2>6. Len(NoString) = 1
    BY <1>5 DEF NoString
  <2>7. IsAbsolute(Root)
    BY <2>4 DEF IsAbsolute
  <2>10. Len(Root) = 2
    BY <2>4
  <2>8. Root # NoString
    BY <2>6, <2>10
  <2>9. Root # <<>>
    BY <1>6, <2>4
  <2>5. Root # NoString /\ Root # <<>> /\ IsAbsolute(Root)
    BY <2>7, <2>8, <2>9
  <2> QED
    BY <1>8, <2>1, <2>3, <2>4, <2>5 DEF Path, c
<1>9. CASE p # NoString /\ IsAbsolute(p) /\ c # <<>>
  <2> DEFINE u == <<Empty>> \o c
  <2>1. CleanPath(p) = u
    BY <1>9 DEF CleanPath, c
  <2>2. Cleaned(u) = c
    BY <1>2, <1>3, CleanedDropped
  <2>3. Len(c) \in Nat \ {0}
    BY <1>2, <1>9
  <2>4. u \in Seq(Name) /\ Len(u) = Len(c) + 1 /\ u[1] = Empty
    BY <1>2, <1>4, Prepended
  <2> HIDE DEF u
  <2>5. u # NoString /\ u # <<>> /\ IsAbsolute(u)
    BY <1>5, <1>6, <2>3, <2>4 DEF NoString, IsAbsolute
  <2> QED
    BY <1>9, <2>1, <2>2, <2>4, <2>5 DEF Path, c
<1>10. CASE p # NoString /\ ~IsAbsolute(p) /\ c = <<>>
  <2>1. CleanPath(p) = Here
    BY <1>10 DEF CleanPath, c
  <2>2. Cleaned(Here) = c
    BY <1>5, <1>10, CleanedDropped DEF Here
  <2>3. Here \in Path /\ Here # NoString /\ ~IsAbsolute(Here)
    BY <1>4, <1>5, <1>6 DEF Here, NoString, IsAbsolute, Path
  <2> QED
    BY <1>10, <2>1, <2>2, <2>3 DEF c
<1>11. CASE p # NoString /\ ~IsAbsolute(p) /\ c # <<>>
  <2>1. CleanPath(p) = c
    BY <1>11 DEF CleanPath, c
  <2>2. Len(c) \in Nat \ {0}
    BY <1>2, <1>11
  <2>3. c[1] # Empty
    BY <1>2, <2>2 DEF IsClean
  <2>4. c # NoString /\ ~IsAbsolute(c)
    BY <1>5, <2>3 DEF NoString, IsAbsolute
  <2> QED
    BY <1>2, <1>3, <1>11, <2>1, <2>4 DEF Path, c
<1> QED
  BY <1>7, <1>8, <1>9, <1>10, <1>11

LEMMA CleanPathSame ==
    ASSUME NEW p, NEW q, Cleaned(p) = Cleaned(q), IsAbsolute(p) <=> IsAbsolute(q),
           p = NoString <=> q = NoString
    PROVE  CleanPath(p) = CleanPath(q)
BY DEF CleanPath

\* What is normalised stays so.
LEMMA CleanPathTwice ==
    ASSUME NEW p \in Path
    PROVE  CleanPath(CleanPath(p)) = CleanPath(p)
BY CleanPathIs, CleanPathSame

\* A path before another: absolute if it is, and cleaned one after the other.
LEMMA JoinedIs ==
    ASSUME NEW p \in Path, NEW q \in Path
    PROVE  /\ p \o q \in Path /\ p \o q # NoString
           /\ Cleaned(p \o q) = After(Cleaned(p), q)
           /\ p # NoString => (IsAbsolute(p \o q) <=> IsAbsolute(p))
           /\ IsAbsolute(p) => IsAbsolute(p \o q)
<1>1. p \in Seq(Name) /\ q \in Seq(Name) /\ Len(p) \in Nat \ {0} /\ Len(q) \in Nat \ {0}
      /\ p[1] \in Name
  BY PathIs
<1> DEFINE u == p \o q
<1>2. u \in Seq(Name) /\ Len(u) = Len(p) + Len(q) /\ u[1] = p[1]
  BY <1>1
<1>3. Cleaned(u) = After(Cleaned(p), q)
  <2>1. <<>> \in Seq(Name)
    OBVIOUS
  <2>2. After(<<>>, p \o q) = After(After(<<>>, p), q)
    BY <1>1, <2>1, AfterBoth
  <2> QED
    BY <2>2, CleanedIs
<1> HIDE DEF u
<1>4. Len(NoString) = 1 /\ Len(<<>>) = 0
  BY DEF NoString
<1>5. u \in Path /\ u # NoString
  BY <1>1, <1>2, <1>4 DEF Path
<1>6. IsAbsolute(u) <=> p[1] = Empty
  BY <1>1, <1>2 DEF IsAbsolute
<1>7. p # NoString => (p[1] = Empty <=> IsAbsolute(p))
  <2> DEFINE n == Len(p)
  <2> SUFFICES ASSUME p[1] = Empty, ~(n > 1) PROVE p = NoString
    BY DEF IsAbsolute
  <2>3. n \in Nat \ {0}
    BY PathIs
  <2> HIDE DEF n
  <2>4. n = 1
    BY <2>3
  <2>1. Len(p) = 1
    BY <2>4 DEF n
  <2>2. p = <<p[1]>>
    BY <1>1, <2>1, OfOne
  <2> QED
    BY <2>2 DEF NoString
<1> QED
  BY <1>3, <1>5, <1>6, <1>7 DEF IsAbsolute, u

-----------------------------------------------------------------------------
(* resolve and join of one or two paths. *)

Flattens(m, seqs, S) ==
    \E h \in [0..m -> Seq(S)] :
       /\ h[0] = <<>> /\ \A k \in 1..m : h[k] = h[k - 1] \o seqs[k]
       /\ FlattenSeq(seqs) = h[m]

LEMMA FlattenEach ==
    ASSUME NEW S, NEW m \in Nat, NEW seqs, seqs \in [1..m -> Seq(S)]
    PROVE  Flattens(m, seqs, S)
BY FlattenIs DEF Flattens

LEMMA FlattenTwo ==
    ASSUME NEW S, NEW a \in Seq(S), NEW b \in Seq(S)
    PROVE  FlattenSeq(<<a, b>>) = a \o b
<1> DEFINE m == 2
           seqs == <<a, b>>
<1>0. m \in Nat /\ m = 2
  OBVIOUS
<1> HIDE DEF m
<1>6. seqs \in [1..m -> Seq(S)]
  BY <1>0
<1>1. seqs[1] = a /\ seqs[2] = b
  OBVIOUS
<1> HIDE DEF seqs
<1>7. Flattens(m, seqs, S)
  BY <1>0, <1>6, FlattenEach
<1>2. PICK h \in [0..m -> Seq(S)] :
         h[0] = <<>> /\ (\A k \in 1..m : h[k] = h[k - 1] \o seqs[k]) /\ FlattenSeq(seqs) = h[m]
  BY <1>7, Zenon DEF Flattens
<1>5. 1 \in 1..m /\ 2 \in 1..m
  BY <1>0
<1>3. h[1] = h[1 - 1] \o seqs[1] /\ h[2] = h[2 - 1] \o seqs[2]
  BY <1>2, <1>5, Zenon
<1>4. <<>> \o a = a
  OBVIOUS
<1>9. 1 - 1 = 0 /\ 2 - 1 = 1 /\ 3 - 1 = 2
  OBVIOUS
<1>8. FlattenSeq(seqs) = a \o b
  BY <1>0, <1>1, <1>2, <1>3, <1>4, <1>9, Zenon
<1> QED
  BY <1>8 DEF seqs

LEMMA FlattenOne ==
    ASSUME NEW S, NEW a \in Seq(S)
    PROVE  FlattenSeq(<<a>>) = a
<1> DEFINE m == 1
           seqs == <<a>>
<1>0. m \in Nat /\ m = 1
  OBVIOUS
<1> HIDE DEF m
<1>6. seqs \in [1..m -> Seq(S)]
  BY <1>0
<1>1. seqs[1] = a
  OBVIOUS
<1> HIDE DEF seqs
<1>7. Flattens(m, seqs, S)
  BY <1>0, <1>6, FlattenEach
<1>2. PICK h \in [0..m -> Seq(S)] :
         h[0] = <<>> /\ (\A k \in 1..m : h[k] = h[k - 1] \o seqs[k]) /\ FlattenSeq(seqs) = h[m]
  BY <1>7, Zenon DEF Flattens
<1>5. 1 \in 1..m
  BY <1>0
<1>3. h[1] = h[1 - 1] \o seqs[1]
  BY <1>2, <1>5, Zenon
<1>4. <<>> \o a = a
  OBVIOUS
<1>9. 1 - 1 = 0 /\ 2 - 1 = 1 /\ 3 - 1 = 2
  OBVIOUS
<1>8. FlattenSeq(seqs) = a
  BY <1>0, <1>1, <1>2, <1>3, <1>4, <1>9, Zenon
<1> QED
  BY <1>8 DEF seqs

Flattened3(a, b, c) == FlattenSeq(<<a, b, c>>) = (a \o b) \o c

LEMMA FlattenThree ==
    ASSUME NEW S, NEW a \in Seq(S), NEW b \in Seq(S), NEW c \in Seq(S)
    PROVE  Flattened3(a, b, c)
<1> DEFINE m == 3
           seqs == <<a, b, c>>
<1>0. m \in Nat /\ m = 3
  OBVIOUS
<1> HIDE DEF m
<1>6. seqs \in [1..m -> Seq(S)]
  BY <1>0
<1>1. seqs[1] = a /\ seqs[2] = b /\ seqs[3] = c
  OBVIOUS
<1> HIDE DEF seqs
<1>7. Flattens(m, seqs, S)
  BY <1>0, <1>6, FlattenEach
<1>2. PICK h \in [0..m -> Seq(S)] :
         h[0] = <<>> /\ (\A k \in 1..m : h[k] = h[k - 1] \o seqs[k]) /\ FlattenSeq(seqs) = h[m]
  BY <1>7, Zenon DEF Flattens
<1>5. 1 \in 1..m /\ 2 \in 1..m /\ 3 \in 1..m
  BY <1>0
<1>3. h[1] = h[1 - 1] \o seqs[1] /\ h[2] = h[2 - 1] \o seqs[2] /\ h[3] = h[3 - 1] \o seqs[3]
  BY <1>2, <1>5, Zenon
<1>4. <<>> \o a = a
  OBVIOUS
<1>9. 1 - 1 = 0 /\ 2 - 1 = 1 /\ 3 - 1 = 2
  OBVIOUS
<1>8. FlattenSeq(seqs) = (a \o b) \o c
  BY <1>0, <1>1, <1>2, <1>3, <1>4, <1>9, Zenon
<1> QED
  BY <1>8 DEF seqs, Flattened3

\* The last of a sequence that passes a test.
LEMMA LastThat ==
    ASSUME NEW n \in Nat, NEW I \in SUBSET (1..n), NEW k \in I, \A i \in I : i <= k
    PROVE  Max(I) = k
<1> DEFINE m == Max(I)
<1>1. m \in I /\ \A y \in I : y <= m
  BY GreatestOf
<1> HIDE DEF m
<1>2. m <= k /\ k <= m /\ m \in Nat /\ k \in Nat
  BY <1>1
<1>3. m = k
  BY <1>2
<1> QED
  BY <1>3 DEF m

\* A path made absolute in the directory wd.
FullPath(p, wd) == IF IsAbsolute(p) THEN p ELSE wd \o p

LEMMA ResolveOne ==
    ASSUME NEW wd \in Path, IsAbsolute(wd), NEW p \in Path
    PROVE  Resolve(<<p>>, wd) = CleanPath(FullPath(p, wd))
<1>0. wd \in Seq(Name) /\ p \in Seq(Name)
  BY PathIs
<1> DEFINE all == <<wd>> \o <<p>>
           I == {i \in 1..Len(all) : IsAbsolute(all[i])}
<1>1. all = <<wd, p>> /\ all \in Seq(Seq(Name)) /\ Len(all) = 2
      /\ all[1] = wd /\ all[2] = p
  BY <1>0, ConcatTwo
<1>2. Resolve(<<p>>, wd)
      = CleanPath(FlattenSeq(SubSeq(all, IF I # {} THEN Max(I) ELSE 0, Len(all))))
  BY DEF Resolve, SelectLastInSeq
<1> HIDE DEF all
<1>3. I \in SUBSET (1..2) /\ 1 \in I /\ (2 \in I <=> IsAbsolute(p))
  BY <1>1
<1> HIDE DEF I
<1>4. CASE IsAbsolute(p)
  <2>1. Max(I) = 2
    BY <1>3, <1>4, LastThat
  <2>2. SubSeq(all, 2, 2) = <<p>>
    BY <1>1, EndOfTwo
  <2> QED
    BY <1>0, <1>1, <1>2, <1>3, <1>4, <2>1, <2>2, FlattenOne DEF FullPath
<1>5. CASE ~IsAbsolute(p)
  <2>1. Max(I) = 1
    BY <1>3, <1>5, LastThat
  <2>2. SubSeq(all, 1, 2) = <<wd, p>>
    BY <1>1, EndOfTwo
  <2> QED
    BY <1>0, <1>1, <1>2, <1>3, <1>5, <2>1, <2>2, FlattenTwo DEF FullPath
<1> QED
  BY <1>4, <1>5

LEMMA ResolveTwo ==
    ASSUME NEW wd \in Path, IsAbsolute(wd), NEW p \in Path, NEW q \in Path
    PROVE  Resolve(<<p, q>>, wd)
           = CleanPath(IF IsAbsolute(q) THEN q ELSE FullPath(p, wd) \o q)
<1>0. wd \in Seq(Name) /\ p \in Seq(Name) /\ q \in Seq(Name)
  BY PathIs
<1> DEFINE all == <<wd>> \o <<p, q>>
           I == {i \in 1..Len(all) : IsAbsolute(all[i])}
<1>1. all = <<wd, p, q>> /\ all \in Seq(Seq(Name)) /\ Len(all) = 3
      /\ all[1] = wd /\ all[2] = p /\ all[3] = q
  BY <1>0, ConcatThree
<1>2. Resolve(<<p, q>>, wd)
      = CleanPath(FlattenSeq(SubSeq(all, IF I # {} THEN Max(I) ELSE 0, Len(all))))
  BY DEF Resolve, SelectLastInSeq
<1> HIDE DEF all
<1>3. I \in SUBSET (1..3) /\ 1 \in I /\ (2 \in I <=> IsAbsolute(p)) /\ (3 \in I <=> IsAbsolute(q))
  BY <1>1
<1> HIDE DEF I
<1>4. CASE IsAbsolute(q)
  <2>1. Max(I) = 3
    BY <1>3, <1>4, LastThat
  <2>2. SubSeq(all, 3, 3) = <<q>>
    BY <1>1, EndOfThree
  <2> QED
    BY <1>0, <1>1, <1>2, <1>3, <1>4, <2>1, <2>2, FlattenOne
<1>5. CASE ~IsAbsolute(q) /\ IsAbsolute(p)
  <2>1. Max(I) = 2
    <3>1. \A i \in I : i <= 2
      BY <1>3, <1>5
    <3> QED
      BY <1>3, <1>5, <3>1, LastThat
  <2>2. SubSeq(all, 2, 3) = <<p, q>>
    BY <1>1, EndOfThree
  <2> QED
    BY <1>0, <1>1, <1>2, <1>3, <1>5, <2>1, <2>2, FlattenTwo DEF FullPath
<1>6. CASE ~IsAbsolute(q) /\ ~IsAbsolute(p)
  <2>1. Max(I) = 1
    <3>1. \A i \in I : i <= 1
      BY <1>3, <1>6
    <3> QED
      BY <1>3, <3>1, LastThat
  <2>2. SubSeq(all, 1, 3) = <<wd, p, q>>
    BY <1>1, EndOfThree
  <2>3. FlattenSeq(<<wd, p, q>>) = (wd \o p) \o q
    <3>1. Flattened3(wd, p, q)
      BY <1>0, FlattenThree, Zenon
    <3> QED
      BY <3>1, Zenon DEF Flattened3
  <2> QED
    BY <1>1, <1>2, <1>3, <1>6, <2>1, <2>2, <2>3 DEF FullPath
<1> QED
  BY <1>4, <1>5, <1>6

LEMMA JoinTwo ==
    ASSUME NEW p \in Path, NEW q \in Path
    PROVE  Join(<<p, q>>) = CleanPath(p \o q)
<1>1. p \in Seq(Name) /\ q \in Seq(Name)
  BY PathIs
<1>2. <<p, q>> # <<>>
  OBVIOUS
<1> QED
  BY <1>1, <1>2, FlattenTwo DEF Join

LEMMA FullPathIs ==
    ASSUME NEW wd \in Path, IsAbsolute(wd), NEW p \in Path
    PROVE  FullPath(p, wd) \in Path /\ IsAbsolute(FullPath(p, wd))
BY JoinedIs DEF FullPath

LEMMA AbsoluteNotNone ==
    ASSUME NEW p, IsAbsolute(p)
    PROVE  p # NoString
<1>1. Len(NoString) = 1
  BY DEF NoString
<1> QED
  BY <1>1 DEF IsAbsolute

LEMMA JoinedSame ==
    ASSUME NEW p \in Path, NEW r \in Path, NEW q \in Path, NEW u \in Path,
           IsAbsolute(p), IsAbsolute(r), Cleaned(p) = Cleaned(r), Cleaned(q) = Cleaned(u)
    PROVE  CleanPath(p \o q) = CleanPath(r \o u)
<1>1. /\ p \in Seq(Name) /\ q \in Seq(Name) /\ r \in Seq(Name) /\ u \in Seq(Name)
  BY PathIs
<1>2. Cleaned(p) \in Seq(Name)
  BY <1>1, CleanedClean
<1>3. After(Cleaned(p), Cleaned(q)) = After(Cleaned(p), q)
  BY <1>1, <1>2, AfterCleaned
<1>4. After(Cleaned(p), Cleaned(u)) = After(Cleaned(p), u)
  BY <1>1, <1>2, AfterCleaned
<1>5. /\ IsAbsolute(p \o q) /\ p \o q # NoString
      /\ Cleaned(p \o q) = After(Cleaned(p), q)
  BY JoinedIs
<1>6. /\ IsAbsolute(r \o u) /\ r \o u # NoString
      /\ Cleaned(r \o u) = After(Cleaned(r), u)
  BY JoinedIs
<1> QED
  BY <1>3, <1>4, <1>5, <1>6, CleanPathSame

\* For any names, and in any directory: resolve of two paths, the second relative, is
\* their join, made absolute (method_resolve, method_join).
THEOREM ResolveIsJoin ==
    ASSUME NEW wd \in Path, IsAbsolute(wd), NEW p \in Path, NEW q \in Path,
           p # NoString, ~IsAbsolute(q)
    PROVE  Resolve(<<p, q>>, wd) = Resolve(<<Join(<<p, q>>)>>, wd)
<1> DEFINE j == CleanPath(p \o q)
<1>1. Join(<<p, q>>) = j
  BY JoinTwo
<1>2. p \o q \in Path /\ (IsAbsolute(p \o q) <=> IsAbsolute(p))
  BY JoinedIs
<1>3. j \in Path /\ Cleaned(j) = Cleaned(p \o q) /\ (IsAbsolute(j) <=> IsAbsolute(p))
  BY <1>2, CleanPathIs
<1>4. Resolve(<<p, q>>, wd) = CleanPath(FullPath(p, wd) \o q)
  BY ResolveTwo
<1>5. CASE IsAbsolute(p)
  <2>1. CleanPath(j) = j
    BY <1>2, CleanPathTwice
  <2> HIDE DEF j
  <2>2. Resolve(<<j>>, wd) = CleanPath(j)
    BY <1>3, <1>5, ResolveOne DEF FullPath
  <2> QED
    BY <1>1, <1>4, <1>5, <2>1, <2>2 DEF FullPath, j
<1>6. CASE ~IsAbsolute(p)
  <2> HIDE DEF j
  <2>1. Resolve(<<j>>, wd) = CleanPath(wd \o j)
    BY <1>3, <1>6, ResolveOne DEF FullPath
  <2>2. CleanPath(wd \o j) = CleanPath(wd \o (p \o q))
    BY <1>2, <1>3, JoinedSame
  <2>3. (wd \o p) \o q = wd \o (p \o q)
    <3>1. wd \in Seq(Name) /\ p \in Seq(Name) /\ q \in Seq(Name)
      BY PathIs
    <3> QED
      BY <3>1, ConcatAssociative
  <2> QED
    BY <1>1, <1>4, <1>6, <2>1, <2>2, <2>3 DEF FullPath
<1> QED
  BY <1>5, <1>6

-----------------------------------------------------------------------------
(* dirname and basename name the path again. *)

LEMMA AbsoluteFilePathIs ==
    ASSUME NEW wd \in Path, IsAbsolute(wd), NEW p \in Path, p \notin {NoString, Here}
    PROVE  AbsoluteFilePath(p, wd)
           = IF EndsInSlash(FullPath(p, wd)) /\ FullPath(p, wd) # Root
             THEN Append(CleanPath(FullPath(p, wd)), Empty)
             ELSE CleanPath(FullPath(p, wd))
BY DEF AbsoluteFilePath, FullPath

LEMMA BasenameIs ==
    ASSUME NEW p
    PROVE  Basename(p, Empty) = Last(p)
BY DEF Basename, HasExt

LEMMA LastOfFull ==
    ASSUME NEW wd \in Path, IsAbsolute(wd), NEW p \in Path
    PROVE  /\ Last(FullPath(p, wd)) = Last(p) /\ Last(p) \in Name
           /\ Len(FullPath(p, wd)) > 1
<1>1. p \in Seq(Name) /\ p # <<>> /\ wd \in Seq(Name)
  BY PathIs
<1>2. /\ p = Append(Front(p), Last(p)) /\ Front(p) \in Seq(Name) /\ Last(p) \in Name
  BY <1>1, Ended
<1>3. wd \o p = Append(wd \o Front(p), Last(p))
  BY <1>1, <1>2, ConcatAppended
<1> DEFINE u == wd \o Front(p)
<1>4. u \in Seq(Name)
  BY <1>1, <1>2
<1> HIDE DEF u
<1>5. Last(Append(u, Last(p))) = Last(p)
  BY <1>2, <1>4, AppendedEnds
<1>6. IsAbsolute(FullPath(p, wd))
  BY FullPathIs
<1> QED
  BY <1>2, <1>3, <1>5, <1>6 DEF FullPath, u, IsAbsolute

LEMMA PathAgain ==
    ASSUME NEW wd \in Path, IsAbsolute(wd), NEW p \in Path, p # NoString,
           Last(p) \notin {Dot, DotDot}
    PROVE  Resolve(<<Dirname(p, wd), <<Basename(p, Empty)>>>>, wd) = Resolve(<<p>>, wd)
<1> DEFINE full == FullPath(p, wd)
           n == Last(p)
           clean == CleanPath(full)
           file == AbsoluteFilePath(p, wd)
           d == Dirname(p, wd)
<1>1. full \in Path /\ IsAbsolute(full) /\ Last(full) = n /\ n \in Name
  BY FullPathIs, LastOfFull
<1>2. p # Here
  <2>1. Last(<<Dot>>) = Dot
    BY DEF Last
  <2> QED
    BY <2>1 DEF Here
<1>3. EndsInSlash(full) <=> n = Empty
  BY LastOfFull DEF EndsInSlash
<1>4. file = IF n = Empty /\ full # Root THEN Append(clean, Empty) ELSE clean
  BY <1>2, <1>3, AbsoluteFilePathIs
<1>5. d = IF Front(file) = <<Empty>> THEN Root ELSE Front(file)
  BY DEF Dirname, AbsolutePath
<1>6. Basename(p, Empty) = n
  BY BasenameIs
<1>7. Resolve(<<p>>, wd) = clean
  BY ResolveOne
<1> HIDE DEF full
<1>8. clean \in Path /\ IsAbsolute(clean) /\ Cleaned(clean) = Cleaned(full)
  BY <1>1, CleanPathIs
<1> HIDE DEF file
<1>9. <<n>> \in Path /\ ~IsAbsolute(<<n>>)
  BY <1>1, SingleIs DEF Path, IsAbsolute
<1>10. Root \in Path /\ IsAbsolute(Root) /\ Cleaned(Root) = <<>> /\ Front(Root) = <<Empty>>
  <2>1. Empty \in Name
    BY Specials
  <2>2. Root = <<Empty, Empty>> /\ Root \in Seq(Name) /\ Len(Root) = 2 /\ Root[1] = Empty
    BY <2>1, ConcatTwo DEF Root
  <2>3. Root = <<Empty>> \o <<Empty>>
    BY <2>1, ConcatTwo DEF Root
  <2>4. <<Empty>> \in Seq(Name)
    BY <2>1, SingleIs
  <2>5. Cleaned(Root) = Cleaned(<<Empty>>) /\ Cleaned(<<Empty>>) = <<>>
    BY <2>3, <2>4, CleanedDropped
  <2>6. Root = Append(<<Empty>>, Empty)
    BY <2>1, <2>3, <2>4, Appended
  <2>7. Front(Root) = <<Empty>>
    BY <2>1, <2>4, <2>6, AppendedEnds
  <2>8. Len(Root) = 2 /\ Root[1] = Empty
    BY <2>2
  <2>9. Root # <<>>
    <3>1. Len(<<>>) = 0
      OBVIOUS
    <3> QED
      BY <2>8, <3>1
  <2>10. IsAbsolute(Root)
    BY <2>8 DEF IsAbsolute
  <2> QED
    BY <2>2, <2>5, <2>7, <2>9, <2>10 DEF Path
<1>11. d \in Path /\ IsAbsolute(d) /\ Cleaned(d \o <<n>>) = Cleaned(full)
  <2>1. CASE n = Empty /\ full # Root
    <3>1. clean \in Seq(Name) /\ Empty \in Name
      BY <1>8, Specials DEF Path
    <3>2. Front(file) = clean
      BY <1>4, <2>1, <3>1, AppendedEnds
    <3>3. clean # <<Empty>>
      BY <1>8, AbsoluteNotNone DEF NoString
    <3>4. d = clean
      BY <1>5, <3>2, <3>3
    <3> HIDE DEF clean, d
    <3>5. Cleaned(clean \o <<Empty>>) = Cleaned(clean)
      BY <3>1, CleanedDropped
    <3> QED
      BY <1>8, <2>1, <3>4, <3>5
  <2>2. CASE n = Empty /\ full = Root
    <3>1. clean = Root
      BY <1>10, <2>2, AbsoluteNotNone DEF CleanPath
    <3>2. d = Root
      BY <1>4, <1>5, <1>10, <2>2, <3>1
    <3> HIDE DEF d
    <3>3. Root \in Seq(Name)
      BY <1>10 DEF Path
    <3>4. Cleaned(Root \o <<Empty>>) = Cleaned(Root)
      BY <3>3, CleanedDropped
    <3> QED
      BY <1>10, <2>2, <3>2, <3>4
  <2>3. CASE n # Empty
    <3> DEFINE front == Front(full)
               c == Cleaned(front)
    <3>1. full = Append(front, n) /\ front \in Seq(Name)
      <4>1. full \in Seq(Name) /\ full # <<>>
        BY <1>1 DEF Path
      <4> QED
        BY <1>1, <4>1, Ended
    <3> HIDE DEF front
    <3>2. c \in Seq(Name) /\ IsClean(c) /\ <<>> \in Seq(Name)
      BY <3>1, CleanedClean
    <3>3. Cleaned(full) = Append(c, n)
      <4>1. After(<<>>, Append(front, n)) = Then(After(<<>>, front), n)
        BY <1>1, <3>1, <3>2, AfterOneMore
      <4>2. Then(c, n) = Append(c, n)
        BY <2>3 DEF Then
      <4> QED
        BY <3>1, <4>1, <4>2, CleanedIs
    <3>4. Cleaned(c) = c
      BY <3>2, CleanStays
    <3> HIDE DEF c
    <3>5. Append(c, n) # <<>>
      BY <1>1, <3>2, AppendedEnds
    <3>6. clean = <<Empty>> \o Append(c, n)
      BY <1>1, <3>3, <3>5, AbsoluteNotNone DEF CleanPath
    <3>7. Empty \in Name /\ <<Empty>> \in Seq(Name)
      BY Specials, SingleIs
    <3>8. clean = Append(<<Empty>> \o c, n)
      BY <1>1, <3>2, <3>6, <3>7, ConcatAppended
    <3> DEFINE u == <<Empty>> \o c
    <3>9. u \in Seq(Name) /\ Len(u) = Len(c) + 1 /\ u[1] = Empty /\ Len(c) \in Nat
      BY <3>2, <3>7, Prepended
    <3>10. Cleaned(u) = c
      BY <3>2, <3>4, CleanedDropped
    <3>11. c = <<>> => u = <<Empty>>
      BY <3>7
    <3>12. file = clean
      BY <1>4, <2>3
    <3>17. clean = Append(u, n)
      BY <3>8
    <3> HIDE DEF u, clean
    <3>13. Front(file) = u
      BY <1>1, <3>9, <3>12, <3>17, AppendedEnds
    <3>14. d = IF u = <<Empty>> THEN Root ELSE u
      BY <1>5, <3>13
    <3>15. d \in Path /\ IsAbsolute(d) /\ Cleaned(d) = c
      <4>1. CASE u = <<Empty>>
        <5>1. Cleaned(<<Empty>>) = <<>>
          BY <3>2, CleanedDropped
        <5> QED
          BY <1>10, <3>10, <3>14, <4>1, <5>1
      <4>2. CASE u # <<Empty>>
        <5>1. c # <<>>
          BY <3>11, <4>2
        <5>2. Len(c) # 0
          BY <3>2, <5>1
        <5>3. Len(u) > 1
          BY <3>9, <5>2
        <5>4. u # <<>>
          <6>1. Len(<<>>) = 0
            OBVIOUS
          <6> QED
            BY <5>3, <6>1
        <5> QED
          BY <3>9, <3>10, <3>14, <4>2, <5>3, <5>4 DEF IsAbsolute, Path
      <4> QED
        BY <4>1, <4>2
    <3> HIDE DEF d
    <3>16. Cleaned(d \o <<n>>) = Append(c, n)
      <4>1. Cleaned(d \o <<n>>) = After(c, <<n>>)
        BY <1>9, <3>15, JoinedIs
      <4>2. <<n>> = Append(<<>>, n)
        OBVIOUS
      <4>3. After(c, Append(<<>>, n)) = Then(After(c, <<>>), n)
        BY <1>1, <3>2, AfterOneMore
      <4>4. Then(c, n) = Append(c, n)
        BY <2>3 DEF Then
      <4> QED
        BY <3>2, <4>1, <4>2, <4>3, <4>4, AfterNone
    <3> QED
      BY <3>3, <3>15, <3>16
  <2> QED
    BY <2>1, <2>2, <2>3
<1> HIDE DEF d, n, clean
<1>12. d \o <<n>> \in Path /\ IsAbsolute(d \o <<n>>)
  BY <1>9, <1>11, JoinedIs
<1>13. CleanPath(d \o <<n>>) = CleanPath(full)
  BY <1>1, <1>11, <1>12, AbsoluteNotNone, CleanPathSame
<1>14. Resolve(<<d, <<n>>>>, wd) = CleanPath(d \o <<n>>)
  BY <1>9, <1>11, ResolveTwo DEF FullPath
<1> QED
  BY <1>6, <1>7, <1>13, <1>14 DEF d, n, clean

\* So do the name before the extension, and the extension.
LEMMA NameAgain ==
    ASSUME NEW p \in Path, Extname(p) # Empty
    PROVE  Basename(p, <<"">> \o Extname(p)) \o Extname(p) = Last(p)
<1> DEFINE n == Last(p)
           t == Tail(n)
<1>1. n \in Seq(Letters) /\ n # <<>>
  <2>1. p \in Seq(Name) /\ p # <<>>
    BY PathIs
  <2>2. n \in Name
    BY <2>1, Ended
  <2> QED
    BY <2>2 DEF Name
<1>2. Extname(p) = t
  BY DEF Extname
<1> HIDE DEF n
<1>3. t \in Seq(Letters) /\ Len(t) = Len(n) - 1 /\ Len(n) \in Nat \ {0} /\ n[1] \in Letters
  BY <1>1, HeadTailProperties
<1>4. t = SubSeq(n, 2, Len(n))
  BY <1>1, TailIsSubSeq
<1>5. n = <<n[1]>> \o t
  BY <1>1
<1> DEFINE x == ""
           e == <<x>> \o t
<1>6. x \in Letters
  BY DEF Letters
<1> HIDE DEF x, t
<1>7. e \in Seq(Letters) /\ Len(e) = Len(t) + 1 /\ e[1] = x
  BY <1>3, <1>6, Prepended
<1>8. Tail(e) = t
  BY <1>3, <1>6
<1>9. Len(e) = Len(n) /\ Len(n) # 1
  <2>1. Len(n) # 1
    BY DEF Extname, n
  <2> QED
    BY <1>3, <1>7, <2>1
<1>10. e # Empty
  <2>1. Len(Empty) = 1
    BY DEF Empty
  <2> QED
    BY <1>9, <2>1
<1> DEFINE k == Len(n) - Len(e)
<1>11. k = 0
  BY <1>3, <1>9
<1> HIDE DEF k
<1>12. SubSeq(n, k + 2, Len(n)) = t /\ SubSeq(n, 1, k) = <<>> /\ n[k + 1] = n[1]
  BY <1>1, <1>4, <1>11
<1>13. Append(<<>>, n[1]) = <<n[1]>>
  OBVIOUS
<1> HIDE DEF e
<1>14. HasExt(p, e)
  <2>1. Tail(e) = SubSeq(n, k + 2, Len(n))
    BY <1>8, <1>12
  <2>2. e[1] = ""
    BY <1>7 DEF x
  <2>3. k >= 0
    BY <1>11
  <2> QED
    BY <1>10, <2>1, <2>2, <2>3, Zenon DEF HasExt, n, k
<1>15. Basename(p, e) = Append(SubSeq(n, 1, k), IF e[1] = "" THEN n[k + 1] ELSE "")
  BY <1>14 DEF Basename, n, k
<1>16. Basename(p, e) = <<n[1]>>
  BY <1>7, <1>12, <1>13, <1>15 DEF x
<1> QED
  BY <1>2, <1>5, <1>16 DEF n, e, x

-----------------------------------------------------------------------------
(* relative leads from one place to another. *)

\* No name is empty, "." or "..".
IsPlain(s) == \A i \in 1..Len(s) : s[i] \notin {Empty, Dot, DotDot}

\* Names with no ".." come after others as they are.
LEMMA AfterPlain ==
    ASSUME NEW s \in Seq(Name), NEW p \in Seq(Name), IsPlain(p)
    PROVE  After(s, p) = s \o p
<1> DEFINE B == {t \in Seq(Name) : IsPlain(t) => After(s, t) = s \o t}
<1>1. <<>> \in B
  <2>1. <<>> \in Seq(Name) /\ s \o <<>> = s
    OBVIOUS
  <2> QED
    BY <2>1, AfterNone
<1>2. ASSUME NEW t \in Seq(Name) \cap B, NEW e \in Name PROVE Append(t, e) \in B
  <2>1. Append(t, e) \in Seq(Name) /\ t \in Seq(Name)
    OBVIOUS
  <2>2. ASSUME IsPlain(Append(t, e)) PROVE After(s, Append(t, e)) = s \o Append(t, e)
    <3>1. IsPlain(t) /\ e \notin {Empty, Dot, DotDot}
      <4> DEFINE u == Append(t, e)
                 N == Len(t)
      <4>1. /\ N \in Nat /\ Len(u) = N + 1 /\ u[N + 1] = e
            /\ \A i \in 1..N : u[i] = t[i]
        BY <2>1, Appended
      <4>2. \A i \in 1 .. N + 1 : u[i] \notin {Empty, Dot, DotDot}
        BY <2>2, <4>1 DEF IsPlain
      <4> HIDE DEF u, N
      <4>3. N + 1 \in 1 .. N + 1 /\ \A i \in 1..N : i \in 1 .. N + 1
        BY <4>1
      <4>4. e \notin {Empty, Dot, DotDot} /\ \A i \in 1..N : t[i] \notin {Empty, Dot, DotDot}
        BY <4>1, <4>2, <4>3
      <4> QED
        BY <4>4 DEF IsPlain, N
    <3>2. After(s, t) = s \o t
      BY <3>1
    <3> HIDE DEF B
    <3>3. After(s, Append(t, e)) = Then(s \o t, e)
      <4>1. After(s, Append(t, e)) = Then(After(s, t), e)
        BY <2>1, AfterOneMore
      <4> QED
        BY <3>2, <4>1
    <3>4. s \o Append(t, e) = Append(s \o t, e)
      BY <2>1, ConcatAppended
    <3> QED
      BY <3>1, <3>3, <3>4 DEF Then
  <2> QED
    BY <2>1, <2>2
<1> HIDE DEF B
<1>3. Seq(Name) \subseteq B
  BY <1>1, <1>2, FromBack
<1> QED
  BY <1>3 DEF B

Ups(k) == [i \in 1..k |-> DotDot]

LEMMA UpsAre ==
    ASSUME NEW k \in Nat
    PROVE  /\ Ups(k) \in Seq(Name) /\ Len(Ups(k)) = k /\ (k = 0 => Ups(k) = <<>>)
           /\ \A i \in 1..k : Ups(k)[i] = DotDot
           /\ Ups(k + 1) = Append(Ups(k), DotDot)
<1>1. DotDot \in Name
  BY Specials
<1>2. \A j \in Nat : Ups(j) \in Seq(Name) /\ Len(Ups(j)) = j /\ \A i \in 1..j : Ups(j)[i] = DotDot
  BY <1>1 DEF Ups
<1>3. Ups(k + 1) = Append(Ups(k), DotDot)
  <2> DEFINE u == Ups(k)
             v == Ups(k + 1)
             w == Append(u, DotDot)
  <2>1. u \in Seq(Name) /\ Len(u) = k /\ \A i \in 1..k : u[i] = DotDot
    BY <1>2
  <2>2. k + 1 \in Nat
    OBVIOUS
  <2>3. v \in Seq(Name) /\ Len(v) = k + 1 /\ \A i \in 1 .. k + 1 : v[i] = DotDot
    BY <1>2, <2>2
  <2> HIDE DEF u, v
  <2>4. /\ w \in Seq(Name) /\ Len(w) = Len(u) + 1 /\ w[Len(u) + 1] = DotDot
        /\ \A i \in 1..Len(u) : w[i] = u[i]
    BY <1>1, <2>1, Appended
  <2> HIDE DEF w
  <2>5. \A i \in 1 .. k + 1 : w[i] = v[i]
    <3> SUFFICES ASSUME NEW i \in 1 .. k + 1 PROVE w[i] = v[i]
      OBVIOUS
    <3>1. i \in 1..k \/ i = k + 1
      OBVIOUS
    <3> QED
      BY <2>1, <2>3, <2>4, <3>1
  <2>6. Len(w) = Len(v)
    BY <2>1, <2>3, <2>4
  <2>7. w = v
    BY <2>3, <2>4, <2>5, <2>6, SeqEqual
  <2> QED
    BY <2>7 DEF u, v, w
<1>4. Ups(0) = <<>>
  BY DEF Ups
<1> QED
  BY <1>2, <1>3, <1>4

\* As many ".." after plain names drop as many of them.
LEMMA AfterUps ==
    ASSUME NEW s \in Seq(Name), IsPlain(s), NEW k \in 0..Len(s)
    PROVE  After(s, Ups(k)) = SubSeq(s, 1, Len(s) - k)
<1> DEFINE N == Len(s)
           bad == {j \in 0..N : After(s, Ups(j)) # SubSeq(s, 1, N - j)}
<1>1. N \in Nat
  OBVIOUS
<1>2. bad = {}
  <2> SUFFICES ASSUME bad # {} PROVE FALSE
    OBVIOUS
  <2>1. bad \in SUBSET Nat
    BY <1>1
  <2> HIDE DEF bad
  <2>2. PICK j \in bad : \A i \in bad : j <= i
    BY <2>1, LeastNatural
  <2>3. j \in 0..N /\ After(s, Ups(j)) # SubSeq(s, 1, N - j)
    BY DEF bad
  <2>4. j # 0
    <3>1. After(s, Ups(0)) = s
      BY AfterNone, UpsAre
    <3>2. SubSeq(s, 1, N - 0) = s
      BY SubSeqFull
    <3> QED
      BY <2>3, <3>1, <3>2
  <2>5. j - 1 \in 0..N /\ j - 1 \notin bad /\ j - 1 \in Nat /\ (j - 1) + 1 = j
    BY <1>1, <2>2, <2>3, <2>4
  <2> DEFINE t == SubSeq(s, 1, N - (j - 1))
  <2>6. After(s, Ups(j - 1)) = t
    BY <2>5 DEF bad
  <2>7. Ups(j) = Append(Ups(j - 1), DotDot) /\ Ups(j - 1) \in Seq(Name) /\ DotDot \in Name
    BY <2>5, UpsAre, Specials
  <2>8. After(s, Ups(j)) = Then(t, DotDot)
    BY <2>6, <2>7, AfterOneMore
  <2> DEFINE m == N - (j - 1)
  <2>9. m \in 1..N /\ N - j = m - 1
    BY <1>1, <2>3, <2>4
  <2> HIDE DEF m
  <2>10. SubSeq(s, 1, m) \in Seq(Name) /\ Len(SubSeq(s, 1, m)) = m
         /\ SubSeq(s, 1, m)[m] = s[m] /\ SubSeq(SubSeq(s, 1, m), 1, m - 1) = SubSeq(s, 1, m - 1)
    BY <2>9
  <2>11. s[m] \notin {Empty, Dot, DotDot}
    BY <2>9 DEF IsPlain
  <2>12. t \in Seq(Name) /\ Len(t) = m /\ t[m] = s[m] /\ SubSeq(t, 1, m - 1) = SubSeq(s, 1, N - j)
    BY <2>9, <2>10 DEF m
  <2> HIDE DEF t
  <2>13. t # <<>> /\ Last(t) # DotDot /\ Front(t) = SubSeq(s, 1, N - j)
    BY <2>9, <2>11, <2>12 DEF Last, Front
  <2>14. Then(t, DotDot) = Front(t)
    BY <2>13, Specials DEF Then
  <2> QED
    BY <2>3, <2>8, <2>13, <2>14
<1> QED
  BY <1>2

\* The names of a path that begins with a slash and has no other at its end.
LEMMA NamesIs ==
    ASSUME NEW s \in Seq(Name), \A i \in 1..Len(s) : s[i] # Empty
    PROVE  Names(<<Empty>> \o s) = s
<1> DEFINE p == <<Empty>> \o s
           N == Len(s)
           m == Len(p)
           parts == [i \in DOMAIN p |-> IF p[i] = Empty THEN <<>> ELSE <<p[i]>>]
<1>1. Empty \in Name
  BY Specials
<1>2. p \in Seq(Name) /\ Len(p) = Len(s) + 1 /\ Len(s) \in Nat /\ p[1] = Empty
      /\ \A k \in 1..Len(s) : p[k + 1] = s[k]
  BY <1>1, Prepended
<1> HIDE DEF p
<1>3. DOMAIN p = 1..m
  BY <1>2
<1>4. m \in Nat /\ m = N + 1 /\ N \in Nat
  BY <1>2
<1>5. \A i \in 1..m : p[i] \in Name
  BY <1>2
<1> HIDE DEF m, N
<1>6. parts \in [1..m -> Seq(Name)]
  <2>1. ASSUME NEW n \in Name PROVE (IF n = Empty THEN <<>> ELSE <<n>>) \in Seq(Name)
    OBVIOUS
  <2> QED
    BY <1>3, <1>5, <2>1
<1>7. \A i \in 1..m : parts[i] = IF p[i] = Empty THEN <<>> ELSE <<p[i]>>
  BY <1>3
<1> HIDE DEF parts
<1>8. Flattens(m, parts, Name)
  BY <1>4, <1>6, FlattenEach
<1>9. PICK h \in [0..m -> Seq(Name)] :
         h[0] = <<>> /\ (\A k \in 1..m : h[k] = h[k - 1] \o parts[k]) /\ FlattenSeq(parts) = h[m]
  BY <1>8, Zenon DEF Flattens
<1>10. h[1] = <<>>
  <2>1. 1 \in 1..m /\ 1 - 1 = 0
    BY <1>4
  <2>2. parts[1] = <<>>
    BY <1>2, <1>7, <2>1
  <2>3. h[1] = h[1 - 1] \o parts[1]
    BY <1>9, <2>1, Zenon
  <2>4. <<>> \o <<>> = <<>>
    OBVIOUS
  <2> QED
    BY <1>9, <2>1, <2>2, <2>3, <2>4, Zenon
<1> DEFINE Good(k) == Len(h[k + 1]) = k /\ \A i \in 1..k : h[k + 1][i] = s[i]
           bad == {k \in 0..N : ~Good(k)}
<1>11. bad = {}
  <2> SUFFICES ASSUME bad # {} PROVE FALSE
    OBVIOUS
  <2>1. bad \in SUBSET Nat
    BY <1>4
  <2> HIDE DEF bad
  <2>2. PICK k \in bad : \A i \in bad : k <= i
    BY <2>1, LeastNatural
  <2>3. k \in 0..N /\ ~Good(k)
    BY DEF bad
  <2>4. k # 0
    <3>1. Len(h[0 + 1]) = 0
      BY <1>10
    <3> QED
      BY <2>3, <3>1
  <2>5. k - 1 \in 0..N /\ k - 1 \notin bad /\ k \in 1..N /\ k + 1 \in 1..m /\ k \in 0..m
    BY <1>4, <2>2, <2>3, <2>4
  <2> DEFINE u == h[k]
             e == s[k]
  <2>6. Len(u) = k - 1 /\ \A i \in 1 .. k - 1 : u[i] = s[i]
    <3>1. Good(k - 1) /\ (k - 1) + 1 = k
      BY <2>5 DEF bad
    <3> QED
      BY <3>1
  <2>7. u \in Seq(Name)
    BY <1>9, <2>5
  <2>8. e \in Name /\ e # Empty
    BY <2>5 DEF N
  <2>9. parts[k + 1] = <<e>>
    <3>1. p[k + 1] = e
      BY <1>2, <2>5 DEF N
    <3> QED
      BY <1>7, <2>5, <2>8, <3>1
  <2>10. h[k + 1] = u \o <<e>>
    <3> DEFINE i == k + 1
    <3>1. i \in 1..m /\ i - 1 = k
      BY <2>5
    <3>2. parts[i] = <<e>>
      BY <2>9
    <3> HIDE DEF i
    <3>3. h[i] = h[i - 1] \o parts[i]
      BY <1>9, <3>1, Zenon
    <3>4. h[i] = h[k] \o <<e>>
      BY <3>1, <3>2, <3>3, Zenon
    <3> QED
      BY <3>4, Zenon DEF i
  <2> HIDE DEF u, e
  <2> DEFINE w == Append(u, e)
  <2>11. /\ h[k + 1] = w /\ Len(w) = Len(u) + 1 /\ w[Len(u) + 1] = e
         /\ \A i \in 1..Len(u) : w[i] = u[i]
    BY <2>7, <2>8, <2>10, Appended
  <2> HIDE DEF w
  <2>12. \A i \in 1..k : w[i] = s[i]
    <3> SUFFICES ASSUME NEW i \in 1..k PROVE w[i] = s[i]
      OBVIOUS
    <3>1. i \in 1 .. k - 1 \/ i = k
      BY <2>5
    <3> QED
      BY <2>5, <2>6, <2>11, <3>1 DEF e
  <2>13. Good(k)
    BY <2>5, <2>6, <2>11, <2>12
  <2> QED
    BY <2>3, <2>13
<1>12. Good(N) /\ N + 1 = m /\ m \in 0..m
  <2>1. N \in 0..N /\ N + 1 = m /\ m \in 0..m
    BY <1>4
  <2> HIDE DEF Good
  <2>2. Good(N)
    BY <1>11, <2>1
  <2> QED
    BY <2>1, <2>2, Zenon
<1>13. h[m] \in Seq(Name) /\ Len(h[m]) = Len(s) /\ \A i \in 1..Len(s) : h[m][i] = s[i]
  BY <1>12 DEF N
<1>14. Len(h[m]) = Len(s) /\ \A i \in 1..Len(h[m]) : h[m][i] = s[i]
  BY <1>13
<1>15. h[m] = s
  BY <1>13, <1>14, SeqEqual
<1> QED
  BY <1>9, <1>15 DEF Names, parts, p

LEMMA NamesOfRoot == Names(Root) = <<>>
<1> DEFINE m == 2
           parts == [i \in DOMAIN Root |-> IF Root[i] = Empty THEN <<>> ELSE <<Root[i]>>]
<1>0. m \in Nat /\ m = 2
  OBVIOUS
<1> HIDE DEF m
<1>1. Root \in Seq(Name) /\ Len(Root) = 2 /\ Root[1] = Empty /\ Root[2] = Empty
  BY Specials, ConcatTwo DEF Root
<1>2. DOMAIN Root = 1..m
  BY <1>0, <1>1
<1>3. \A i \in 1..m : Root[i] = Empty
  BY <1>0, <1>1
<1>4. \A i \in 1..m : parts[i] = <<>>
  BY <1>2, <1>3
<1>5. parts \in [1..m -> Seq(Name)]
  BY <1>2, <1>3
<1> HIDE DEF parts
<1>6. Flattens(m, parts, Name)
  BY <1>0, <1>5, FlattenEach
<1>7. PICK h \in [0..m -> Seq(Name)] :
         h[0] = <<>> /\ (\A k \in 1..m : h[k] = h[k - 1] \o parts[k]) /\ FlattenSeq(parts) = h[m]
  BY <1>6, Zenon DEF Flattens
<1>8. 1 \in 1..m /\ 2 \in 1..m
  BY <1>0
<1>9. h[1] = h[1 - 1] \o parts[1] /\ h[2] = h[2 - 1] \o parts[2]
  BY <1>7, <1>8, Zenon
<1>10. 1 - 1 = 0 /\ 2 - 1 = 1 /\ <<>> \o <<>> = <<>>
  OBVIOUS
<1>11. FlattenSeq(parts) = <<>>
  BY <1>0, <1>4, <1>7, <1>8, <1>9, <1>10, Zenon
<1> QED
  BY <1>11 DEF Names, parts

LEMMA NamesOfClean ==
    ASSUME NEW p \in Path, IsAbsolute(p)
    PROVE  Names(CleanPath(p)) = Cleaned(p)
<1> DEFINE c == Cleaned(p)
<1>1. c \in Seq(Name) /\ IsClean(c)
  BY PathIs, CleanedClean
<1>2. \A i \in 1..Len(c) : c[i] # Empty
  BY <1>1 DEF IsClean
<1>3. p # NoString
  BY AbsoluteNotNone
<1>4. CASE c = <<>>
  BY <1>3, <1>4, NamesOfRoot DEF CleanPath
<1>5. CASE c # <<>>
  <2>1. CleanPath(p) = <<Empty>> \o c
    BY <1>3, <1>5 DEF CleanPath
  <2> HIDE DEF c
  <2> QED
    BY <1>1, <1>2, <2>1, NamesIs DEF c
<1> QED
  BY <1>4, <1>5

LEMMA IsPrefixOf ==
    ASSUME NEW S, NEW s \in Seq(S), NEW n \in 0..Len(s)
    PROVE  /\ SubSeq(s, 1, n) \in Seq(S) /\ Len(SubSeq(s, 1, n)) = n
           /\ SubSeq(SubSeq(s, 1, n), 1, n) = SubSeq(s, 1, n)
<1> DEFINE u == SubSeq(s, 1, n)
<1>1. u \in Seq(S) /\ Len(u) = n
  OBVIOUS
<1> HIDE DEF u
<1>2. SubSeq(u, 1, Len(u)) = u
  BY <1>1, SubSeqFull
<1> QED
  BY <1>1, <1>2 DEF u

\* The longest common prefix of two sequences is as long as neither, and they have it.
LEMMA CommonPart ==
    ASSUME NEW S, NEW s \in Seq(S), NEW t \in Seq(S)
    PROVE  LET n == Len(LongestCommonPrefix({s, t}))
           IN /\ n \in 0..Len(s) /\ n \in 0..Len(t)
              /\ SubSeq(s, 1, n) = SubSeq(t, 1, n)
<1> DEFINE C == CommonPrefixes({s, t})
           N == Len(s)
<1>1. N \in Nat /\ Len(t) \in Nat
  OBVIOUS
<1>2. \A u \in C : /\ Len(u) \in 0..N /\ Len(u) \in 0..Len(t)
                   /\ SubSeq(s, 1, Len(u)) = SubSeq(t, 1, Len(u))
  <2> SUFFICES ASSUME NEW u \in C
               PROVE  /\ Len(u) \in 0..N /\ Len(u) \in 0..Len(t)
                      /\ SubSeq(s, 1, Len(u)) = SubSeq(t, 1, Len(u))
    OBVIOUS
  <2>1. IsPrefix(u, s) /\ IsPrefix(u, t)
    BY DEF CommonPrefixes
  <2>2. \E q \in {s, t} : \E l \in 0..Len(q) : u = SubSeq(q, 1, l)
    BY DEF CommonPrefixes, Prefixes
  <2>3. Len(u) \in Nat
    BY <2>2, IsPrefixOf
  <2> QED
    BY <1>1, <2>1, <2>3 DEF IsPrefix
<1>3. SubSeq(s, 1, 0) \in C
  <2> DEFINE z == SubSeq(s, 1, 0)
  <2>1. z = <<>> /\ SubSeq(t, 1, 0) = <<>> /\ Len(z) = 0 /\ SubSeq(z, 1, 0) = <<>>
    BY SubSeqEmpty
  <2>2. z \in Prefixes(s)
    BY <1>1 DEF Prefixes
  <2> HIDE DEF z
  <2>3. IsPrefix(z, s) /\ IsPrefix(z, t)
    <3>1. SubSeq(s, 1, 0) = <<>>
      BY <2>1 DEF z
    <3> QED
      BY <1>1, <2>1, <3>1 DEF IsPrefix
  <2> QED
    BY <2>2, <2>3 DEF CommonPrefixes, z
<1> HIDE DEF C
<1>4. \E u \in C : \A v \in C : Len(v) <= Len(u)
  <2> DEFINE R == {N - Len(u) : u \in C}
  <2>1. R \in SUBSET Nat /\ R # {}
    BY <1>1, <1>2, <1>3
  <2>2. PICK m \in R : \A x \in R : m <= x
    BY <2>1, LeastNatural
  <2>3. PICK u \in C : m = N - Len(u)
    OBVIOUS
  <2>4. \A v \in C : N - Len(v) \in R
    OBVIOUS
  <2> HIDE DEF R
  <2>5. ASSUME NEW v \in C PROVE Len(v) <= Len(u)
    <3>1. N - Len(u) <= N - Len(v)
      BY <2>2, <2>3, <2>4
    <3>2. Len(u) \in 0..N /\ Len(v) \in 0..N
      BY <1>2
    <3> QED
      BY <1>1, <3>1, <3>2
  <2> QED
    BY <2>5
<1>5. LongestCommonPrefix({s, t}) \in C
  BY <1>4 DEF LongestCommonPrefix, C
<1> QED
  BY <1>2, <1>5

LEMMA PlainParts ==
    ASSUME NEW s \in Seq(Name), IsPlain(s), NEW n \in 0..Len(s)
    PROVE  /\ SubSeq(s, n + 1, Len(s)) \in Seq(Name) /\ IsPlain(SubSeq(s, n + 1, Len(s)))
           /\ SubSeq(s, 1, n) \in Seq(Name)
           /\ SubSeq(s, 1, n) \o SubSeq(s, n + 1, Len(s)) = s
<1> DEFINE N == Len(s)
           k == N - n
           v == SubSeq(s, n + 1, n + k)
<1>1. N \in Nat /\ k \in Nat /\ n \in Nat /\ n + k = N /\ n + k <= Len(s)
  OBVIOUS
<1>2. SubSeq(s, n + 1, Len(s)) = v
  BY <1>1
<1> HIDE DEF k
<1>3. v \in Seq(Name) /\ Len(v) = k /\ \A i \in 1..k : v[i] = s[n + i]
  BY <1>1, SubSeqIs
<1> HIDE DEF v
<1>4. IsPlain(v)
  <2>1. ASSUME NEW i \in 1..k PROVE v[i] \notin {Empty, Dot, DotDot}
    <3>1. n + i \in 1..Len(s)
      BY <1>1
    <3>2. v[i] = s[n + i]
      BY <1>3
    <3> QED
      BY <3>1, <3>2 DEF IsPlain
  <2> QED
    BY <1>3, <2>1 DEF IsPlain
<1>5. SubSeq(s, 1, n) \in Seq(Name)
  BY IsPrefixOf
<1>6. SubSeq(s, 1, n) \o SubSeq(s, n + 1, Len(s)) = SubSeq(s, 1, Len(s))
  <2>1. 1 \in 1 .. Len(s) + 1 /\ n \in 1 - 1 .. Len(s) /\ Len(s) \in n .. Len(s)
    BY <1>1
  <2> QED
    BY <2>1, ConcatAdjacentSubSeq
<1>7. SubSeq(s, 1, Len(s)) = s
  BY SubSeqFull
<1> QED
  BY <1>2, <1>3, <1>4, <1>5, <1>6, <1>7

\* The names relative gives lead from one clean path to the other.
LEMMA NamesLead ==
    ASSUME NEW up \in Seq(Name), NEW down \in Seq(Name), IsPlain(up), IsPlain(down)
    PROVE  LET n == Len(LongestCommonPrefix({up, down}))
               names == Ups(Len(up) - n) \o SubSeq(down, n + 1, Len(down))
           IN names \in Seq(Name) /\ After(up, names) = down
              /\ \A i \in 1..Len(names) : names[i] \notin {Empty, Dot}
<1> DEFINE n == Len(LongestCommonPrefix({up, down}))
           k == Len(up) - n
           rest == SubSeq(down, n + 1, Len(down))
           names == Ups(k) \o rest
<1>1. n \in 0..Len(up) /\ n \in 0..Len(down) /\ SubSeq(up, 1, n) = SubSeq(down, 1, n)
  BY CommonPart
<1> HIDE DEF n
<1>2. k \in 0..Len(up) /\ Len(up) - k = n /\ k \in Nat
  BY <1>1
<1>3. rest \in Seq(Name) /\ IsPlain(rest) /\ SubSeq(down, 1, n) \in Seq(Name)
      /\ SubSeq(down, 1, n) \o rest = down
  BY <1>1, PlainParts
<1> HIDE DEF k, rest
<1>4. Ups(k) \in Seq(Name) /\ Len(Ups(k)) = k /\ \A i \in 1..k : Ups(k)[i] = DotDot
  BY <1>2, UpsAre
<1>5. After(up, Ups(k)) = SubSeq(up, 1, n)
  BY <1>2, AfterUps
<1>6. After(up, names) = After(After(up, Ups(k)), rest)
  BY <1>3, <1>4, AfterBoth
<1>7. After(SubSeq(down, 1, n), rest) = SubSeq(down, 1, n) \o rest
  BY <1>3, AfterPlain
<1>8. names \in Seq(Name) /\ \A i \in 1..Len(names) : names[i] \notin {Empty, Dot}
  <2> DEFINE u == Ups(k)
  <2>1. u \in Seq(Name) /\ Len(u) = k /\ \A i \in 1..k : u[i] = DotDot
    BY <1>4
  <2> HIDE DEF u
  <2>2. /\ u \o rest \in Seq(Name) /\ Len(u \o rest) = Len(u) + Len(rest)
        /\ Len(rest) \in Nat
        /\ \A j \in 1..Len(u) : (u \o rest)[j] = u[j]
        /\ \A j \in 1..Len(rest) : (u \o rest)[Len(u) + j] = rest[j]
    BY <1>3, <2>1, ConcatIs
  <2> DEFINE w == u \o rest
  <2> HIDE DEF w
  <2>3. ASSUME NEW i \in 1..Len(w) PROVE w[i] \notin {Empty, Dot}
    <3>1. CASE i \in 1..k
      BY <2>1, <2>2, <3>1, Specials DEF w
    <3>2. CASE i \notin 1..k
      <4> DEFINE j == i - k
      <4>1. j \in 1..Len(rest) /\ i = Len(u) + j
        BY <1>2, <2>1, <2>2, <3>2 DEF w
      <4> HIDE DEF j
      <4>2. w[i] = rest[j]
        BY <2>2, <4>1 DEF w
      <4> QED
        BY <1>3, <4>1, <4>2 DEF IsPlain
    <3> QED
      BY <3>1, <3>2
  <2> QED
    BY <2>2, <2>3 DEF w, u
<1> QED
  BY <1>1, <1>3, <1>5, <1>6, <1>7, <1>8 DEF n, k, rest


LEMMA NotUnlessUp ==
    ASSUME NEW s \in Seq(Name), IsClean(s), DotDot \notin Range(s)
    PROVE  IsPlain(s)
<1> SUFFICES ASSUME NEW i \in 1..Len(s) PROVE s[i] \notin {Empty, Dot, DotDot}
  BY DEF IsPlain
<1>1. s[i] \notin {Empty, Dot}
  BY DEF IsClean
<1>2. s[i] \in Range(s)
  BY DEF Range
<1> QED
  BY <1>1, <1>2

\* An absolute path that names no place above the root.
LEMMA PlainInside ==
    ASSUME NEW p \in Path, IsAbsolute(p), DotDot \notin Range(CleanPath(p))
    PROVE  Cleaned(p) \in Seq(Name) /\ IsPlain(Cleaned(p))
<1> DEFINE c == Cleaned(p)
<1>1. c \in Seq(Name) /\ IsClean(c)
  BY PathIs, CleanedClean
<1>2. p # NoString
  BY AbsoluteNotNone
<1>3. CASE c = <<>>
  <2>1. Len(c) = 0
    BY <1>3
  <2> HIDE DEF c
  <2> QED
    BY <1>1, <2>1 DEF IsPlain, c
<1>4. CASE c # <<>>
  <2>1. CleanPath(p) = <<Empty>> \o c
    BY <1>2, <1>4 DEF CleanPath
  <2> HIDE DEF c
  <2> DEFINE u == <<Empty>> \o c
  <2>2. /\ u \in Seq(Name) /\ Len(u) = Len(c) + 1 /\ Len(c) \in Nat
        /\ \A k \in 1..Len(c) : u[k + 1] = c[k]
    BY <1>1, Specials, Prepended
  <2>3. DotDot \notin Range(u)
    BY <2>1
  <2> HIDE DEF u
  <2>4. \A i \in 1..Len(u) : u[i] # DotDot
    BY <2>2, <2>3 DEF Range
  <2>5. \A i \in 1..Len(c) : c[i] # DotDot
    <3> SUFFICES ASSUME NEW i \in 1..Len(c) PROVE c[i] # DotDot
      OBVIOUS
    <3>1. i + 1 \in 1..Len(u)
      BY <2>2
    <3> QED
      BY <2>2, <2>4, <3>1
  <2>6. IsPlain(c)
    BY <1>1, <2>5 DEF IsPlain, IsClean
  <2> QED
    BY <1>1, <2>6 DEF c
<1> QED
  BY <1>3, <1>4

\* The names relativeFilePath starts from: a slash at the end makes no difference.
LEMMA UpNames ==
    ASSUME NEW wd \in Path, IsAbsolute(wd), NEW p \in Path
    PROVE  Names(CleanPath(AbsoluteFilePath(p, wd))) = Cleaned(FullPath(p, wd))
<1> DEFINE full == IF p \in {NoString, Here} THEN wd ELSE FullPath(p, wd)
           clean == CleanPath(full)
           file == AbsoluteFilePath(p, wd)
<1>1. full \in Path /\ IsAbsolute(full)
  BY FullPathIs
<1>2. clean \in Path /\ IsAbsolute(clean) /\ Cleaned(clean) = Cleaned(full)
  BY <1>1, CleanPathIs
<1>3. Cleaned(full) = Cleaned(FullPath(p, wd))
  <2>1. CASE p \in {NoString, Here}
    <3> PICK e \in {Empty, Dot} : p = <<e>>
      BY <2>1 DEF NoString, Here
    <3>1. ~IsAbsolute(p)
      <4>1. Len(<<e>>) = 1
        OBVIOUS
      <4> QED
        BY <4>1 DEF IsAbsolute
    <3>2. wd \in Seq(Name)
      BY PathIs
    <3>3. Cleaned(wd \o <<e>>) = Cleaned(wd)
      BY <3>2, CleanedDropped
    <3> QED
      BY <2>1, <3>1, <3>3 DEF FullPath
  <2>2. CASE p \notin {NoString, Here}
    BY <2>2
  <2> QED
    BY <2>1, <2>2
<1>4. ~IsAbsolute(p) \/ p \notin {NoString, Here}
  <2>1. Len(NoString) = 1 /\ Len(Here) = 1
    BY DEF NoString, Here
  <2>2. ~IsAbsolute(NoString)
    BY <2>1 DEF IsAbsolute
  <2>3. ~IsAbsolute(Here)
    BY <2>1 DEF IsAbsolute
  <2> QED
    BY <2>2, <2>3
<1>5. file = clean \/ file = Append(clean, Empty)
  BY <1>4 DEF AbsoluteFilePath, FullPath
<1> HIDE DEF full, clean, file
<1>6. file \in Path /\ IsAbsolute(file) /\ Cleaned(file) = Cleaned(clean)
  <2>1. CASE file = clean
    BY <1>2, <2>1
  <2>2. CASE file = Append(clean, Empty)
    <3>1. clean \in Seq(Name) /\ Empty \in Name
      BY <1>2, PathIs, Specials
    <3>2. Append(clean, Empty) = clean \o <<Empty>>
      BY <3>1
    <3>3. <<Empty>> \in Path
      BY <3>1, SingleIs DEF Path
    <3>4. clean \o <<Empty>> \in Path /\ IsAbsolute(clean \o <<Empty>>)
      BY <1>2, <3>3, JoinedIs
    <3>5. Cleaned(clean \o <<Empty>>) = Cleaned(clean)
      BY <3>1, CleanedDropped
    <3> QED
      BY <2>2, <3>2, <3>4, <3>5
  <2> QED
    BY <1>5, <2>1, <2>2
<1>7. Names(CleanPath(file)) = Cleaned(file)
  BY <1>6, NamesOfClean
<1> QED
  BY <1>2, <1>3, <1>6, <1>7 DEF file

\* For any names, and in any directory: relative leads from one path to the other, that
\* is absolute, when neither goes above the root (method_relative).
THEOREM RelativeLeads ==
    ASSUME NEW wd \in Path, IsAbsolute(wd), NEW p \in Path, NEW q \in Path, IsAbsolute(q),
           IsPlain(Cleaned(FullPath(p, wd))), IsPlain(Cleaned(q))
    PROVE  Resolve(<<p, Relative(p, q, wd)>>, wd) = CleanPath(q)
<1> DEFINE full == FullPath(p, wd)
           up == Cleaned(full)
           down == Cleaned(q)
           n == Len(LongestCommonPrefix({up, down}))
           names == Ups(Len(up) - n) \o SubSeq(down, n + 1, Len(down))
           r == IF names = <<>> THEN Here ELSE names
<1>1. full \in Path /\ IsAbsolute(full)
  BY FullPathIs
<1>2. up \in Seq(Name) /\ down \in Seq(Name)
  BY <1>1, PathIs, CleanedClean
<1>3. Relative(p, q, wd) = r
  <2>1. IsAbsolute(CleanPath(q))
    BY CleanPathIs
  <2>2. Names(CleanPath(q)) = down
    BY NamesOfClean
  <2>3. Names(CleanPath(AbsoluteFilePath(p, wd))) = up
    BY UpNames
  <2> HIDE DEF up, down
  <2> QED
    BY <2>1, <2>2, <2>3 DEF Relative, RelativeFilePath, Ups
<1> HIDE DEF full
<1>4. names \in Seq(Name) /\ After(up, names) = down
      /\ \A i \in 1..Len(names) : names[i] \notin {Empty, Dot}
  <2>1. IsPlain(up) /\ IsPlain(down)
    BY DEF full
  <2> HIDE DEF up, down
  <2> QED
    BY <1>2, <2>1, NamesLead
<1> HIDE DEF names, down
<1>5. r \in Path /\ ~IsAbsolute(r) /\ After(up, r) = down
  <2>1. CASE names = <<>>
    <3>1. After(up, names) = up
      BY <1>2, <2>1, AfterNone
    <3>2. Here = <<Dot>> /\ After(up, <<Dot>>) = up
      BY <1>2, AfterDropped DEF Here
    <3>3. <<Dot>> \in Path /\ Len(<<Dot>>) = 1
      BY Specials, SingleIs DEF Path
    <3> QED
      BY <1>4, <2>1, <3>1, <3>2, <3>3 DEF IsAbsolute
  <2>2. CASE names # <<>>
    <3>1. names \in Path
      BY <1>4, <2>2 DEF Path
    <3>2. Len(names) \in Nat \ {0}
      BY <3>1, PathIs
    <3>3. names[1] # Empty
      BY <1>4, <3>2
    <3> QED
      BY <1>4, <2>2, <3>1, <3>3 DEF IsAbsolute
  <2> QED
    BY <2>1, <2>2
<1> HIDE DEF r
<1>6. Resolve(<<p, r>>, wd) = CleanPath(full \o r)
  BY <1>5, ResolveTwo DEF full
<1>7. IsAbsolute(full \o r) /\ full \o r # NoString /\ Cleaned(full \o r) = down
  BY <1>1, <1>5, JoinedIs
<1>8. q # NoString
  BY AbsoluteNotNone
<1>9. CleanPath(full \o r) = CleanPath(q)
  BY <1>7, <1>8, CleanPathSame DEF down
<1> QED
  BY <1>3, <1>6, <1>9

-----------------------------------------------------------------------------
(* The property. *)

LEMMA SomePaths ==
    /\ SomePath \subseteq Path
    /\ Cwd \in Path /\ IsAbsolute(Cwd)
<1> DEFINE a == "a"
           b == "b"
           u == "u"
           x == "x"
<1>1. a \in Letters /\ b \in Letters /\ u \in Letters /\ x \in Letters
  BY DEF Letters
<1>2. /\ SomeName = {Empty, Dot, DotDot, <<a>>, <<a, x>>, <<a, b, x>>}
      /\ Cwd = <<Empty, <<u>>, <<a>>>>
  BY DEF SomeName, Cwd
<1> HIDE DEF a, b, u, x
<1>3. <<a>> \in Name /\ <<u>> \in Name
  <2>1. <<a>> \in Seq(Letters) /\ <<u>> \in Seq(Letters) /\ <<a>> # <<>> /\ <<u>> # <<>>
    BY <1>1, SingleIs
  <2> QED
    BY <2>1 DEF Name
<1>4. <<a, x>> \in Name
  <2>1. <<a, x>> \in Seq(Letters) /\ Len(<<a, x>>) = 2 /\ Len(<<>>) = 0
    BY <1>1
  <2> QED
    BY <2>1 DEF Name
<1>5. <<a, b, x>> \in Name
  <2>1. <<a, b, x>> \in Seq(Letters) /\ Len(<<a, b, x>>) = 3 /\ Len(<<>>) = 0
    BY <1>1
  <2> QED
    BY <2>1 DEF Name
<1>6. SomeName \subseteq Name
  BY <1>2, <1>3, <1>4, <1>5, Specials
<1>7. Cwd \in Path /\ IsAbsolute(Cwd)
  <2> DEFINE v == <<u>>
             w == <<a>>
  <2>1. v \in Name /\ w \in Name /\ Empty \in Name /\ Cwd = <<Empty, v, w>>
    BY <1>2, <1>3, Specials
  <2> HIDE DEF v, w
  <2>2. <<Empty, v, w>> \in Seq(Name) /\ Len(<<Empty, v, w>>) = 3
        /\ <<Empty, v, w>>[1] = Empty /\ Len(<<>>) = 0
    BY <2>1
  <2> QED
    BY <2>1, <2>2 DEF Path, IsAbsolute
<1>8. SomePath \subseteq Path
  <2> SUFFICES ASSUME NEW p \in SomePath PROVE p \in Path
    OBVIOUS
  <2>1. PICK k \in 1..MaxNames : p \in [1..k -> SomeName]
    BY DEF SomePath
  <2>2. MaxNames \in Nat
    BY LibraryAssumption
  <2>3. k \in Nat \ {0} /\ p \in [1..k -> Name]
    BY <1>6, <2>1, <2>2
  <2>4. p \in Seq(Name) /\ Len(p) = k /\ Len(<<>>) = 0
    BY <2>3
  <2> QED
    BY <2>3, <2>4 DEF Path
<1> QED
  BY <1>7, <1>8

LEMMA PathsInit == Init => PathsAgree
<1> SUFFICES ASSUME Init, Is("path") PROVE PathsAgree
  BY DEF PathsAgree
<1> DEFINE p == input.p
           q == input.q
           n == Last(p)
           Absolute(y) == Resolve(<<y>>, Cwd)
           Inside(y) == DotDot \notin Range(Absolute(y))
<1>1. p \in Path /\ q \in Path
  <2>1. p \in SomePath /\ q \in SomePath
    BY DEF Init, PathInput, BufferInput, UtilInput, AssertInput, Is
  <2> QED
    BY <2>1, SomePaths
<1> DEFINE wd == Cwd
<1>2. wd \in Path /\ IsAbsolute(wd)
  BY SomePaths
<1> HIDE DEF p, q, wd
<1>3. ASSUME NEW y \in Path
      PROVE  /\ Absolute(y) = CleanPath(FullPath(y, wd)) /\ FullPath(y, wd) \in Path
             /\ IsAbsolute(FullPath(y, wd))
  <2>1. Resolve(<<y>>, wd) = CleanPath(FullPath(y, wd))
    BY <1>2, ResolveOne
  <2> QED
    BY <1>2, <2>1, FullPathIs DEF wd
<1>4. Normalize(Normalize(p)) = Normalize(p)
  BY <1>1, CleanPathTwice DEF Normalize
<1>5. IsAbsolute(Absolute(p)) /\ Normalize(Absolute(p)) = Absolute(p)
  BY <1>1, <1>3, CleanPathTwice, CleanPathIs DEF Normalize
<1>6. p # NoString /\ ~IsAbsolute(q) => Resolve(<<p, q>>, Cwd) = Absolute(Join(<<p, q>>))
  BY <1>1, <1>2, ResolveIsJoin DEF wd
<1>7. ASSUME IsAbsolute(q)
      PROVE  /\ Resolve(<<p, q>>, Cwd) = Absolute(q)
             /\ Inside(p) /\ Inside(q) =>
                   Resolve(<<p, Relative(p, q, Cwd)>>, Cwd) = Absolute(q)
  <2>1. Absolute(q) = CleanPath(q)
    BY <1>1, <1>3, <1>7 DEF FullPath
  <2>2. Resolve(<<p, q>>, wd) = CleanPath(q)
    BY <1>1, <1>2, <1>7, ResolveTwo
  <2>3. ASSUME Inside(p), Inside(q) PROVE Resolve(<<p, Relative(p, q, wd)>>, wd) = CleanPath(q)
    <3>1. IsPlain(Cleaned(FullPath(p, wd)))
      BY <1>1, <1>3, <2>3, PlainInside
    <3>2. IsPlain(Cleaned(q))
      BY <1>1, <1>7, <2>1, <2>3, PlainInside
    <3> QED
      BY <1>1, <1>2, <1>7, <3>1, <3>2, RelativeLeads
  <2> QED
    BY <2>1, <2>2, <2>3 DEF wd
<1>8. ASSUME p # NoString, n \notin {Dot, DotDot}
      PROVE  Resolve(<<Dirname(p, Cwd), <<Basename(p, Empty)>>>>, Cwd) = Absolute(p)
  BY <1>1, <1>2, <1>8, PathAgain DEF wd
<1>9. ASSUME Extname(p) # Empty PROVE Basename(p, <<"">> \o Extname(p)) \o Extname(p) = n
  BY <1>1, <1>9, NameAgain
<1> HIDE DEF n
<1> QED
  BY <1>4, <1>5, <1>6, <1>7, <1>8, <1>9 DEF PathsAgree, p, q, n

\* However many names the paths have, the functions of path agree with each other
\* (PathModule: normalize, join, resolve, relative, dirname, basename and extname).
THEOREM PathsCorrect == Spec => []PathsAgree
BY InputStays, PathsInit, PTL
=============================================================================
