----------------------------- MODULE DataProofs -----------------------------
(***************************************************************************)
(* Lemmas about data, for the proofs about the components.  They are by    *)
(* induction, which is stated without a predicate: every non-empty set of  *)
(* numbers has a least element, and that of the counterexamples is then    *)
(* contradictory.                                                          *)
(***************************************************************************)
EXTENDS Groups, WellFoundedInduction, TLAPS

\* Every non-empty set of natural numbers has a least element.
LEMMA LeastNumber ==
  ASSUME NEW T, T \subseteq Nat, T # {}
  PROVE  \E x \in T : \A y \in T : x <= y
<1> DEFINE R == OpToRel(<, Nat)
<1>1. IsWellFoundedOn(R, Nat)
  BY NatLessThanWellFounded
<1>2. PICK x \in T : \A y \in T : ~(<<y, x>> \in R)
  <2> HIDE DEF R
  <2> QED  BY <1>1, WFMin
<1>3. ASSUME NEW y \in T
      PROVE  x <= y
  <2>1. ~(y < x)
    BY <1>2, <1>3 DEF OpToRel
  <2>2. QED
    BY <2>1
<1>4. QED
  BY <1>3

----------------------------------------------------------------------------
(* Copying groups.                                                         *)

\* c is what the loop has copied, round by round, up to round m.
Copied(s, u, m, c) ==
  /\ DOMAIN c = 0..m
  /\ c[0] = <<>>
  /\ \A n \in 1..m : c[n] = IF s[n] \in u THEN c[n - 1] ELSE Append(c[n - 1], s[n])

\* The loop can be carried out.
LEMMA CopiedExists ==
  ASSUME NEW s, NEW u, NEW m \in Nat
  PROVE  \E c : Copied(s, u, m, c)
<1> DEFINE Stuck == {n \in Nat : ~\E c : Copied(s, u, n, c)}
<1>1. SUFFICES ASSUME Stuck # {}
               PROVE  FALSE
  OBVIOUS
<1>2. PICK n \in Stuck : \A k \in Stuck : n <= k
  <2>1. Stuck \subseteq Nat
    OBVIOUS
  <2> HIDE DEF Stuck
  <2>2. QED
    BY <1>1, <2>1, LeastNumber
<1>3. n # 0
  <2>1. Copied(s, u, 0, [k \in 0..0 |-> <<>>])
    BY DEF Copied
  <2>2. QED
    BY <2>1
<1>4. PICK c : Copied(s, u, n - 1, c)
  <2>1. n - 1 \in Nat /\ ~(n <= n - 1)
    BY <1>3
  <2>2. n - 1 \notin Stuck
    BY <1>2, <2>1
  <2>3. QED
    BY <2>1, <2>2
<1> DEFINE d == [k \in 0..n |->
                   IF k = n THEN IF s[n] \in u THEN c[n - 1] ELSE Append(c[n - 1], s[n])
                   ELSE c[k]]
<1>5. Copied(s, u, n, d)
  BY <1>3, <1>4 DEF Copied
<1>6. QED
  BY <1>2, <1>5

\* Without is what the loop has copied in the end.
LEMMA WithoutCopied ==
  ASSUME NEW s, NEW u, Len(s) \in Nat
  PROVE  \E c : Copied(s, u, Len(s), c) /\ Without(s, u) = c[Len(s)]
<1> DEFINE Round(c) == [n \in 0..Len(s) |->
                         IF n = 0 THEN <<>>
                         ELSE IF s[n] \in u THEN c[n - 1]
                         ELSE Append(c[n - 1], s[n])]
           made == CHOOSE c : c = Round(c)
<1>1. \E c : c = Round(c)
  <2>1. PICK c : Copied(s, u, Len(s), c)
    BY CopiedExists
  <2> DEFINE d == [n \in 0..Len(s) |-> c[n]]
  <2>2. ASSUME NEW n \in 0..Len(s)
        PROVE  d[n] = Round(d)[n]
    <3>1. CASE n = 0
      BY <2>1, <3>1 DEF Copied
    <3>2. CASE n # 0
      <4>1. n \in 1..Len(s) /\ n - 1 \in 0..Len(s)
        BY <3>2
      <4>2. c[n] = IF s[n] \in u THEN c[n - 1] ELSE Append(c[n - 1], s[n])
        BY <2>1, <4>1 DEF Copied
      <4>3. d[n - 1] = c[n - 1] /\ d[n] = c[n]
        BY <4>1
      <4> HIDE DEF d
      <4>4. QED
        BY <3>2, <4>2, <4>3
    <3>3. QED
      BY <3>1, <3>2
  <2>3. d = Round(d)
    BY <2>2
  <2>4. QED
    BY <2>3
<1>2. made = Round(made)
  BY <1>1
<1>3. Without(s, u) = made[Len(s)]
  BY DEF Without
<1> HIDE DEF made
<1>4. Copied(s, u, Len(s), made)
  <2>1. DOMAIN made = 0..Len(s)
    BY <1>2
  <2>2. made[0] = <<>>
    <3>1. 0 \in 0..Len(s)
      OBVIOUS
    <3>2. QED
      BY <1>2, <3>1
  <2>3. ASSUME NEW n \in 1..Len(s)
        PROVE  made[n] = IF s[n] \in u THEN made[n - 1] ELSE Append(made[n - 1], s[n])
    <3>1. n \in 0..Len(s) /\ n # 0
      OBVIOUS
    <3>2. QED
      BY <1>2, <3>1
  <2>4. QED
    BY <2>1, <2>2, <2>3 DEF Copied
<1>5. QED
  BY <1>3, <1>4

\* w holds what is wanted of the first m groups of s: e tells where each was.
Picks(s, u, m, w, e) ==
  /\ e \in [1..Len(w) -> 1..m]
  /\ \A j \in 1..Len(w) : w[j] = s[e[j]]
  /\ \A j, k \in 1..Len(w) : j < k => e[j] < e[k]
  /\ \A i \in 1..m : s[i] \notin u => \E j \in 1..Len(w) : e[j] = i

\* One round of the loop keeps that.
LEMMA PicksOneMore ==
  ASSUME NEW S, NEW s \in Seq(S), NEW u, NEW m \in 0..(Len(s) - 1),
         NEW w \in Seq(S \ u), NEW e, Picks(s, u, m, w, e), s[m + 1] \notin u
  PROVE  /\ Append(w, s[m + 1]) \in Seq(S \ u)
         /\ \E d : Picks(s, u, m + 1, Append(w, s[m + 1]), d)
<1> DEFINE v == Append(w, s[m + 1])
           d == [j \in 1..Len(v) |-> IF j = Len(v) THEN m + 1 ELSE e[j]]
<1>1. s[m + 1] \in S \ u /\ Len(s) \in Nat /\ m \in Nat
  OBVIOUS
<1>2. /\ v \in Seq(S \ u) /\ Len(v) = Len(w) + 1 /\ Len(w) \in Nat
      /\ v[Len(v)] = s[m + 1] /\ \A j \in 1..Len(w) : v[j] = w[j]
  BY <1>1
<1> HIDE DEF v
<1>3. \A j \in 1..Len(v) : j = Len(v) \/ j \in 1..Len(w)
  BY <1>2
<1>4. \A j \in 1..Len(w) : e[j] \in 1..m
  BY DEF Picks
<1>5. d \in [1..Len(v) -> 1..(m + 1)]
  BY <1>1, <1>3, <1>4
<1>6. \A j \in 1..Len(v) : v[j] = s[d[j]]
  BY <1>2, <1>3 DEF Picks
<1>7. ASSUME NEW j \in 1..Len(v), NEW k \in 1..Len(v), j < k
      PROVE  d[j] < d[k]
  <2>1. j \in 1..Len(w) /\ d[j] = e[j]
    BY <1>2, <1>3, <1>7
  <2>2. CASE k = Len(v)
    BY <1>1, <1>4, <2>1, <2>2
  <2>3. CASE k # Len(v)
    BY <1>3, <1>7, <2>1, <2>3 DEF Picks
  <2>4. QED
    BY <2>2, <2>3
<1>8. ASSUME NEW i \in 1..(m + 1), s[i] \notin u
      PROVE  \E j \in 1..Len(v) : d[j] = i
  <2>1. CASE i = m + 1
    <3>1. Len(v) \in 1..Len(v)
      BY <1>2
    <3>2. QED
      BY <2>1, <3>1
  <2>2. CASE i # m + 1
    <3>1. PICK j \in 1..Len(w) : e[j] = i
      BY <1>1, <1>8, <2>2 DEF Picks
    <3>2. j \in 1..Len(v) /\ j # Len(v)
      BY <1>2
    <3>3. QED
      BY <3>1, <3>2
  <2>3. QED
    BY <2>1, <2>2
<1>9. Picks(s, u, m + 1, v, d)
  <2> HIDE DEF d
  <2> QED  BY <1>5, <1>6, <1>7, <1>8 DEF Picks
<1>10. QED
  BY <1>2, <1>9 DEF v

\* Whatever is left out, the rest is copied, all of it, once, and in order.
THEOREM WithoutExact ==
  ASSUME NEW S, NEW s \in Seq(S), NEW u
  PROVE  /\ Without(s, u) \in Seq(S \ u)
         /\ \E e : Picks(s, u, Len(s), Without(s, u), e)
<1>0. Len(s) \in Nat
  OBVIOUS
<1>1. PICK c : Copied(s, u, Len(s), c) /\ Without(s, u) = c[Len(s)]
  BY <1>0, WithoutCopied
<1> DEFINE Good(n) == c[n] \in Seq(S \ u) /\ \E e : Picks(s, u, n, c[n], e)
           Wrong == {n \in 0..Len(s) : ~Good(n)}
<1>2. Wrong = {}
  <2>1. SUFFICES ASSUME Wrong # {}
                 PROVE  FALSE
    OBVIOUS
  <2>2. PICK n \in Wrong : \A k \in Wrong : n <= k
    <3>1. Wrong \subseteq Nat
      BY <1>0
    <3> HIDE DEF Wrong
    <3>2. QED
      BY <2>1, <3>1, LeastNumber
  <2>3. n # 0
    <3>1. c[0] = <<>>
      BY <1>1 DEF Copied
    <3>2. Picks(s, u, 0, <<>>, <<>>)
      BY DEF Picks
    <3>3. <<>> \in Seq(S \ u)
      OBVIOUS
    <3>4. QED
      BY <3>1, <3>2, <3>3
  <2>4. n - 1 \in 0..(Len(s) - 1) /\ n \in 1..Len(s) /\ (n - 1) + 1 = n
    BY <1>0, <2>3
  <2>5. Good(n - 1)
    <3>1. n - 1 \notin Wrong
      BY <2>2, <2>4
    <3>2. n - 1 \in 0..Len(s)
      BY <1>0, <2>4
    <3>3. QED
      BY <3>1, <3>2
  <2>6. c[n] = IF s[n] \in u THEN c[n - 1] ELSE Append(c[n - 1], s[n])
    BY <1>1, <2>4 DEF Copied
  <2>7. PICK e : Picks(s, u, n - 1, c[n - 1], e)
    BY <2>5
  <2>8. CASE s[n] \in u
    <3>1. Picks(s, u, n, c[n - 1], e)
      BY <2>4, <2>7, <2>8 DEF Picks
    <3>2. QED
      BY <2>2, <2>5, <2>6, <2>8, <3>1
  <2>9. CASE s[n] \notin u
    <3>1. /\ Append(c[n - 1], s[(n - 1) + 1]) \in Seq(S \ u)
          /\ \E d : Picks(s, u, (n - 1) + 1, Append(c[n - 1], s[(n - 1) + 1]), d)
      <4>1. c[n - 1] \in Seq(S \ u) /\ s[(n - 1) + 1] \notin u
        BY <2>4, <2>5, <2>9
      <4> HIDE DEF Good, Wrong
      <4>2. QED
        BY <2>4, <2>7, <4>1, PicksOneMore
    <3>2. c[n] \in Seq(S \ u) /\ \E d : Picks(s, u, n, c[n], d)
      BY <2>4, <2>6, <2>9, <3>1
    <3>3. QED
      BY <2>2, <3>2
  <2>10. QED
    BY <2>8, <2>9
<1>3. Good(Len(s))
  <2>1. Len(s) \in 0..Len(s)
    BY <1>0
  <2>2. QED
    BY <1>2, <2>1
<1>4. QED
  BY <1>1, <1>3

\* Nothing is left out just when there is nothing unwanted.
THEOREM WithoutNothing ==
  ASSUME NEW S, NEW s \in Seq(S), NEW u
  PROVE  Without(s, u) = s <=> \A i \in 1..Len(s) : s[i] \notin u
<1>0. Len(s) \in Nat
  OBVIOUS
<1>1. ASSUME Without(s, u) = s, NEW i \in 1..Len(s)
      PROVE  s[i] \notin u
  <2>1. s \in Seq(S \ u)
    BY <1>1, WithoutExact
  <2>2. QED
    BY <2>1
<1>2. ASSUME \A i \in 1..Len(s) : s[i] \notin u
      PROVE  Without(s, u) = s
  <2>1. PICK c : Copied(s, u, Len(s), c) /\ Without(s, u) = c[Len(s)]
    BY <1>0, WithoutCopied
  <2> DEFINE Good(n) == c[n] \in Seq(S) /\ Len(c[n]) = n /\ \A i \in 1..n : c[n][i] = s[i]
             Wrong == {n \in 0..Len(s) : ~Good(n)}
  <2>2. Wrong = {}
    <3>1. SUFFICES ASSUME Wrong # {}
                   PROVE  FALSE
      OBVIOUS
    <3>2. PICK n \in Wrong : \A k \in Wrong : n <= k
      <4>1. Wrong \subseteq Nat
        BY <1>0
      <4> HIDE DEF Wrong
      <4>2. QED
        BY <3>1, <4>1, LeastNumber
    <3>3. n # 0
      <4>1. c[0] = <<>>
        BY <2>1 DEF Copied
      <4>2. c[0] \in Seq(S) /\ Len(c[0]) = 0
        BY <4>1
      <4>3. Good(0)
        BY <4>2
      <4>4. QED
        BY <3>2, <4>3
    <3>4. n \in 1..Len(s) /\ n - 1 \in 0..Len(s)
      BY <1>0, <3>3
    <3>5. Good(n - 1)
      BY <3>2, <3>4
    <3>6. c[n] = Append(c[n - 1], s[n])
      BY <1>2, <2>1, <3>4 DEF Copied
    <3>7. s[n] \in S
      BY <3>4
    <3>8. c[n - 1] \in Seq(S) /\ Len(c[n - 1]) = n - 1 /\ n \in Nat
      BY <1>0, <3>4, <3>5
    <3>9. c[n] \in Seq(S) /\ Len(c[n]) = n
      BY <3>6, <3>7, <3>8
    <3>10. ASSUME NEW i \in 1..n
           PROVE  c[n][i] = s[i]
      <4>1. CASE i = n
        BY <3>6, <3>7, <3>8, <4>1
      <4>2. CASE i # n
        <5>1. i \in 1..(n - 1)
          BY <3>8, <4>2
        <5>2. c[n][i] = c[n - 1][i]
          BY <3>6, <3>7, <3>8, <5>1
        <5>3. QED
          BY <3>5, <5>1, <5>2
      <4>3. QED
        BY <4>1, <4>2
    <3>11. Good(n)
      BY <3>9, <3>10
    <3>12. QED
      BY <3>2, <3>11
  <2>3. Good(Len(s))
    <3>1. Len(s) \in 0..Len(s)
      BY <1>0
    <3>2. QED
      BY <2>2, <3>1
  <2>4. QED
    BY <2>1, <2>3
<1>3. QED
  BY <1>1, <1>2
=============================================================================
