--------------------------- MODULE SequenceFacts ---------------------------
(***************************************************************************)
(* Facts about sequences that the proofs of both parsers rest on, in the   *)
(* form in which they are used: element by element; and what a fold over a *)
(* sequence computes, by induction over its places.                        *)
(*                                                                         *)
(* Induction is over sets of numbers: a set of them has a least one, since *)
(* the library's order of the naturals is well-founded.                    *)
(***************************************************************************)
EXTENDS Integers, SequencesExt, SequenceTheorems, WellFoundedInduction, TLAPS

(* The elements of a concatenation, counted within each part.              *)
LEMMA ConcatIs ==
  ASSUME NEW S, NEW s \in Seq(S), NEW t \in Seq(S)
  PROVE  /\ s \o t \in Seq(S) /\ Len(s \o t) = Len(s) + Len(t)
         /\ \A i \in 1 .. Len(s) : (s \o t)[i] = s[i]
         /\ \A i \in 1 .. Len(t) : (s \o t)[Len(s) + i] = t[i]
<1>1. /\ s \o t \in Seq(S) /\ Len(s \o t) = Len(s) + Len(t)
      /\ \A i \in 1 .. Len(s) + Len(t) :
           (s \o t)[i] = IF i <= Len(s) THEN s[i] ELSE t[i - Len(s)]
  BY ConcatProperties
<1>2. Len(s) \in Nat /\ Len(t) \in Nat
  OBVIOUS
<1>3. ASSUME NEW i \in 1 .. Len(s) PROVE (s \o t)[i] = s[i]
  <2>1. i \in 1 .. Len(s) + Len(t) /\ i <= Len(s)
    BY <1>2
  <2>2. QED
    BY <1>1, <2>1
<1>4. ASSUME NEW i \in 1 .. Len(t) PROVE (s \o t)[Len(s) + i] = t[i]
  <2>1. Len(s) + i \in 1 .. Len(s) + Len(t) /\ ~(Len(s) + i <= Len(s))
    BY <1>2
  <2>2. (Len(s) + i) - Len(s) = i
    BY <1>2
  <2>3. QED
    BY <1>1, <2>1, <2>2
<1>5. QED
  BY <1>1, <1>3, <1>4

LEMMA AppendIs ==
  ASSUME NEW S, NEW s \in Seq(S), NEW e \in S
  PROVE  /\ Append(s, e) \in Seq(S) /\ Len(Append(s, e)) = Len(s) + 1
         /\ \A i \in 1 .. Len(s) : Append(s, e)[i] = s[i]
         /\ Append(s, e)[Len(s) + 1] = e
BY AppendProperties

(* A prefix, and the next one.                                             *)
LEMMA PrefixGrows ==
  ASSUME NEW S, NEW s \in Seq(S), NEW n \in Nat, n < Len(s)
  PROVE  /\ SubSeq(s, 1, n) \in Seq(S) /\ s[n + 1] \in S
         /\ SubSeq(s, 1, n + 1) = Append(SubSeq(s, 1, n), s[n + 1])
<1>1. s[n + 1] \in S /\ Len(s) \in Nat
  OBVIOUS
<1>2. /\ SubSeq(s, 1, n) \in Seq(S) /\ Len(SubSeq(s, 1, n)) = n
      /\ \A i \in 1 .. n : SubSeq(s, 1, n)[i] = s[i]
  BY <1>1, SMTT(30)
<1>3. /\ SubSeq(s, 1, n + 1) \in Seq(S) /\ Len(SubSeq(s, 1, n + 1)) = n + 1
      /\ \A i \in 1 .. n + 1 : SubSeq(s, 1, n + 1)[i] = s[i]
  BY <1>1, SMTT(30)
<1> DEFINE t == SubSeq(s, 1, n)
           u == SubSeq(s, 1, n + 1)
<1> HIDE DEF t, u
<1>4. /\ Append(t, s[n + 1]) \in Seq(S) /\ Len(Append(t, s[n + 1])) = n + 1
      /\ \A i \in 1 .. n : Append(t, s[n + 1])[i] = s[i]
      /\ Append(t, s[n + 1])[n + 1] = s[n + 1]
  <2>1. t \in Seq(S) /\ Len(t) = n /\ \A i \in 1 .. n : t[i] = s[i]
    BY <1>2 DEF t
  <2>2. QED
    BY <1>1, <2>1, AppendIs
<1>5. ASSUME NEW i \in 1 .. n + 1 PROVE u[i] = Append(t, s[n + 1])[i]
  <2>1. CASE i = n + 1
    BY <1>3, <1>4, <2>1 DEF u
  <2>2. CASE i # n + 1
    BY <1>3, <1>4, <2>2 DEF u
  <2>3. QED
    BY <2>1, <2>2
<1>6. u = Append(t, s[n + 1])
  BY <1>3, <1>4, <1>5 DEF u
<1>7. QED
  BY <1>1, <1>2, <1>6 DEF t, u
-----------------------------------------------------------------------------
(* Induction.                                                              *)

(* A set of natural numbers has a least one.                               *)
LEMMA LeastOne ==
  ASSUME NEW S, S \subseteq Nat, S # {}
  PROVE  \E m \in S : \A k \in S : m <= k
<1> DEFINE R == OpToRel(<, Nat)
<1>1. IsWellFoundedOn(R, Nat)
  BY NatLessThanWellFounded
<1>2. R = {pair \in Nat \X Nat : pair[1] < pair[2]}
  BY DEF OpToRel
<1> HIDE DEF R
<1>3. PICK m \in S : \A k \in S : <<k, m>> \notin R
  BY <1>1, WFMin
<1>4. ASSUME NEW k \in S PROVE m <= k
  <2>1. <<k, m>> \in Nat \X Nat /\ <<k, m>>[1] = k /\ <<k, m>>[2] = m
    OBVIOUS
  <2>2. ~(k < m)
    BY <1>2, <1>3, <2>1
  <2>3. QED
    BY <2>2
<1>5. QED
  BY <1>4

(* Induction, over a set of numbers.                                       *)
LEMMA InductionUpTo ==
  ASSUME NEW S, NEW n \in Nat, 0 \in S,
         \A m \in Nat : m < n /\ m \in S => m + 1 \in S
  PROVE  n \in S /\ \A m \in 0 .. n : m \in S
<1> DEFINE Others == {m \in 0 .. n : m \notin S}
<1>1. SUFFICES ASSUME Others # {} PROVE FALSE
  OBVIOUS
<1>2. PICK least \in Others : \A k \in Others : least <= k
  <2>1. Others \subseteq Nat
    OBVIOUS
  <2> HIDE DEF Others
  <2>2. QED
    BY <1>1, <2>1, LeastOne
<1>3. least # 0 /\ least \in 0 .. n
  OBVIOUS
<1>4. least - 1 \in Nat /\ least - 1 < n /\ least - 1 \notin Others
  BY <1>2, <1>3
<1>5. least - 1 \in S
  BY <1>4
<1>6. (least - 1) + 1 \in S
  BY <1>4, <1>5
<1>7. QED
  BY <1>3, <1>6

(* A set of numbers that is bounded has a greatest one, which is Max.      *)
LEMMA MaxIs ==
  ASSUME NEW n \in Nat, NEW s \in SUBSET (1 .. n), s # {}
  PROVE  Max(s) \in s /\ \A k \in s : k <= Max(s)
<1> DEFINE Mirror == {n - k : k \in s}
<1>1. Mirror \subseteq Nat /\ Mirror # {}
  <2>1. \A k \in s : n - k \in Nat
    OBVIOUS
  <2>2. QED
    BY <2>1
<1>2. PICK m \in Mirror : \A k \in Mirror : m <= k
  <2> HIDE DEF Mirror
  <2>1. QED
    BY <1>1, LeastOne
<1>3. PICK top \in s : m = n - top
  OBVIOUS
<1>4. ASSUME NEW k \in s PROVE k <= top
  <2>1. n - k \in Mirror
    OBVIOUS
  <2>2. n - top <= n - k
    BY <1>2, <1>3, <2>1
  <2>3. top \in Nat /\ k \in Nat
    OBVIOUS
  <2>4. QED
    BY <2>2, <2>3
<1>5. \A x, y \in s : x >= y <=> y <= x
  OBVIOUS
<1>6. QED
  BY <1>4, <1>5 DEF Max

(* The fold of a function of pairs.                                        *)
FoldBy(step, base, seq) == FoldLeft(LAMBDA acc, e : step[<<acc, e>>], base, seq)

(* One turn of the fold for a set of places, the greatest last.            *)
Turn(step, base, seq, g, s) ==
  IF s = {} THEN base ELSE step[<<g[s \ {Max(s)}], seq[Max(s)]>>]

LEMMA TurnsExist ==
  ASSUME NEW B, NEW E, NEW step \in [B \X E -> B], NEW base \in B, NEW seq \in Seq(E)
  PROVE  \E g : g = [s \in SUBSET (1 .. Len(seq)) |-> Turn(step, base, seq, g, s)]
<1> DEFINE Upto == {n \in Nat :
             \E g : g = [s \in SUBSET (1 .. n) |-> Turn(step, base, seq, g, s)]}
<1>1. Len(seq) \in Nat
  OBVIOUS
<1>2. 0 \in Upto
  <2>1. SUBSET (1 .. 0) = {{}}
    OBVIOUS
  <2> DEFINE g == [s \in SUBSET (1 .. 0) |-> base]
  <2>2. g = [s \in SUBSET (1 .. 0) |-> Turn(step, base, seq, g, s)]
    BY <2>1 DEF Turn
  <2>3. QED
    BY <2>2
<1>3. ASSUME NEW n \in Nat, n \in Upto PROVE n + 1 \in Upto
  <2>1. PICK g : g = [s \in SUBSET (1 .. n) |-> Turn(step, base, seq, g, s)]
    BY <1>3
  <2> DEFINE h == [s \in SUBSET (1 .. n + 1) |->
                     IF n + 1 \in s THEN step[<<g[s \ {n + 1}], seq[n + 1]>>] ELSE g[s]]
  <2>2. ASSUME NEW s \in SUBSET (1 .. n + 1)
        PROVE  h[s] = Turn(step, base, seq, h, s)
    <3>1. CASE n + 1 \in s
      <4>1. Max(s) = n + 1
        <5> HIDE DEF h
        <5>1. s # {} /\ n + 1 \in Nat
          BY <3>1
        <5>2. Max(s) \in s /\ \A k \in s : k <= Max(s)
          BY <5>1, MaxIs
        <5>3. Max(s) \in 1 .. n + 1 /\ n + 1 <= Max(s)
          BY <3>1, <5>2
        <5>4. QED
          BY <5>3
      <4>2. s \ {n + 1} \in SUBSET (1 .. n) /\ s \ {n + 1} \in SUBSET (1 .. n + 1)
        OBVIOUS
      <4>3. h[s \ {n + 1}] = g[s \ {n + 1}]
        BY <4>2
      <4>4. h[s] = step[<<g[s \ {n + 1}], seq[n + 1]>>]
        BY <3>1
      <4> HIDE DEF h
      <4>5. QED
        BY <3>1, <4>1, <4>3, <4>4 DEF Turn
    <3>2. CASE n + 1 \notin s
      <4>1. s \in SUBSET (1 .. n)
        BY <3>2
      <4>2. h[s] = g[s] /\ g[s] = Turn(step, base, seq, g, s)
        <5>1. h[s] = g[s]
          BY <3>2
        <5>2. g[s] = Turn(step, base, seq, g, s)
          BY <2>1, <4>1
        <5>3. QED
          BY <5>1, <5>2
      <4>3. CASE s = {}
        BY <4>2, <4>3 DEF Turn
      <4>4. CASE s # {}
        <5> DEFINE rest == s \ {Max(s)}
        <5>1. rest \in SUBSET (1 .. n) /\ rest \in SUBSET (1 .. n + 1) /\ n + 1 \notin rest
          BY <3>2, <4>1
        <5> HIDE DEF rest
        <5>2. h[rest] = g[rest]
          BY <5>1
        <5> HIDE DEF h
        <5>3. QED
          BY <4>2, <4>4, <5>2 DEF Turn, rest
      <4>5. QED
        BY <4>3, <4>4
    <3>3. QED
      BY <3>1, <3>2
  <2>3. h = [s \in SUBSET (1 .. n + 1) |-> h[s]]
    OBVIOUS
  <2> HIDE DEF h
  <2>4. h = [s \in SUBSET (1 .. n + 1) |-> Turn(step, base, seq, h, s)]
    BY <2>2, <2>3
  <2>5. QED
    BY <2>4
<1> HIDE DEF Upto
<1>4. Len(seq) \in Upto
  BY <1>1, <1>2, <1>3, InductionUpTo
<1>5. QED
  BY <1>4 DEF Upto

(* The values a fold goes through, place by place.                         *)
IsFold(f, step, base, seq) ==
  /\ f[0] = base
  /\ \A n \in 1 .. Len(seq) : f[n] = step[<<f[n - 1], seq[n]>>]
  /\ FoldBy(step, base, seq) = f[Len(seq)]

LEMMA FoldIs ==
  ASSUME NEW B, NEW E, NEW step \in [B \X E -> B], NEW base \in B, NEW seq \in Seq(E)
  PROVE  \E f \in [0 .. Len(seq) -> B] :
           IsFold(f, step, base, seq)
<1> DEFINE g == CHOOSE g : g = [s \in SUBSET (1 .. Len(seq)) |-> Turn(step, base, seq, g, s)]
           f == [n \in 0 .. Len(seq) |-> g[1 .. n]]
<1>1. DOMAIN seq = 1 .. Len(seq) /\ Len(seq) \in Nat
  OBVIOUS
<1>2. FoldBy(step, base, seq) = g[1 .. Len(seq)]
  BY <1>1 DEF FoldBy, FoldLeft, MapThenFoldSet, Turn
<1>3. g = [s \in SUBSET (1 .. Len(seq)) |-> Turn(step, base, seq, g, s)]
  BY TurnsExist
<1> HIDE DEF g
<1>4. f[0] = base
  <2>1. 1 .. 0 = {} /\ {} \in SUBSET (1 .. Len(seq))
    OBVIOUS
  <2>2. g[{}] = Turn(step, base, seq, g, {})
    BY <1>3, <2>1
  <2>3. QED
    BY <1>1, <2>1, <2>2 DEF Turn
<1>5. ASSUME NEW n \in 1 .. Len(seq) PROVE f[n] = step[<<f[n - 1], seq[n]>>]
  <2>1. n \in Nat /\ n \in 1 .. n /\ 1 .. n # {} /\ 1 .. n \in SUBSET (1 .. n)
    <3>1. n \in Nat /\ n \in 1 .. n
      BY <1>1
    <3>2. QED
      BY <3>1
  <2>2. 1 .. n \in SUBSET (1 .. Len(seq)) /\ (1 .. n) \ {n} = 1 .. (n - 1)
    BY <1>1
  <2>3. Max(1 .. n) = n
    <3>1. Max(1 .. n) \in 1 .. n /\ n <= Max(1 .. n)
      BY <2>1, MaxIs
    <3>2. QED
      BY <2>1, <3>1
  <2>4. g[1 .. n] = Turn(step, base, seq, g, 1 .. n)
    BY <1>3, <2>2
  <2>5. g[1 .. n] = step[<<g[1 .. (n - 1)], seq[n]>>]
    BY <2>1, <2>2, <2>3, <2>4 DEF Turn
  <2>6. n - 1 \in 0 .. Len(seq) /\ n \in 0 .. Len(seq)
    BY <1>1
  <2>7. QED
    BY <2>5, <2>6
<1>6. f \in [0 .. Len(seq) -> B]
  <2> DEFINE Typed == {n \in Nat : f[n] \in B}
  <2>1. 0 \in Typed
    BY <1>4
  <2>2. ASSUME NEW n \in Nat, n < Len(seq), n \in Typed PROVE n + 1 \in Typed
    <3>1. n + 1 \in 1 .. Len(seq) /\ (n + 1) - 1 = n
      BY <1>1, <2>2
    <3>2. f[n + 1] = step[<<f[n], seq[n + 1]>>]
      BY <1>5, <3>1
    <3>3. seq[n + 1] \in E /\ f[n] \in B
      BY <2>2, <3>1
    <3> HIDE DEF f
    <3>4. QED
      BY <3>2, <3>3
  <2> HIDE DEF Typed
  <2>3. \A n \in 0 .. Len(seq) : n \in Typed
    BY <1>1, <2>1, <2>2, InductionUpTo
  <2>4. QED
    BY <2>3 DEF Typed
<1>7. FoldBy(step, base, seq) = f[Len(seq)]
  BY <1>1, <1>2
<1> HIDE DEF f
<1>8. QED
  BY <1>4, <1>5, <1>6, <1>7 DEF IsFold

Foldable(B, E, step, base, seq) ==
  step \in [B \X E -> B] /\ base \in B /\ seq \in Seq(E)

(* A fold stays in the range of its step; it is the base of nothing, and   *)
(* one step more of one element more.                                      *)
LEMMA FoldType ==
  ASSUME NEW B, NEW E, NEW step, NEW base, NEW seq, Foldable(B, E, step, base, seq)
  PROVE  FoldBy(step, base, seq) \in B
<1>1. PICK f \in [0 .. Len(seq) -> B] : IsFold(f, step, base, seq)
  BY FoldIs DEF Foldable
<1>2. Len(seq) \in Nat
  BY DEF Foldable
<1>3. QED
  BY <1>1, <1>2 DEF IsFold

LEMMA FoldNone ==
  ASSUME NEW B, NEW E, NEW step, NEW base, NEW seq, Foldable(B, E, step, base, seq),
         Len(seq) = 0
  PROVE  FoldBy(step, base, seq) = base
<1>1. PICK f \in [0 .. Len(seq) -> B] : IsFold(f, step, base, seq)
  BY FoldIs DEF Foldable
<1>2. QED
  BY <1>1 DEF IsFold

LEMMA FoldAppend ==
  ASSUME NEW B, NEW E, NEW step, NEW base, NEW seq, Foldable(B, E, step, base, seq),
         NEW e \in E
  PROVE  FoldBy(step, base, Append(seq, e)) = step[<<FoldBy(step, base, seq), e>>]
<1>1. PICK f \in [0 .. Len(seq) -> B] : IsFold(f, step, base, seq)
  BY FoldIs DEF Foldable
<1>2. Len(seq) \in Nat
  BY DEF Foldable
<1> DEFINE more == Append(seq, e)
<1>3. /\ more \in Seq(E) /\ Len(more) = Len(seq) + 1
      /\ \A i \in 1 .. Len(seq) : more[i] = seq[i]
      /\ more[Len(seq) + 1] = e
  BY AppendProperties DEF Foldable
<1> HIDE DEF more
<1>4. PICK h \in [0 .. Len(more) -> B] : IsFold(h, step, base, more)
  BY <1>3, FoldIs DEF Foldable
<1> DEFINE Same == {n \in Nat : h[n] = f[n]}
<1>5. 0 \in Same
  BY <1>1, <1>4 DEF IsFold
<1>6. ASSUME NEW n \in Nat, n < Len(seq), n \in Same PROVE n + 1 \in Same
  <2>1. n + 1 \in 1 .. Len(seq) /\ n + 1 \in 1 .. Len(more) /\ (n + 1) - 1 = n
    BY <1>2, <1>3, <1>6
  <2>2. h[n + 1] = step[<<h[n], more[n + 1]>>] /\ f[n + 1] = step[<<f[n], seq[n + 1]>>]
    BY <1>1, <1>4, <2>1 DEF IsFold
  <2>3. more[n + 1] = seq[n + 1] /\ h[n] = f[n]
    BY <1>3, <1>6, <2>1
  <2>4. QED
    BY <2>2, <2>3
<1> HIDE DEF Same
<1>7. Len(seq) \in Same
  BY <1>2, <1>5, <1>6, InductionUpTo
<1>8. h[Len(seq)] = f[Len(seq)]
  BY <1>7 DEF Same
<1>9. h[Len(seq) + 1] = step[<<h[Len(seq)], e>>]
  <2>1. Len(seq) + 1 \in 1 .. Len(more) /\ (Len(seq) + 1) - 1 = Len(seq)
    BY <1>2, <1>3
  <2>2. QED
    BY <1>3, <1>4, <2>1 DEF IsFold
<1>10. QED
  BY <1>1, <1>3, <1>4, <1>8, <1>9 DEF IsFold, more
=============================================================================
