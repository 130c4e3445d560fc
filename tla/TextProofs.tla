----------------------------- MODULE TextProofs -----------------------------
(***************************************************************************)
(* Facts about positions in texts and about texts cut and joined, for the  *)
(* proofs about topside's token and snorkel's --server value.              *)
(***************************************************************************)
EXTENDS Integers, Sequences, SequencesExt, SequenceTheorems, WellFoundedInduction, TLAPS

(* A set of numbers has a least one.                                       *)
LEMMA LeastExists ==
  ASSUME NEW T, T \subseteq Nat, T # {}
  PROVE  \E x \in T : \A y \in T : x <= y
<1> DEFINE R == OpToRel(<, Nat)
<1>1. IsWellFoundedOn(R, Nat)
  BY NatLessThanWellFounded
<1>2. \A x, y \in Nat : y < x => <<y, x>> \in R
  BY DEF OpToRel
<1> HIDE DEF R
<1>3. PICK x \in T : \A y \in T : ~(<<y, x>> \in R)
  BY <1>1, WFMin
<1>4. ASSUME NEW y \in T PROVE x <= y
  <2>1. x \in Nat /\ y \in Nat /\ ~(y < x)
    BY <1>2, <1>3
  <2> QED BY <2>1
<1> QED BY <1>4

(* What Min returns is the least element.                                  *)
LEMMA MinIs ==
  ASSUME NEW T, T \subseteq Nat, T # {}
  PROVE  Min(T) \in T /\ \A y \in T : Min(T) <= y
BY LeastExists, Zenon DEF Min

(* A set of numbers up to n has a greatest one.                            *)
LEMMA MaxIs ==
  ASSUME NEW n \in Nat, NEW T, T \subseteq 1..n, T # {}
  PROVE  Max(T) \in T /\ \A y \in T : y <= Max(T)
<1> DEFINE U == {u \in Nat : n - u \in T}
<1>1. U # {}
  <2>1. PICK x \in T : TRUE
    OBVIOUS
  <2>2. n - x \in Nat /\ n - (n - x) = x
    BY <2>1
  <2> QED BY <2>1, <2>2
<1>2. PICK u \in U : \A y \in U : u <= y
  BY <1>1, LeastExists
<1>3. \A y \in T : n - y \in U
  <2> SUFFICES ASSUME NEW y \in T PROVE n - y \in Nat /\ n - (n - y) = y
    OBVIOUS
  <2> QED OBVIOUS
<1>4. \A y \in T : n - u >= y
  <2> SUFFICES ASSUME NEW y \in T PROVE n - u >= y
    OBVIOUS
  <2>1. u <= n - y
    BY <1>2, <1>3
  <2> QED BY <2>1
<1>5. \E x \in T : \A y \in T : x >= y
  BY <1>4
<1>6. Max(T) \in T /\ \A y \in T : Max(T) >= y
  BY <1>5, Zenon DEF Max
<1> QED BY <1>6

(* Text r is p and then q.                                                 *)
InARow(p, q, r) ==
  /\ Len(r) = Len(p) + Len(q)
  /\ \A m \in 1..(Len(p) + Len(q)) : r[m] = IF m <= Len(p) THEN p[m] ELSE q[m - Len(p)]

(* Two texts in a row.                                                     *)
LEMMA TextsInARow ==
  ASSUME NEW S, NEW p \in Seq(S), NEW q \in Seq(S), NEW r, r = p \o q
  PROVE  r \in Seq(S) /\ InARow(p, q, r)
BY ConcatProperties DEF InARow

(* A part of a text.                                                       *)
LEMMA Cut ==
  ASSUME NEW S, NEW s \in Seq(S), NEW i \in Nat, NEW j \in Nat,
         1 <= i, i <= j + 1, j <= Len(s), NEW w, w = SubSeq(s, i, j)
  PROVE  /\ w \in Seq(S) /\ Len(w) = j - i + 1
         /\ \A m \in 1..(j - i + 1) : w[m] = s[i + m - 1]
<1>1. \A m \in i..j : s[m] \in S
  BY ElementOfSeq, LenProperties
<1>2. /\ SubSeq(s, i, j) \in Seq(S)
      /\ Len(SubSeq(s, i, j)) = IF i <= j THEN j - i + 1 ELSE 0
      /\ \A m \in 1..(j - i + 1) : SubSeq(s, i, j)[m] = s[i + m - 1]
  BY <1>1, SubSeqProperties
<1>3. CASE i <= j
  BY <1>2, <1>3
<1>4. CASE i = j + 1
  <2>1. ~(i <= j) /\ j - i + 1 = 0
    BY <1>4
  <2> QED BY <1>2, <2>1
<1> QED BY <1>3, <1>4

=============================================================================
