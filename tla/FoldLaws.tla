------------------------------ MODULE FoldLaws ------------------------------
(***************************************************************************)
(* What FoldLeft of SequencesExt computes, one element at a time.  The     *)
(* step of the fold is a parameter of this module, with a further argument *)
(* for what the step depends on; a module with a fold instantiates it with *)
(* its own step.  FoldLeft recurs over the subsets of the domain of the    *)
(* sequence, so the laws need induction over the natural numbers, taken    *)
(* from their well-ordering.                                               *)
(***************************************************************************)
EXTENDS SequencesExt, WellFoundedInduction, TLAPS

CONSTANT Op(_, _, _)

Fold(c, base, seq) == FoldLeft(LAMBDA acc, x : Op(c, acc, x), base, seq)

\* Induction, for a set instead of a predicate.
LEMMA SetInduction ==
    ASSUME NEW S, 0 \in S, \A n \in Nat : n \in S => n + 1 \in S
    PROVE  Nat \subseteq S
<1> DEFINE T == Nat \ S
           R == OpToRel(<, Nat)
<1> SUFFICES ASSUME T # {} PROVE FALSE
  OBVIOUS
<1>1. IsWellFoundedOn(R, Nat)
  BY NatLessThanWellFounded
<1>2. PICK x \in T : \A y \in T : ~ (<<y, x>> \in R)
  <2> HIDE DEF R
  <2> QED BY <1>1, WFMin
<1>3. x # 0 /\ x - 1 \in Nat /\ x - 1 < x
  OBVIOUS
<1>4. <<x - 1, x>> \in R
  BY <1>3 DEF OpToRel
<1>5. x - 1 \notin T
  BY <1>2, <1>4
<1> QED BY <1>3, <1>5

\* A set of numbers with a bound has a greatest one.
LEMMA MaxInSet ==
    ASSUME NEW n \in Nat, NEW t \in SUBSET (1..n), t # {}
    PROVE  Max(t) \in t /\ \A y \in t : y <= Max(t)
<1> DEFINE S == {k \in Nat : \A u \in SUBSET (1..k) :
                    u # {} => \E x \in u : \A y \in u : x >= y}
<1>1. 0 \in S
  <2>1. 1..0 = {}
    OBVIOUS
  <2> QED BY <2>1
<1>2. ASSUME NEW k \in Nat, k \in S PROVE k + 1 \in S
  <2> SUFFICES ASSUME NEW u \in SUBSET (1..k + 1), u # {}
               PROVE  \E x \in u : \A y \in u : x >= y
    OBVIOUS
  <2>1. CASE k + 1 \in u
    BY <2>1
  <2>2. CASE k + 1 \notin u
    <3>1. u \in SUBSET (1..k)
      BY <2>2
    <3> QED BY <1>2, <3>1
  <2> QED BY <2>1, <2>2
<1>3. n \in S
  <2> HIDE DEF S
  <2> QED BY <1>1, <1>2, SetInduction
<1>4. \E x \in t : \A y \in t : x >= y
  BY <1>3
<1> QED BY <1>4 DEF Max

\* And a least one.
LEMMA MinInSet ==
    ASSUME NEW t \in SUBSET Nat, t # {}
    PROVE  Min(t) \in t /\ \A y \in t : Min(t) <= y
<1> DEFINE R == OpToRel(<, Nat)
<1>1. IsWellFoundedOn(R, Nat)
  BY NatLessThanWellFounded
<1>2. PICK x \in t : \A y \in t : ~ (<<y, x>> \in R)
  <2> HIDE DEF R
  <2> QED BY <1>1, WFMin
<1>3. ASSUME NEW y \in t, y < x PROVE FALSE
  BY <1>2, <1>3 DEF OpToRel
<1>4. \A y \in t : x <= y
  BY <1>3
<1> QED BY <1>4 DEF Min

\* What FoldLeft looks up: the fold over each set of places.
IsFold(g, c, base, seq, n) ==
    g = [t \in SUBSET (1..n) |->
            IF t = {} THEN base ELSE Op(c, g[t \ {Max(t)}], seq[Max(t)])]

LEMMA FoldExists ==
    ASSUME NEW c, NEW base, NEW seq, NEW n \in Nat
    PROVE  \E g : IsFold(g, c, base, seq, n)
<1> DEFINE S == {k \in Nat : \E g : IsFold(g, c, base, seq, k)}
<1>1. 0 \in S
  <2> DEFINE g == [t \in SUBSET (1..0) |-> base]
  <2>1. IsFold(g, c, base, seq, 0)
    BY DEF IsFold
  <2> QED BY <2>1
<1>2. ASSUME NEW k \in Nat, k \in S PROVE k + 1 \in S
  <2>1. PICK g : IsFold(g, c, base, seq, k)
    BY <1>2
  <2> DEFINE h == [t \in SUBSET (1..k + 1) |->
                     IF k + 1 \in t THEN Op(c, g[t \ {k + 1}], seq[k + 1]) ELSE g[t]]
             H == [t \in SUBSET (1..k + 1) |->
                     IF t = {} THEN base ELSE Op(c, h[t \ {Max(t)}], seq[Max(t)])]
  <2>2. ASSUME NEW t \in SUBSET (1..k + 1) PROVE h[t] = H[t]
    <3>1. CASE t = {}
      BY <2>1, <3>1 DEF IsFold
    <3>2. CASE k + 1 \in t
      <4>1. Max(t) = k + 1
        <5>1. Max(t) \in t /\ \A y \in t : y <= Max(t)
          <6>1. k + 1 \in Nat /\ t # {}
            BY <3>2
          <6> QED BY <6>1, MaxInSet
        <5>2. k + 1 <= Max(t) /\ Max(t) \in 1..k + 1
          BY <3>2, <5>1
        <5> QED BY <5>2
      <4>2. t \ {k + 1} \in SUBSET (1..k) /\ t \ {k + 1} \in SUBSET (1..k + 1)
        OBVIOUS
      <4>3. h[t \ {k + 1}] = g[t \ {k + 1}]
        BY <4>2
      <4> QED BY <3>2, <4>1, <4>3
    <3>3. CASE t # {} /\ k + 1 \notin t
      <4>1. t \in SUBSET (1..k)
        BY <3>3
      <4>2. Max(t) \in t /\ t \ {Max(t)} \in SUBSET (1..k + 1) /\ k + 1 \notin t \ {Max(t)}
        BY <3>3, <4>1, MaxInSet
      <4>3. h[t] = g[t] /\ h[t \ {Max(t)}] = g[t \ {Max(t)}]
        BY <3>3, <4>2
      <4>4. g[t] = Op(c, g[t \ {Max(t)}], seq[Max(t)])
        BY <2>1, <3>3, <4>1 DEF IsFold
      <4> QED BY <3>3, <4>3, <4>4
    <3> QED BY <3>1, <3>2, <3>3
  <2>3. h = H
    BY <2>2
  <2>4. IsFold(h, c, base, seq, k + 1)
    BY <2>3 DEF IsFold
  <2> QED BY <2>4
<1>3. n \in S
  <2> HIDE DEF S
  <2> QED BY <1>1, <1>2, SetInduction
<1> QED BY <1>3

\* A fold of a sequence is looked up at all of its places.
LEMMA FoldIs ==
    ASSUME NEW c, NEW base, NEW X, NEW seq \in Seq(X)
    PROVE  \E g : IsFold(g, c, base, seq, Len(seq)) /\ Fold(c, base, seq) = g[1..Len(seq)]
<1> DEFINE n == Len(seq)
           G == CHOOSE g : IsFold(g, c, base, seq, n)
<1>1. n \in Nat /\ DOMAIN seq = 1..n
  OBVIOUS
<1>2. IsFold(G, c, base, seq, n)
  BY <1>1, FoldExists
<1>3. Fold(c, base, seq) = G[1..n]
  BY <1>1 DEF Fold, FoldLeft, MapThenFoldSet, IsFold
<1> QED BY <1>2, <1>3

\* From each place to the next.
LEMMA FoldChain ==
    ASSUME NEW c, NEW base, NEW seq, NEW n \in Nat, NEW g, IsFold(g, c, base, seq, n)
    PROVE  /\ g[{}] = base
           /\ \A k \in Nat : k < n => g[1..k + 1] = Op(c, g[1..k], seq[k + 1])
<1>1. g[{}] = base
  BY DEF IsFold
<1>2. ASSUME NEW k \in Nat, k < n PROVE g[1..k + 1] = Op(c, g[1..k], seq[k + 1])
  <2>1. 1..k + 1 \in SUBSET (1..n) /\ 1..k + 1 # {}
    BY <1>2
  <2>2. Max(1..k + 1) = k + 1
    <3>1. Max(1..k + 1) \in 1..k + 1 /\ \A y \in 1..k + 1 : y <= Max(1..k + 1)
      BY <2>1, MaxInSet
    <3> QED BY <3>1
  <2>3. (1..k + 1) \ {k + 1} = 1..k
    OBVIOUS
  <2> QED BY <2>1, <2>2, <2>3 DEF IsFold
<1> QED BY <1>1, <1>2

\* The fold of no elements is the base.
THEOREM FoldEmpty == ASSUME NEW c, NEW base PROVE Fold(c, base, <<>>) = base
<1>1. PICK g : IsFold(g, c, base, <<>>, 0) /\ Fold(c, base, <<>>) = g[1..0]
  <2>1. <<>> \in Seq({}) /\ Len(<<>>) = 0
    OBVIOUS
  <2> QED BY <2>1, FoldIs
<1>2. g[{}] = base
  BY <1>1 DEF IsFold
<1>3. 1..0 = {}
  OBVIOUS
<1> QED BY <1>1, <1>2, <1>3

\* One more element is one more step.
THEOREM FoldAppend ==
    ASSUME NEW c, NEW base, NEW X, NEW seq \in Seq(X), NEW x \in X
    PROVE  Fold(c, base, Append(seq, x)) = Op(c, Fold(c, base, seq), x)
<1> DEFINE n == Len(seq)
           more == Append(seq, x)
<1>1. /\ n \in Nat /\ more \in Seq(X) /\ Len(more) = n + 1
      /\ more[n + 1] = x /\ \A k \in 1..n : more[k] = seq[k]
  OBVIOUS
<1> HIDE DEF n, more
<1>2. PICK g : IsFold(g, c, base, seq, n) /\ Fold(c, base, seq) = g[1..n]
  BY FoldIs DEF n
<1>3. PICK h : IsFold(h, c, base, more, n + 1) /\ Fold(c, base, more) = h[1..n + 1]
  BY <1>1, FoldIs
<1> DEFINE S == {k \in Nat : k <= n => h[1..k] = g[1..k]}
<1>4. 0 \in S
  <2>1. 1..0 = {}
    OBVIOUS
  <2>2. g[{}] = base /\ h[{}] = base
    BY <1>1, <1>2, <1>3, FoldChain
  <2> QED BY <2>1, <2>2
<1>5. ASSUME NEW k \in Nat, k \in S PROVE k + 1 \in S
  <2> SUFFICES ASSUME k + 1 <= n PROVE h[1..k + 1] = g[1..k + 1]
    OBVIOUS
  <2>1. h[1..k] = g[1..k] /\ more[k + 1] = seq[k + 1] /\ k < n /\ k < n + 1
    BY <1>1, <1>5
  <2>2. g[1..k + 1] = Op(c, g[1..k], seq[k + 1])
    BY <1>1, <1>2, <2>1, FoldChain
  <2>3. h[1..k + 1] = Op(c, h[1..k], more[k + 1])
    BY <1>1, <1>3, <2>1, FoldChain
  <2> QED BY <2>1, <2>2, <2>3
<1>6. n \in S
  <2> HIDE DEF S
  <2> QED BY <1>1, <1>4, <1>5, SetInduction
<1>7. h[1..n] = g[1..n]
  BY <1>1, <1>6
<1>8. h[1..n + 1] = Op(c, h[1..n], more[n + 1])
  BY <1>1, <1>3, FoldChain
<1> QED BY <1>1, <1>2, <1>3, <1>7, <1>8 DEF more
=============================================================================
