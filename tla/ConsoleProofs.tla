--------------------------- MODULE ConsoleProofs ---------------------------
(***************************************************************************)
(* Theorems about the team arithmetic and about Console, which shows what  *)
(* it computes: for every policy, and any number of teams, players and     *)
(* tickets; for every page, any number of revisions, samples and instants. *)
(*                                                                         *)
(* The arithmetic folds over sequences, so most of it is induction.  It is *)
(* done on sets: the lengths, or the subsets, for which a statement holds  *)
(* include the first one and with each one the next, hence all of them.    *)
(***************************************************************************)
EXTENDS Console, MCTeams, SequenceTheorems, FiniteSetTheorems, WellFoundedInduction, TLAPS

-----------------------------------------------------------------------------
(* Sums of the weights of a finite set                                     *)

\* A least element of every set of numbers that is not empty.
LEMMA Smallest ==
    ASSUME NEW A, A \subseteq Nat, A # {}
    PROVE  \E n \in A : \A m \in A : n =< m
<1>1. PICK n \in A : \A m \in A : <<m, n>> \notin OpToRel(<, Nat)
  BY NatLessThanWellFounded, WFMin
<1>2. ASSUME NEW m \in A PROVE n =< m
  <2>1. n \in Nat /\ m \in Nat
    OBVIOUS
  <2>2. ~ (m < n)
    BY <1>1, <2>1 DEF OpToRel
  <2> QED
    BY <2>1, <2>2
<1> QED
  BY <1>2

\* Induction over numbers, of a set of them.
LEMMA NatInd ==
    ASSUME NEW A, 0 \in A, \A n \in Nat : n \in A => n + 1 \in A
    PROVE  Nat \subseteq A
<1> DEFINE B == Nat \ A
<1> SUFFICES ASSUME B # {} PROVE FALSE
  OBVIOUS
<1>1. PICK n \in B : \A m \in B : n =< m
  BY Smallest
<1>2. n # 0 /\ n - 1 \in Nat /\ n - 1 \notin B
  BY <1>1
<1>3. n \in A
  BY <1>2
<1> QED
  BY <1>1, <1>3

\* Induction over a finite set, of a family of its subsets.
LEMMA FiniteInd ==
    ASSUME NEW S, IsFiniteSet(S), NEW A, {} \in A,
           \A T \in SUBSET S : T \in A => \A x \in S \ T : T \cup {x} \in A
    PROVE  S \in A
<1> DEFINE B == { n \in Nat : \A T \in SUBSET S : Cardinality(T) = n => T \in A }
<1>1. 0 \in B
  BY FS_Subset, FS_EmptySet
<1>2. ASSUME NEW n \in Nat, n \in B PROVE n + 1 \in B
  <2>1. SUFFICES ASSUME NEW T \in SUBSET S, Cardinality(T) = n + 1 PROVE T \in A
    OBVIOUS
  <2>2. IsFiniteSet(T)
    BY FS_Subset
  <2>3. PICK x \in T : TRUE
    <3>1. T # {}
      <4>1. Cardinality({}) = 0
        BY FS_EmptySet
      <4> QED
        BY <2>1, <4>1
    <3> QED
      BY <3>1
  <2>4. Cardinality(T \ {x}) = n
    <3>1. Cardinality(T \ {x}) = Cardinality(T) - 1
      BY <2>2, <2>3, FS_RemoveElement
    <3> QED
      BY <2>1, <3>1
  <2>5. T \ {x} \in A
    BY <1>2, <2>4
  <2>6. (T \ {x}) \cup {x} \in A
    BY <2>3, <2>5
  <2>7. (T \ {x}) \cup {x} = T
    BY <2>3
  <2> QED
    BY <2>6, <2>7
<1>3. Nat \subseteq B
  <2> HIDE DEF B
  <2> QED BY <1>1, <1>2, NatInd
<1> QED
  BY <1>3, FS_CardinalityType

-----------------------------------------------------------------------------
(* Sums                                                                    *)

\* g sums the weights w over the subsets of S.
Additive(g, w, S) ==
    /\ g \in [SUBSET S -> Int]
    /\ g[{}] = 0
    /\ \A T \in SUBSET S : \A x \in S \ T : g[T \cup {x}] = g[T] + w[x]

Weights(w, S) == \A x \in S : w[x] \in Int

LEMMA AdditiveExists ==
    ASSUME NEW S, IsFiniteSet(S), NEW w, Weights(w, S)
    PROVE  \E g : Additive(g, w, S)
<1> DEFINE A == { T \in SUBSET S : \E g : Additive(g, w, T) }
<1>1. {} \in A
  <2>1. Additive([T \in {{}} |-> 0], w, {})
    BY DEF Additive
  <2> QED
    BY <2>1
<1>2. ASSUME NEW T \in SUBSET S, T \in A, NEW e \in S \ T PROVE T \cup {e} \in A
  <2>1. PICK g : Additive(g, w, T)
    BY <1>2
  <2> DEFINE U == T \cup {e}
             h == [R \in SUBSET U |-> IF e \in R THEN g[R \ {e}] + w[e] ELSE g[R]]
  <2>2. \A R \in SUBSET U : R \ {e} \in SUBSET T /\ (e \notin R => R \in SUBSET T)
    OBVIOUS
  <2>3. w[e] \in Int /\ \A x \in T : w[x] \in Int
    BY DEF Weights
  <2>4. h \in [SUBSET U -> Int]
    BY <2>1, <2>2, <2>3 DEF Additive
  <2>5. h[{}] = 0
    BY <2>1 DEF Additive
  <2>6. ASSUME NEW R \in SUBSET U, NEW x \in U \ R PROVE h[R \cup {x}] = h[R] + w[x]
    <3>1. CASE x = e
      <4>1. (R \cup {x}) \ {e} = R /\ R \in SUBSET T
        BY <3>1
      <4> QED
        BY <2>1, <2>2, <3>1, <4>1
    <3>2. CASE x # e /\ e \in R
      <4>1. /\ (R \cup {x}) \ {e} = (R \ {e}) \cup {x} /\ R \ {e} \in SUBSET T
            /\ x \in T \ (R \ {e})
        BY <3>2
      <4>2. g[(R \ {e}) \cup {x}] = g[R \ {e}] + w[x] /\ g[R \ {e}] \in Int
        BY <2>1, <4>1 DEF Additive
      <4>3. h[R \cup {x}] = g[(R \ {e}) \cup {x}] + w[e] /\ h[R] = g[R \ {e}] + w[e]
        BY <3>2, <4>1
      <4>4. w[x] \in Int
        BY <2>3, <4>1
      <4> QED
        BY <2>3, <4>2, <4>3, <4>4
    <3>3. CASE x # e /\ e \notin R
      <4>1. R \in SUBSET T /\ x \in T \ R
        BY <3>3
      <4> QED
        BY <2>1, <3>3, <4>1 DEF Additive
    <3> QED
      BY <3>1, <3>2, <3>3
  <2>7. Additive(h, w, U)
    <3> HIDE DEF h, U
    <3> QED BY <2>4, <2>5, <2>6 DEF Additive
  <2> QED
    BY <2>7
<1>3. S \in A
  <2> HIDE DEF A
  <2> QED BY <1>1, <1>2, FiniteInd
<1> QED
  BY <1>3

LEMMA AdditiveUnique ==
    ASSUME NEW S, NEW w, NEW T, NEW g, NEW h, NEW R,
           Additive(g, w, S), Additive(h, w, T), R \subseteq S, R \subseteq T, IsFiniteSet(R)
    PROVE  g[R] = h[R]
<1> DEFINE A == { Q \in SUBSET R : g[Q] = h[Q] }
<1>1. {} \in A
  BY DEF Additive
<1>2. ASSUME NEW Q \in SUBSET R, Q \in A, NEW x \in R \ Q PROVE Q \cup {x} \in A
  BY <1>2 DEF Additive
<1>3. R \in A
  <2> HIDE DEF A
  <2> QED BY <1>1, <1>2, FiniteInd
<1> QED
  BY <1>3

SumOf(w, S) == (CHOOSE g : Additive(g, w, S))[S]

LEMMA SumAdditive ==
    ASSUME NEW S, IsFiniteSet(S), NEW w, Weights(w, S), NEW g, Additive(g, w, S),
           NEW T \in SUBSET S
    PROVE  SumOf(w, T) = g[T]
<1>1. IsFiniteSet(T)
  BY FS_Subset
<1>2. Weights(w, T)
  BY DEF Weights
<1>3. Additive(CHOOSE h : Additive(h, w, T), w, T)
  BY <1>1, <1>2, AdditiveExists
<1> QED
  BY <1>1, <1>3, AdditiveUnique DEF SumOf

LEMMA SumEmpty == ASSUME NEW w PROVE SumOf(w, {}) = 0
<1>1. Additive([T \in {{}} |-> 0], w, {})
  BY DEF Additive
<1> QED
  BY <1>1, SumAdditive, FS_EmptySet DEF Weights

LEMMA SumType ==
    ASSUME NEW S, IsFiniteSet(S), NEW w, Weights(w, S)
    PROVE  SumOf(w, S) \in Int
<1>1. PICK g : Additive(g, w, S)
  BY AdditiveExists
<1>2. g[S] \in Int
  BY <1>1 DEF Additive
<1>3. S \in SUBSET S
  OBVIOUS
<1>4. SumOf(w, S) = g[S]
  BY <1>1, <1>3, SumAdditive
<1> QED
  BY <1>2, <1>4

LEMMA SumAdd ==
    ASSUME NEW S, IsFiniteSet(S), NEW w, NEW x, x \notin S, Weights(w, S \cup {x})
    PROVE  SumOf(w, S \cup {x}) = SumOf(w, S) + w[x]
<1> DEFINE U == S \cup {x}
<1>0. IsFiniteSet(U)
  BY FS_AddElement
<1>1. PICK g : Additive(g, w, U)
  BY <1>0, AdditiveExists
<1>2. SumOf(w, U) = g[U] /\ SumOf(w, S) = g[S]
  BY <1>0, <1>1, SumAdditive
<1> QED
  BY <1>1, <1>2 DEF Additive

LEMMA SumRemove ==
    ASSUME NEW S, IsFiniteSet(S), NEW w, NEW x \in S, Weights(w, S)
    PROVE  SumOf(w, S) = SumOf(w, S \ {x}) + w[x]
<1>1. PICK R : R = S \ {x}
  OBVIOUS
<1>2. IsFiniteSet(R) /\ R \cup {x} = S
  BY <1>1, FS_RemoveElement
<1>3. x \notin R
  BY <1>1
<1>4. Weights(w, R \cup {x})
  BY <1>2
<1>5. SumOf(w, R \cup {x}) = SumOf(w, R) + w[x]
  BY <1>2, <1>3, <1>4, SumAdd
<1> QED
  BY <1>1, <1>2, <1>5

\* What of the sums of two weights holds at the start and is kept by each element.
LEMMA SumSame ==
    ASSUME NEW S, IsFiniteSet(S), NEW v, NEW w, Weights(v, S), \A x \in S : v[x] = w[x]
    PROVE  SumOf(v, S) = SumOf(w, S)
<1>0. Weights(w, S)
  BY DEF Weights
<1>1. PICK g : Additive(g, v, S)
  BY AdditiveExists
<1>2. Additive(g, w, S)
  BY <1>1 DEF Additive
<1> QED
  BY <1>0, <1>1, <1>2, SumAdditive

LEMMA SumMono ==
    ASSUME NEW S, IsFiniteSet(S), NEW v, NEW w, Weights(v, S), Weights(w, S),
           \A x \in S : v[x] =< w[x]
    PROVE  SumOf(v, S) =< SumOf(w, S)
<1>1. PICK g : Additive(g, v, S)
  BY AdditiveExists
<1>2. PICK h : Additive(h, w, S)
  BY AdditiveExists
<1> DEFINE A == { T \in SUBSET S : g[T] =< h[T] }
<1>3. {} \in A
  BY <1>1, <1>2 DEF Additive
<1>4. ASSUME NEW T \in SUBSET S, T \in A, NEW x \in S \ T PROVE T \cup {x} \in A
  <2>1. g[T \cup {x}] = g[T] + v[x] /\ h[T \cup {x}] = h[T] + w[x]
    BY <1>1, <1>2 DEF Additive
  <2>2. g[T] \in Int /\ h[T] \in Int /\ v[x] \in Int /\ w[x] \in Int /\ g[T] =< h[T]
    BY <1>1, <1>2, <1>4 DEF Additive, Weights
  <2> QED
    BY <2>1, <2>2
<1>5. S \in A
  <2> HIDE DEF A
  <2> QED BY <1>3, <1>4, FiniteInd
<1> QED
  BY <1>1, <1>2, <1>5, SumAdditive

\* The weight of one element grows, and the sum as much.
LEMMA SumGrow ==
    ASSUME NEW S, IsFiniteSet(S), NEW v, NEW w, NEW x \in S, NEW d \in Int,
           Weights(v, S), w[x] = v[x] + d, \A y \in S \ {x} : w[y] = v[y]
    PROVE  SumOf(w, S) = SumOf(v, S) + d
<1>0. Weights(w, S) /\ Weights(v, S \ {x}) /\ v[x] \in Int
  BY DEF Weights
<1>1. IsFiniteSet(S \ {x})
  BY FS_RemoveElement
<1>2. SumOf(w, S \ {x}) = SumOf(v, S \ {x})
  BY <1>0, <1>1, SumSame
<1>3. SumOf(w, S) = SumOf(w, S \ {x}) + w[x] /\ SumOf(v, S) = SumOf(v, S \ {x}) + v[x]
  BY <1>0, SumRemove
<1>4. SumOf(v, S \ {x}) \in Int
  BY <1>0, <1>1, SumType
<1> QED
  BY <1>0, <1>2, <1>3, <1>4

\* Sums of natural numbers grow with the set.
LEMMA SumPart ==
    ASSUME NEW S, IsFiniteSet(S), NEW w, \A x \in S : w[x] \in Nat, NEW T \in SUBSET S
    PROVE  0 =< SumOf(w, T) /\ SumOf(w, T) =< SumOf(w, S)
<1>0. Weights(w, S)
  BY DEF Weights
<1>1. PICK g : Additive(g, w, S)
  BY <1>0, AdditiveExists
<1> DEFINE A == { R \in SUBSET S : 0 =< g[T \cap R] /\ g[T \cap R] =< g[R] }
<1>2. {} \in A
  BY <1>1 DEF Additive
<1>3. ASSUME NEW R \in SUBSET S, R \in A, NEW x \in S \ R PROVE R \cup {x} \in A
  <2>1. g[R \cup {x}] = g[R] + w[x] /\ g[R] \in Int /\ w[x] \in Nat /\ g[T \cap R] \in Int
    BY <1>1 DEF Additive
  <2>2. CASE x \in T
    <3>1. T \cap (R \cup {x}) = (T \cap R) \cup {x} /\ T \cap R \in SUBSET S /\ x \in S \ (T \cap R)
      BY <2>2
    <3>2. g[(T \cap R) \cup {x}] = g[T \cap R] + w[x]
      BY <1>1, <3>1 DEF Additive
    <3> QED
      BY <1>3, <2>1, <3>1, <3>2
  <2>3. CASE x \notin T
    <3>1. T \cap (R \cup {x}) = T \cap R
      BY <2>3
    <3> QED
      BY <1>3, <2>1, <3>1
  <2> QED
    BY <2>2, <2>3
<1>4. S \in A
  <2> HIDE DEF A
  <2> QED BY <1>2, <1>3, FiniteInd
<1>5. T \cap S = T /\ S \in SUBSET S
  OBVIOUS
<1>6. SumOf(w, T) = g[T] /\ SumOf(w, S) = g[S]
  BY <1>0, <1>1, <1>5, SumAdditive
<1> QED
  BY <1>4, <1>5, <1>6

\* A sum may be taken in any other order.
LEMMA SumReindexed ==
    ASSUME NEW S, IsFiniteSet(S), NEW T, NEW f \in Bijection(S, T), NEW v, NEW w,
           Weights(w, T), \A x \in S : v[x] = w[f[x]]
    PROVE  SumOf(v, S) = SumOf(w, T)
<1> DEFINE Image(R) == { f[x] : x \in R }
<1>0. /\ f \in [S -> T] /\ Image(S) = T
      /\ \A x, y \in S : f[x] = f[y] => x = y
  BY DEF Bijection, Injection, Surjection, IsInjective
<1>1. IsFiniteSet(T) /\ Weights(v, S)
  BY <1>0, FS_Surjection DEF Bijection, Weights
<1>2. PICK g : Additive(g, v, S)
  BY <1>1, AdditiveExists
<1>3. PICK h : Additive(h, w, T)
  BY <1>1, AdditiveExists
<1> DEFINE A == { R \in SUBSET S : g[R] = h[Image(R)] }
<1>4. {} \in A
  BY <1>2, <1>3 DEF Additive
<1>5. ASSUME NEW R \in SUBSET S, R \in A, NEW x \in S \ R PROVE R \cup {x} \in A
  <2>1. Image(R \cup {x}) = Image(R) \cup {f[x]} /\ Image(R) \in SUBSET T
    BY <1>0
  <2>2. f[x] \in T \ Image(R)
    BY <1>0
  <2> HIDE DEF Image
  <2>3. g[R \cup {x}] = g[R] + v[x] /\ h[Image(R) \cup {f[x]}] = h[Image(R)] + w[f[x]]
    BY <1>2, <1>3, <2>1, <2>2 DEF Additive
  <2> QED
    BY <1>5, <2>1, <2>3
<1>6. S \in A
  <2> HIDE DEF A
  <2> QED BY <1>4, <1>5, FiniteInd
<1>7. SumOf(v, S) = g[S] /\ SumOf(w, T) = h[T]
  <2>1. S \in SUBSET S /\ T \in SUBSET T
    OBVIOUS
  <2> QED
    BY <1>1, <1>2, <1>3, <2>1, SumAdditive
<1> QED
  BY <1>0, <1>6, <1>7

-----------------------------------------------------------------------------
(* The sums and folds of the community modules                             *)

\* The largest element of a finite set of numbers that is not empty.
LEMMA MaxIsIn ==
    ASSUME NEW n \in Nat, NEW T, T \subseteq 1..n, T # {}
    PROVE  Max(T) \in T /\ \A x \in T : Max(T) >= x
<1> DEFINE A == { n - x : x \in T }
<1>0. ASSUME NEW x \in T PROVE x \in Int /\ n - x \in Nat
  OBVIOUS
<1>1. A \subseteq Nat /\ A # {}
  BY <1>0
<1>2. PICK d \in A : \A e \in A : d =< e
  <2> HIDE DEF A
  <2> QED BY <1>1, Smallest
<1>3. PICK x \in T : d = n - x
  OBVIOUS
<1>4. \A y \in T : x >= y
  <2>1. SUFFICES ASSUME NEW y \in T PROVE x >= y
    OBVIOUS
  <2>2. n - y \in A
    OBVIOUS
  <2>3. d =< n - y
    BY <1>2, <2>2
  <2> QED
    BY <1>0, <1>3, <2>3
<1>5. Max(T) = CHOOSE z \in T : \A y \in T : z >= y
  BY DEF Max
<1> QED
  BY <1>4, <1>5

\* iter folds the weights w over the subsets of S, at pick[T] first.
Folded(iter, w, S, pick) ==
    iter = [T \in SUBSET S |-> IF T = {} THEN 0 ELSE iter[T \ {pick[T]}] + w[pick[T]]]

Picks(pick, S) == \A T \in SUBSET S : T # {} => pick[T] \in T

LEMMA FoldExists ==
    ASSUME NEW S, IsFiniteSet(S), NEW w, Weights(w, S), NEW pick, Picks(pick, S)
    PROVE  \E iter : Folded(iter, w, S, pick)
<1>1. PICK g : Additive(g, w, S)
  BY AdditiveExists
<1>2. ASSUME NEW T \in SUBSET S
      PROVE  g[T] = IF T = {} THEN 0 ELSE g[T \ {pick[T]}] + w[pick[T]]
  <2>1. CASE T = {}
    BY <1>1, <2>1 DEF Additive
  <2>2. CASE T # {}
    <3> DEFINE x == pick[T]
    <3>1. x \in T
      BY <2>2 DEF Picks
    <3> HIDE DEF x
    <3>2. (T \ {x}) \cup {x} = T /\ x \in S \ (T \ {x}) /\ T \ {x} \in SUBSET S
      BY <3>1
    <3>3. g[T] = g[T \ {x}] + w[x]
      BY <1>1, <3>2 DEF Additive
    <3> QED
      BY <2>2, <3>3 DEF x
  <2> QED
    BY <2>1, <2>2
<1>3. g = [T \in SUBSET S |-> g[T]]
  BY <1>1 DEF Additive
<1>4. Folded(g, w, S, pick)
  BY <1>2, <1>3 DEF Folded
<1> QED
  BY <1>4

\* Whichever element a fold takes next, it sums.
LEMMA FoldSums ==
    ASSUME NEW S, IsFiniteSet(S), NEW w, Weights(w, S), NEW pick, Picks(pick, S),
           NEW iter, Folded(iter, w, S, pick)
    PROVE  iter[S] = SumOf(w, S)
<1>1. PICK g : Additive(g, w, S)
  BY AdditiveExists
<1> DEFINE B == { n \in Nat : \A T \in SUBSET S : Cardinality(T) = n => iter[T] = g[T] }
<1>2. 0 \in B
  <2>1. \A T \in SUBSET S : Cardinality(T) = 0 => T = {}
    BY FS_Subset, FS_EmptySet
  <2>2. iter[{}] = 0 /\ g[{}] = 0
    BY <1>1 DEF Additive, Folded
  <2> QED
    BY <2>1, <2>2
<1>3. ASSUME NEW n \in Nat, n \in B PROVE n + 1 \in B
  <2>1. ASSUME NEW T \in SUBSET S, Cardinality(T) = n + 1 PROVE iter[T] = g[T]
    <3>1. T # {}
      <4>1. Cardinality({}) = 0
        BY FS_EmptySet
      <4> QED
        BY <2>1, <4>1
    <3> DEFINE x == pick[T]
    <3>2. x \in T
      BY <3>1 DEF Picks
    <3>3. iter[T] = iter[T \ {x}] + w[x]
      BY <3>1 DEF Folded
    <3> HIDE DEF x
    <3>4. Cardinality(T \ {x}) = n
      <4>1. Cardinality(T \ {x}) = Cardinality(T) - 1
        BY <3>2, FS_RemoveElement, FS_Subset
      <4> QED
        BY <2>1, <4>1
    <3>5. (T \ {x}) \cup {x} = T /\ x \in S \ (T \ {x}) /\ T \ {x} \in SUBSET S
      BY <3>2
    <3>6. iter[T \ {x}] = g[T \ {x}]
      BY <1>3, <3>4, <3>5
    <3>7. g[T] = g[T \ {x}] + w[x]
      BY <1>1, <3>5 DEF Additive
    <3> QED
      BY <3>3, <3>6, <3>7
  <2> QED
    BY <2>1
<1>4. Nat \subseteq B
  <2> HIDE DEF B
  <2> QED BY <1>2, <1>3, NatInd
<1>5. S \in SUBSET S /\ Cardinality(S) \in Nat
  BY FS_CardinalityType
<1>6. iter[S] = g[S]
  BY <1>4, <1>5
<1>7. SumOf(w, S) = g[S]
  BY <1>1, <1>5, SumAdditive
<1> QED
  BY <1>6, <1>7

LEMMA ChosenFold ==
    ASSUME NEW S, IsFiniteSet(S), NEW w, Weights(w, S), NEW pick, Picks(pick, S)
    PROVE  (CHOOSE iter : Folded(iter, w, S, pick))[S] = SumOf(w, S)
<1>1. Folded(CHOOSE iter : Folded(iter, w, S, pick), w, S, pick)
  BY FoldExists
<1> QED
  BY <1>1, FoldSums

LEMMA Domain ==
    ASSUME NEW X, NEW s \in Seq(X)
    PROVE  /\ Len(s) \in Nat /\ DOMAIN s = 1..Len(s) /\ IsFiniteSet(DOMAIN s)
           /\ \A k \in DOMAIN s : s[k] \in X
BY FS_Interval

LEMMA TotalIsSum ==
    ASSUME NEW s \in Seq(Int)
    PROVE  Total(s) = SumOf(s, DOMAIN s)
<1> DEFINE S == DOMAIN s
           pick == [T \in SUBSET S |-> Max(T)]
           It(iter) == iter = [T \in SUBSET S |-> IF T = {} THEN 0
                                      ELSE iter[T \ {Max(T)}] + s[Max(T)]]
<1>1. IsFiniteSet(S) /\ Weights(s, S)
  BY Domain DEF Weights
<1>2. Picks(pick, S)
  BY MaxIsIn, Domain DEF Picks
<1>3. Total(s) = (CHOOSE iter : It(iter))[S]
  BY DEF Total, FoldLeft, MapThenFoldSet
<1>4. ASSUME NEW iter PROVE It(iter) <=> Folded(iter, s, S, pick)
  BY DEF Folded
<1>5. (CHOOSE iter : It(iter)) = CHOOSE iter : Folded(iter, s, S, pick)
  <2> HIDE DEF It
  <2> QED BY <1>4
<1> QED
  <2> HIDE DEF It, S, pick
  <2> QED BY <1>1, <1>2, <1>3, <1>5, ChosenFold DEF S

-----------------------------------------------------------------------------
(* A function taken along a sequence, step by step                         *)

\* Induction over sequences, of a set of them.
LEMMA SeqInd ==
    ASSUME NEW X, NEW A, <<>> \in A,
           \A s \in Seq(X) : s \in A => \A x \in X : Append(s, x) \in A
    PROVE  Seq(X) \subseteq A
<1> DEFINE B == { n \in Nat : \A s \in Seq(X) : Len(s) = n => s \in A }
<1>1. 0 \in B
  BY EmptySeq
<1>2. ASSUME NEW n \in Nat, n \in B PROVE n + 1 \in B
  <2>1. ASSUME NEW s \in Seq(X), Len(s) = n + 1 PROVE s \in A
    <3> DEFINE t == [k \in 1..n |-> s[k]]
    <3>1. t \in Seq(X) /\ Len(t) = n /\ s[n + 1] \in X
      BY <2>1
    <3>2. Append(t, s[n + 1]) \in Seq(X) /\ Len(Append(t, s[n + 1])) = n + 1
      BY <3>1
    <3>3. \A k \in 1..(n + 1) : Append(t, s[n + 1])[k] = s[k]
      BY <3>1
    <3>4. Append(t, s[n + 1]) = s
      <4> HIDE DEF t
      <4> QED BY <2>1, <3>2, <3>3, SeqEqual
    <3>5. t \in A
      <4> HIDE DEF t
      <4> QED BY <1>2, <3>1
    <3> QED
      <4> HIDE DEF t
      <4> QED BY <3>1, <3>4, <3>5
  <2> QED
    BY <2>1
<1>3. Nat \subseteq B
  <2> HIDE DEF B
  <2> QED BY <1>1, <1>2, NatInd
<1> QED
  BY <1>3

LEMMA MaxOfLast ==
    ASSUME NEW m \in Nat, NEW T \in SUBSET (1..(m + 1)), m + 1 \in T
    PROVE  Max(T) = m + 1 /\ T \ {m + 1} \in SUBSET (1..m) /\ T # {}
<1> DEFINE p == m + 1
<1>1. p \in Nat /\ T \subseteq 1..p /\ T # {} /\ p \in T
  OBVIOUS
<1> HIDE DEF p
<1>2. Max(T) \in T /\ \A x \in T : Max(T) >= x
  BY <1>1, MaxIsIn
<1>3. Max(T) \in 1..p /\ Max(T) >= p
  BY <1>1, <1>2
<1>4. Max(T) = p
  BY <1>1, <1>3
<1>5. ASSUME NEW x \in T \ {p} PROVE x \in 1..m
  <2>1. x \in 1..p /\ x # p
    BY <1>1
  <2> QED
    BY <2>1 DEF p
<1> QED
  BY <1>1, <1>4, <1>5 DEF p

LEMMA MaxOfInterval ==
    ASSUME NEW m \in Nat
    PROVE  Max(1..(m + 1)) = m + 1 /\ (1..(m + 1)) \ {m + 1} = 1..m /\ 1..(m + 1) # {}
<1>1. 1..(m + 1) # {} /\ (1..(m + 1)) \ {m + 1} = 1..m /\ m + 1 \in 1..(m + 1)
  OBVIOUS
<1>2. 1..(m + 1) \in SUBSET (1..(m + 1))
  OBVIOUS
<1>3. Max(1..(m + 1)) = m + 1
  BY <1>1, <1>2, MaxOfLast
<1> QED
  BY <1>1, <1>3

\* it walks through the first n elements of s from base, step by step.
Walked(it, base, step, s, n) ==
    it = [T \in SUBSET (1..n) |->
            IF T = {} THEN base ELSE step[it[T \ {Max(T)}]][s[Max(T)]]]

Steps(step, G, X) == \A g \in G : \A x \in X : step[g][x] \in G

Walkable(base, step, s, n, G, X) ==
    base \in G /\ Steps(step, G, X) /\ n \in Nat /\ \A k \in 1..n : s[k] \in X

WalkedIn(g, base, step, s, m, G) ==
    g \in [SUBSET (1..m) -> G] /\ Walked(g, base, step, s, m)

LEMMA WalkMore ==
    ASSUME NEW X, NEW G, NEW base, NEW step, NEW s, NEW n, Walkable(base, step, s, n, G, X),
           NEW m \in Nat, m + 1 =< n, NEW g, WalkedIn(g, base, step, s, m, G)
    PROVE  \E h : WalkedIn(h, base, step, s, m + 1, G)
<1>0. /\ g \in [SUBSET (1..m) -> G] /\ Walked(g, base, step, s, m)
      /\ base \in G /\ Steps(step, G, X) /\ s[m + 1] \in X
  BY DEF Walkable, WalkedIn
<1> DEFINE h == [T \in SUBSET (1..(m + 1)) |->
                IF m + 1 \in T THEN step[g[T \ {m + 1}]][s[m + 1]] ELSE g[T]]
<1>1. ASSUME NEW T \in SUBSET (1..(m + 1)), m + 1 \notin T PROVE T \in SUBSET (1..m)
  BY <1>1
<1>2. ASSUME NEW T \in SUBSET (1..(m + 1)) PROVE h[T] \in G
  <2>1. CASE m + 1 \in T
    BY <1>0, <2>1, MaxOfLast DEF Steps
  <2>2. CASE m + 1 \notin T
    BY <1>0, <1>1, <2>2
  <2> QED
    BY <2>1, <2>2
<1>3. ASSUME NEW T \in SUBSET (1..(m + 1))
      PROVE  h[T] = IF T = {} THEN base ELSE step[h[T \ {Max(T)}]][s[Max(T)]]
  <2>1. CASE m + 1 \in T
    <3>1. h[T] = step[g[T \ {m + 1}]][s[m + 1]]
      BY <2>1
    <3>2. h[T \ {m + 1}] = g[T \ {m + 1}]
      OBVIOUS
    <3> HIDE DEF h
    <3> QED
      BY <2>1, <3>1, <3>2, MaxOfLast
  <2>2. CASE m + 1 \notin T
    <3>1. T \in SUBSET (1..m) /\ h[T] = g[T]
      BY <1>1, <2>2
    <3>2. h[T \ {Max(T)}] = g[T \ {Max(T)}]
      BY <2>2
    <3>3. g[T] = IF T = {} THEN base ELSE step[g[T \ {Max(T)}]][s[Max(T)]]
      BY <1>0, <3>1 DEF Walked
    <3> HIDE DEF h
    <3> QED
      BY <3>1, <3>2, <3>3
  <2> QED
    BY <2>1, <2>2
<1>4. h \in [SUBSET (1..(m + 1)) -> G]
  BY <1>2
<1>5. h = [T \in SUBSET (1..(m + 1)) |-> h[T]]
  OBVIOUS
<1>6. Walked(h, base, step, s, m + 1)
  <2> HIDE DEF h
  <2> QED BY <1>3, <1>5 DEF Walked
<1> QED
  BY <1>4, <1>6 DEF WalkedIn

LEMMA WalkExists ==
    ASSUME NEW X, NEW G, NEW base, NEW step, NEW s, NEW n, Walkable(base, step, s, n, G, X)
    PROVE  \E g : WalkedIn(g, base, step, s, n, G)
<1> DEFINE A == { m \in Nat : m =< n => \E g : WalkedIn(g, base, step, s, m, G) }
<1>1. 0 \in A
  <2>1. 1..0 = {} /\ SUBSET {} = {{}}
    OBVIOUS
  <2> DEFINE g == [T \in {{}} |-> base]
  <2>2. WalkedIn(g, base, step, s, 0, G)
    BY <2>1 DEF Walked, WalkedIn, Walkable
  <2> QED
    BY <2>2
<1>2. ASSUME NEW m \in Nat, m \in A, m + 1 =< n
      PROVE  \E g : WalkedIn(g, base, step, s, m + 1, G)
  <2>0. m =< n
    BY <1>2 DEF Walkable
  <2>1. PICK g : WalkedIn(g, base, step, s, m, G)
    BY <1>2, <2>0
  <2> HIDE DEF A
  <2> QED
    BY <1>2, <2>1, WalkMore
<1>3. \A m \in Nat : m \in A => m + 1 \in A
  <2>1. ASSUME NEW m \in Nat, m \in A PROVE m + 1 \in A
    <3>1. m + 1 \in Nat
      OBVIOUS
    <3> QED
      BY <1>2, <2>1, <3>1
  <2> QED
    BY <2>1
<1>4. n \in A
  <2> HIDE DEF A
  <2> QED BY <1>1, <1>3, NatInd DEF Walkable
<1>5. n =< n
  BY DEF Walkable
<1> QED
  BY <1>4, <1>5

LEMMA WalkFirst ==
    ASSUME NEW base, NEW step, NEW s, NEW n, NEW it, Walked(it, base, step, s, n)
    PROVE  it[{}] = base
<1>1. {} \in SUBSET (1..n)
  OBVIOUS
<1> QED
  BY <1>1 DEF Walked

LEMMA WalkStep ==
    ASSUME NEW base, NEW step, NEW s, NEW n, NEW it, Walked(it, base, step, s, n),
           NEW m \in Nat, 1..(m + 1) \subseteq 1..n
    PROVE  it[1..(m + 1)] = step[it[1..m]][s[m + 1]]
<1> DEFINE T == 1..(m + 1)
<1>1. T \in SUBSET (1..n)
  OBVIOUS
<1>2. T # {} /\ Max(T) = m + 1 /\ T \ {m + 1} = 1..m
  BY MaxOfInterval
<1> HIDE DEF T
<1>3. it[T] = step[it[T \ {Max(T)}]][s[Max(T)]]
  BY <1>1, <1>2 DEF Walked
<1> QED
  BY <1>2, <1>3 DEF T

Walk(base, step, s, n) == (CHOOSE it : Walked(it, base, step, s, n))[1..n]

LEMMA WalkEmpty ==
    ASSUME NEW base, NEW step, NEW s
    PROVE  Walk(base, step, s, 0) = base
<1> DEFINE g == [T \in {{}} |-> base]
<1>0. 1..0 = {} /\ SUBSET {} = {{}}
  OBVIOUS
<1>1. Walked(g, base, step, s, 0)
  BY <1>0 DEF Walked
<1>2. Walked(CHOOSE it : Walked(it, base, step, s, 0), base, step, s, 0)
  <2> HIDE DEF g
  <2> QED BY <1>1
<1>3. (CHOOSE it : Walked(it, base, step, s, 0))[{}] = base
  BY <1>2, WalkFirst
<1> QED
  BY <1>0, <1>3 DEF Walk

\* Two walks that agree on what they have seen agree on where they are.
LEMMA WalksAgree ==
    ASSUME NEW base, NEW step, NEW s, NEW t, NEW n \in Nat, NEW p, n =< p, p \in Nat,
           \A k \in 1..n : t[k] = s[k],
           NEW it, Walked(it, base, step, t, p), NEW jt, Walked(jt, base, step, s, n)
    PROVE  it[1..n] = jt[1..n]
<1> DEFINE A == { m \in Nat : m =< n => it[1..m] = jt[1..m] }
<1>1. 0 \in A
  <2>1. 1..0 = {} /\ 0 \in Nat
    OBVIOUS
  <2>2. it[{}] = base /\ jt[{}] = base
    BY WalkFirst
  <2> QED
    BY <2>1, <2>2
<1>2. ASSUME NEW m \in Nat, m \in A, m + 1 =< n PROVE it[1..(m + 1)] = jt[1..(m + 1)]
  <2>1. m =< n /\ m + 1 \in 1..n /\ 1..(m + 1) \subseteq 1..n /\ 1..(m + 1) \subseteq 1..p
    BY <1>2
  <2>2. t[m + 1] = s[m + 1] /\ it[1..m] = jt[1..m]
    BY <1>2, <2>1
  <2>3. it[1..(m + 1)] = step[it[1..m]][t[m + 1]]
    BY <2>1, WalkStep
  <2>4. jt[1..(m + 1)] = step[jt[1..m]][s[m + 1]]
    BY <2>1, WalkStep
  <2> QED
    BY <2>2, <2>3, <2>4
<1>3. \A m \in Nat : m \in A => m + 1 \in A
  <2>1. ASSUME NEW m \in Nat, m \in A PROVE m + 1 \in A
    <3>1. m + 1 \in Nat
      OBVIOUS
    <3> QED
      BY <1>2, <2>1, <3>1
  <2> QED
    BY <2>1
<1>4. n \in A
  <2> HIDE DEF A
  <2> QED BY <1>1, <1>3, NatInd
<1>5. n =< n
  OBVIOUS
<1> QED
  BY <1>4, <1>5

LEMMA WalkNext ==
    ASSUME NEW G, NEW X, NEW base, NEW step, NEW s, NEW t, NEW n \in Nat,
           Walkable(base, step, t, n + 1, G, X), \A k \in 1..n : t[k] = s[k]
    PROVE  Walk(base, step, t, n + 1) = step[Walk(base, step, s, n)][t[n + 1]]
<1> DEFINE p == n + 1
<1>0. p \in Nat /\ n =< p /\ 1..(n + 1) \subseteq 1..p
  OBVIOUS
<1>a. Walkable(base, step, s, n, G, X) /\ Walkable(base, step, t, p, G, X)
  BY DEF Walkable
<1> HIDE DEF p
<1>1. PICK it : it = CHOOSE g : Walked(g, base, step, t, p)
  OBVIOUS
<1>2. PICK jt : jt = CHOOSE g : Walked(g, base, step, s, n)
  OBVIOUS
<1>3. Walked(it, base, step, t, p)
  <2>1. PICK g : WalkedIn(g, base, step, t, p, G)
    BY <1>a, WalkExists
  <2> QED
    BY <1>1, <2>1 DEF WalkedIn
<1>4. Walked(jt, base, step, s, n)
  <2>1. PICK g : WalkedIn(g, base, step, s, n, G)
    BY <1>a, WalkExists
  <2> QED
    BY <1>2, <2>1 DEF WalkedIn
<1>8. it[1..n] = jt[1..n]
  BY <1>0, <1>3, <1>4, WalksAgree
<1>9. it[1..(n + 1)] = step[it[1..n]][t[n + 1]]
  BY <1>0, <1>3, WalkStep
<1> QED
  BY <1>1, <1>2, <1>8, <1>9 DEF Walk, p

\* A walk does not leave G.
LEMMA WalkStays ==
    ASSUME NEW G, NEW X, NEW base, NEW step, NEW s, NEW n, Walkable(base, step, s, n, G, X)
    PROVE  Walk(base, step, s, n) \in G
<1>1. PICK g : WalkedIn(g, base, step, s, n, G)
  BY WalkExists
<1>2. Walked(CHOOSE it : Walked(it, base, step, s, n), base, step, s, n)
  BY <1>1 DEF WalkedIn
<1>3. n \in Nat /\ n =< n
  BY DEF Walkable
<1>4. (CHOOSE it : Walked(it, base, step, s, n))[1..n] = g[1..n]
  BY <1>1, <1>2, <1>3, WalksAgree DEF WalkedIn
<1> QED
  BY <1>1, <1>4 DEF Walk, WalkedIn

-----------------------------------------------------------------------------
(* Profiles are kept sorted                                                *)

LEMMA FiniteFunctions ==
    ASSUME NEW S, IsFiniteSet(S), NEW T, IsFiniteSet(T)
    PROVE  IsFiniteSet([S -> T])
<1> DEFINE graph == [f \in [S -> T] |-> { <<k, f[k]>> : k \in S }]
<1>1. ASSUME NEW f \in [S -> T] PROVE graph[f] \in SUBSET (S \X T)
  OBVIOUS
<1>2. ASSUME NEW f \in [S -> T], NEW g \in [S -> T], graph[f] = graph[g] PROVE f = g
  <2>1. ASSUME NEW k \in S PROVE f[k] = g[k]
    <3>1. <<k, f[k]>> \in graph[g]
      BY <1>2
    <3> QED
      BY <3>1
  <2> QED
    BY <2>1
<1>3. graph \in Injection([S -> T], SUBSET (S \X T))
  <2>1. graph \in [[S -> T] -> SUBSET (S \X T)] /\ DOMAIN graph = [S -> T]
    BY <1>1
  <2> HIDE DEF graph
  <2> QED BY <1>2, <2>1 DEF Injection, IsInjective
<1>4. IsFiniteSet(SUBSET (S \X T))
  BY FS_Product, FS_SUBSET
<1> QED
  BY <1>3, <1>4, FS_Injection

-----------------------------------------------------------------------------
(* Teams of one size                                                       *)

Places(p, v) == { k \in DOMAIN p : p[k] =< v }

LEMMA AtMostType ==
    ASSUME NEW c \in Nat, NEW p \in [1..c -> Nat], NEW v
    PROVE  /\ IsFiniteSet(Places(p, v)) /\ AtMost(p, v) = Cardinality(Places(p, v))
           /\ AtMost(p, v) \in 0..c
<1>1. Places(p, v) \in SUBSET (1..c) /\ IsFiniteSet(1..c) /\ Cardinality(1..c) = c
  BY FS_Interval DEF Places
<1>2. AtMost(p, v) = Cardinality(Places(p, v))
  BY DEF AtMost, Places
<1>3. IsFiniteSet(Places(p, v)) /\ Cardinality(Places(p, v)) =< c
  BY <1>1, FS_Subset
<1>4. Cardinality(Places(p, v)) \in Nat
  BY <1>3, FS_CardinalityType
<1> QED
  BY <1>2, <1>3, <1>4

LEMMA AtMostMono ==
    ASSUME NEW c \in Nat, NEW p \in [1..c -> Nat], NEW v \in Int, NEW w \in Int, v =< w
    PROVE  AtMost(p, v) =< AtMost(p, w)
<1>1. ASSUME NEW k \in 1..c, p[k] =< v PROVE p[k] =< w
  BY <1>1
<1>2. Places(p, v) \in SUBSET Places(p, w)
  BY <1>1 DEF Places
<1>3. Cardinality(Places(p, v)) =< Cardinality(Places(p, w))
  BY <1>2, AtMostType, FS_Subset
<1> QED
  BY <1>3, AtMostType

LEMMA AtMostNone ==
    ASSUME NEW c \in Nat, NEW p \in [1..c -> Nat], NEW v \in Int, v < 0
    PROVE  AtMost(p, v) = 0
<1>1. Places(p, v) = {}
  BY DEF Places
<1> QED
  BY <1>1, AtMostType, FS_EmptySet

\* A size more teams do not exceed than the one below it is the size of a team.
LEMMA AtMostJump ==
    ASSUME NEW c \in Nat, NEW p \in [1..c -> Nat], NEW v \in Int
    PROVE  (\E k \in 1..c : p[k] = v) <=> AtMost(p, v - 1) < AtMost(p, v)
<1>1. Places(p, v - 1) \in SUBSET Places(p, v)
  BY DEF Places
<1>2. ASSUME NEW k \in 1..c, p[k] = v PROVE AtMost(p, v - 1) < AtMost(p, v)
  <2>1. k \in Places(p, v) /\ k \notin Places(p, v - 1)
    BY <1>2 DEF Places
  <2>2. Cardinality(Places(p, v - 1)) # Cardinality(Places(p, v))
    BY <1>1, <2>1, AtMostType, FS_Subset
  <2>3. AtMost(p, v - 1) =< AtMost(p, v)
    BY AtMostMono
  <2>4. AtMost(p, v - 1) \in Int /\ AtMost(p, v) \in Int
    BY AtMostType
  <2>5. AtMost(p, v - 1) # AtMost(p, v)
    BY <2>2, AtMostType
  <2> QED
    BY <2>3, <2>4, <2>5
<1>3. ASSUME \A k \in 1..c : p[k] # v PROVE AtMost(p, v - 1) = AtMost(p, v)
  <2>1. ASSUME NEW k \in 1..c, p[k] =< v PROVE p[k] =< v - 1
    BY <1>3, <2>1
  <2>2. Places(p, v - 1) = Places(p, v)
    BY <1>1, <2>1 DEF Places
  <2> QED
    BY <2>2, AtMostType
<1>4. AtMost(p, v - 1) \in Int
  BY AtMostType
<1> QED
  BY <1>2, <1>3, <1>4

\* No team exceeds some size.
LEMMA AtMostAll ==
    ASSUME NEW c \in Nat, NEW p \in [1..c -> Nat]
    PROVE  \E b \in Nat : \A k \in 1..c : p[k] =< b
<1> DEFINE A == { T \in SUBSET (1..c) : \E b \in Nat : \A k \in T : p[k] =< b }
<1>1. {} \in A
  OBVIOUS
<1>2. ASSUME NEW T \in SUBSET (1..c), T \in A, NEW x \in (1..c) \ T PROVE T \cup {x} \in A
  <2>1. PICK b \in Nat : \A k \in T : p[k] =< b
    BY <1>2
  <2>2. b + p[x] \in Nat /\ \A k \in T \cup {x} : p[k] =< b + p[x]
    BY <2>1
  <2> QED
    BY <2>2
<1>3. IsFiniteSet(1..c)
  BY FS_Interval
<1>4. 1..c \in A
  <2> HIDE DEF A
  <2> QED BY <1>1, <1>2, <1>3, FiniteInd
<1> QED
  BY <1>4

\* The size at place k of the sorted profile.
At(p, k, size) == AtMost(p, size - 1) < k /\ k =< AtMost(p, size)

LEMMA AtExists ==
    ASSUME NEW c \in Nat, NEW p \in [1..c -> Nat], NEW k \in 1..c
    PROVE  \E size \in Range(p) : size \in Nat /\ At(p, k, size)
<1>1. PICK b \in Nat : \A j \in 1..c : p[j] =< b
  BY AtMostAll
<1>2. AtMost(p, b) = c
  <2>1. Places(p, b) = 1..c
    BY <1>1 DEF Places
  <2>2. Cardinality(1..c) = c
    <3>1. c \in Int /\ 1 \in Int /\ (~ (1 > c) \/ c = 0)
      OBVIOUS
    <3> QED
      BY <3>1, FS_Interval
  <2> QED
    BY <2>1, <2>2, AtMostType
<1> DEFINE A == { v \in Nat : k =< AtMost(p, v) }
<1>3. b \in A /\ A \subseteq Nat
  BY <1>2
<1>4. PICK v \in A : \A w \in A : v =< w
  <2> HIDE DEF A
  <2> QED BY <1>3, Smallest
<1>5. AtMost(p, v - 1) < k
  <2>1. CASE v = 0
    <3>1. v - 1 \in Int /\ v - 1 < 0
      BY <2>1
    <3>2. AtMost(p, v - 1) = 0
      BY <3>1, AtMostNone
    <3> QED
      BY <3>2
  <2>2. CASE v # 0
    <3>1. v - 1 \in Nat /\ ~ (v =< v - 1)
      BY <2>2
    <3>2. v - 1 \notin A
      BY <1>4, <3>1
    <3>3. AtMost(p, v - 1) \in Int
      BY AtMostType
    <3> QED
      BY <3>1, <3>2, <3>3
  <2> QED
    BY <2>1, <2>2
<1>6. v \in Nat /\ k =< AtMost(p, v)
  OBVIOUS
<1>7. AtMost(p, v - 1) < AtMost(p, v)
  <2>1. AtMost(p, v - 1) \in Int /\ AtMost(p, v) \in Int
    BY AtMostType
  <2> QED
    BY <1>5, <1>6, <2>1
<1>8. PICK j \in 1..c : p[j] = v
  BY <1>6, <1>7, AtMostJump
<1>9. v \in Range(p)
  BY <1>8 DEF Range
<1> QED
  BY <1>5, <1>6, <1>9 DEF At

LEMMA AtUnique ==
    ASSUME NEW c \in Nat, NEW p \in [1..c -> Nat], NEW k \in 1..c,
           NEW v \in Nat, At(p, k, v), NEW w \in Nat, At(p, k, w)
    PROVE  v = w
<1>1. ASSUME NEW x \in Nat, NEW y \in Nat, x < y, At(p, k, x), At(p, k, y) PROVE FALSE
  <2>1. x =< y - 1 /\ y - 1 \in Int
    BY <1>1
  <2>2. AtMost(p, x) =< AtMost(p, y - 1)
    BY <2>1, AtMostMono
  <2>3. AtMost(p, x) \in Int /\ AtMost(p, y - 1) \in Int
    BY AtMostType
  <2> QED
    BY <1>1, <2>2, <2>3 DEF At
<1> QED
  BY <1>1

LEMMA SortAt ==
    ASSUME NEW c \in Nat, NEW p \in [1..c -> Nat]
    PROVE  /\ SortProfile(p) \in [1..c -> Nat]
           /\ \A k \in 1..c : At(p, k, SortProfile(p)[k])
<1>1. ASSUME NEW k \in 1..c
      PROVE  SortProfile(p)[k] = CHOOSE size \in Range(p) : At(p, k, size)
  BY DEF SortProfile, At
<1>2. ASSUME NEW k \in 1..c
      PROVE  SortProfile(p)[k] \in Range(p) /\ At(p, k, SortProfile(p)[k])
  BY <1>1, AtExists
<1>3. Range(p) \subseteq Nat
  BY DEF Range
<1>4. SortProfile(p) = [k \in 1..c |-> SortProfile(p)[k]]
  BY DEF SortProfile
<1> QED
  BY <1>2, <1>3, <1>4

\* Two profiles with as many teams of every size.
Alike(p, q) == \A v \in Int : AtMost(p, v) = AtMost(q, v)

LEMMA SortAlike ==
    ASSUME NEW c \in Nat, NEW p \in [1..c -> Nat]
    PROVE  Alike(SortProfile(p), p)
<1> DEFINE q == SortProfile(p)
<1>1. q \in [1..c -> Nat] /\ \A k \in 1..c : At(p, k, q[k])
  BY SortAt
<1> HIDE DEF q
<1>2. ASSUME NEW v \in Int PROVE AtMost(q, v) = AtMost(p, v)
  <2>1. ASSUME NEW k \in 1..c PROVE q[k] =< v <=> k =< AtMost(p, v)
    <3>1. AtMost(p, v) \in Int /\ AtMost(p, q[k]) \in Int /\ AtMost(p, q[k] - 1) \in Int
      BY AtMostType
    <3>2. AtMost(p, q[k] - 1) < k /\ k =< AtMost(p, q[k])
      BY <1>1 DEF At
    <3>3. CASE q[k] =< v
      <4>1. AtMost(p, q[k]) =< AtMost(p, v)
        BY <1>1, <3>3, AtMostMono
      <4> QED
        BY <3>1, <3>2, <3>3, <4>1
    <3>4. CASE ~ (q[k] =< v)
      <4>1. v =< q[k] - 1 /\ q[k] - 1 \in Int
        BY <1>1, <3>4
      <4>2. AtMost(p, v) =< AtMost(p, q[k] - 1)
        BY <4>1, AtMostMono
      <4> QED
        BY <3>1, <3>2, <3>4, <4>2
    <3> QED
      BY <3>3, <3>4
  <2>2. AtMost(p, v) \in 0..c
    BY AtMostType
  <2>3. Places(q, v) = 1..AtMost(p, v)
    <3>1. ASSUME NEW k \in 1..AtMost(p, v) PROVE k \in 1..c
      BY <2>2
    <3>2. DOMAIN q = 1..c
      BY <1>1
    <3>3. ASSUME NEW k \in 1..c, k =< AtMost(p, v) PROVE k \in 1..AtMost(p, v)
      BY <2>2, <3>3
    <3> QED
      BY <2>1, <3>1, <3>2, <3>3 DEF Places
  <2>4. Cardinality(1..AtMost(p, v)) = AtMost(p, v)
    BY <2>2, FS_Interval
  <2> QED
    BY <1>1, <2>3, <2>4, AtMostType
<1> QED
  BY <1>2 DEF Alike, q

LEMMA SortSame ==
    ASSUME NEW c \in Nat, NEW p \in [1..c -> Nat], NEW q \in [1..c -> Nat], Alike(p, q)
    PROVE  SortProfile(p) = SortProfile(q)
<1>1. ASSUME NEW k \in 1..c PROVE SortProfile(p)[k] = SortProfile(q)[k]
  <2>1. At(p, k, SortProfile(p)[k]) /\ SortProfile(p)[k] \in Nat
    BY SortAt
  <2>2. At(q, k, SortProfile(q)[k]) /\ SortProfile(q)[k] \in Nat
    BY SortAt
  <2>3. At(p, k, SortProfile(q)[k])
    BY <2>2 DEF Alike, At
  <2> QED
    BY <2>1, <2>2, <2>3, AtUnique
<1>2. SortProfile(p) \in [1..c -> Nat] /\ SortProfile(q) \in [1..c -> Nat]
  BY SortAt
<1> QED
  BY <1>1, <1>2

LEMMA AtMostGrow ==
    ASSUME NEW c \in Nat, NEW r \in [1..c -> Nat], NEW i \in 1..c, NEW y \in Nat,
           NEW v \in Int
    PROVE  AtMost([r EXCEPT ![i] = y], v)
                = AtMost(r, v) + (IF y =< v THEN 1 ELSE 0) - (IF r[i] =< v THEN 1 ELSE 0)
<1> DEFINE s == [r EXCEPT ![i] = y]
           P == Places(r, v)
           R == P \ {i}
<1>1. s \in [1..c -> Nat] /\ s[i] = y /\ \A m \in (1..c) \ {i} : s[m] = r[m]
  OBVIOUS
<1> HIDE DEF s
<1>2. IsFiniteSet(P) /\ AtMost(r, v) = Cardinality(P) /\ AtMost(r, v) \in 0..c
  BY AtMostType
<1>3. AtMost(s, v) = Cardinality(Places(s, v))
  BY <1>1, AtMostType
<1>4. Places(s, v) = IF y =< v THEN R \cup {i} ELSE R
  BY <1>1 DEF Places
<1>5. i \in P <=> r[i] =< v
  BY DEF Places
<1> HIDE DEF P
<1>6. IsFiniteSet(R) /\ i \notin R
      /\ Cardinality(R) = IF i \in P THEN Cardinality(P) - 1 ELSE Cardinality(P)
  BY <1>2, FS_RemoveElement
<1> HIDE DEF R
<1>7. Cardinality(R \cup {i}) = Cardinality(R) + 1
  BY <1>6, FS_AddElement
<1>8. AtMost(r, v) \in Int
  BY <1>2
<1>9. Cardinality(R) \in Int
  BY <1>2, <1>6, <1>8
<1>10. AtMost(s, v) = Cardinality(R) + (IF y =< v THEN 1 ELSE 0)
  BY <1>3, <1>4, <1>7, <1>9
<1>11. Cardinality(R) = AtMost(r, v) - (IF r[i] =< v THEN 1 ELSE 0)
  BY <1>2, <1>5, <1>6, <1>8
<1>12. AtMost(s, v)
            = AtMost(r, v) + (IF y =< v THEN 1 ELSE 0) - (IF r[i] =< v THEN 1 ELSE 0)
  <2>1. PICK a \in Int : a = AtMost(r, v)
    BY <1>8
  <2>2. CASE y =< v
    BY <1>10, <1>11, <2>1, <2>2
  <2>3. CASE ~ (y =< v)
    BY <1>10, <1>11, <2>1, <2>3
  <2> QED
    BY <2>2, <2>3
<1> QED
  BY <1>12 DEF s

\* A team of one size takes a ticket, in either profile.
LEMMA AlikeGrow ==
    ASSUME NEW c \in Nat, NEW p \in [1..c -> Nat], NEW q \in [1..c -> Nat], Alike(p, q),
           NEW j \in 1..c, NEW k \in 1..c, p[j] = q[k], NEW y \in Nat
    PROVE  Alike([p EXCEPT ![j] = y], [q EXCEPT ![k] = y])
<1>1. ASSUME NEW v \in Int
      PROVE  AtMost([p EXCEPT ![j] = y], v) = AtMost([q EXCEPT ![k] = y], v)
  <2>1. AtMost(p, v) = AtMost(q, v)
    BY DEF Alike
  <2>2. AtMost([p EXCEPT ![j] = y], v)
            = AtMost(p, v) + (IF y =< v THEN 1 ELSE 0) - (IF p[j] =< v THEN 1 ELSE 0)
    BY AtMostGrow
  <2>3. AtMost([q EXCEPT ![k] = y], v)
            = AtMost(q, v) + (IF y =< v THEN 1 ELSE 0) - (IF q[k] =< v THEN 1 ELSE 0)
    BY AtMostGrow
  <2> QED
    BY <2>1, <2>2, <2>3
<1> QED
  BY <1>1 DEF Alike

\* Whatever team one profile has, the other has, too.
LEMMA AlikeTeam ==
    ASSUME NEW c \in Nat, NEW p \in [1..c -> Nat], NEW q \in [1..c -> Nat], Alike(p, q),
           NEW j \in 1..c
    PROVE  \E k \in 1..c : q[k] = p[j]
<1> DEFINE v == p[j]
<1>1. v \in Int /\ v - 1 \in Int
  OBVIOUS
<1> HIDE DEF v
<1>2. AtMost(p, v - 1) < AtMost(p, v)
  BY <1>1, AtMostJump DEF v
<1>3. AtMost(q, v - 1) < AtMost(q, v)
  BY <1>1, <1>2 DEF Alike
<1>4. \E k \in 1..c : q[k] = v
  BY <1>1, <1>3, AtMostJump
<1> QED
  BY <1>4 DEF v

-----------------------------------------------------------------------------
(* Teams that are alike, whatever their order                              *)

\* One more for each element of A makes the sum as much larger as A is.
LEMMA SumCount ==
    ASSUME NEW S, IsFiniteSet(S), NEW v, Weights(v, S), NEW A \in SUBSET S,
           NEW w, Weights(w, S),
           \A x \in S : w[x] = v[x] + (IF x \in A THEN 1 ELSE 0)
    PROVE  SumOf(w, S) = SumOf(v, S) + Cardinality(A)
<1> DEFINE u(T) == [x \in S |-> v[x] + (IF x \in T THEN 1 ELSE 0)]
           B == { T \in SUBSET A : SumOf(u(T), S) = SumOf(v, S) + Cardinality(T) }
<1>0. \A T : Weights(u(T), S)
  BY DEF Weights
<1>1. {} \in B
  <2>1. SumOf(u({}), S) = SumOf(v, S)
    <3>1. \A x \in S : u({})[x] = v[x]
      BY DEF Weights
    <3> HIDE DEF u
    <3> QED BY <1>0, <3>1, SumSame
  <2>2. SumOf(v, S) \in Int /\ Cardinality({}) = 0
    BY SumType, FS_EmptySet
  <2> QED
    BY <2>1, <2>2
<1>2. ASSUME NEW T \in SUBSET A, T \in B, NEW x \in A \ T PROVE T \cup {x} \in B
  <2> DEFINE U == T \cup {x}
  <2>1. IsFiniteSet(T) /\ x \in S
    BY FS_Subset
  <2>2. Cardinality(U) = Cardinality(T) + 1 /\ Cardinality(T) \in Nat
    BY <2>1, FS_AddElement, FS_CardinalityType
  <2>3. u(U)[x] = u(T)[x] + 1 /\ \A y \in S \ {x} : u(U)[y] = u(T)[y]
    BY <2>1 DEF Weights
  <2>4. SumOf(u(U), S) = SumOf(u(T), S) + 1
    <3> HIDE DEF u, U
    <3> QED BY <1>0, <2>1, <2>3, SumGrow
  <2>5. SumOf(v, S) \in Int
    BY SumType
  <2>6. SumOf(u(T), S) = SumOf(v, S) + Cardinality(T)
    BY <1>2
  <2>7. SumOf(u(U), S) = SumOf(v, S) + Cardinality(U)
    <3> HIDE DEF u, U
    <3> QED BY <2>2, <2>4, <2>5, <2>6
  <2> QED
    BY <2>7
<1>3. IsFiniteSet(A)
  BY FS_Subset
<1>4. A \in B
  <2> HIDE DEF B
  <2> QED BY <1>1, <1>2, <1>3, FiniteInd
<1>5. \A x \in S : u(A)[x] = w[x]
  OBVIOUS
<1>6. SumOf(u(A), S) = SumOf(w, S)
  <2> HIDE DEF u
  <2> QED BY <1>0, <1>5, SumSame
<1> QED
  BY <1>4, <1>6

Capped(p, b) == [k \in DOMAIN p |-> IF p[k] =< b THEN p[k] ELSE b]

LEMMA CappedMore ==
    ASSUME NEW c \in Nat, NEW p \in [1..c -> Nat], NEW b \in Nat
    PROVE  SumOf(Capped(p, b + 1), 1..c) = SumOf(Capped(p, b), 1..c) + (c - AtMost(p, b))
<1> DEFINE A == (1..c) \ Places(p, b)
<1>1. \A k \in 1..c : Capped(p, b + 1)[k] = Capped(p, b)[k] + (IF k \in A THEN 1 ELSE 0)
  BY DEF Capped, Places
<1>2. Weights(Capped(p, b), 1..c) /\ Weights(Capped(p, b + 1), 1..c)
  BY DEF Weights, Capped
<1>3. IsFiniteSet(1..c) /\ Cardinality(1..c) = c
  <2>1. c \in Int /\ 1 \in Int /\ (~ (1 > c) \/ c = 0)
    OBVIOUS
  <2> QED
    BY <2>1, FS_Interval
<1>4. Cardinality(A) = c - AtMost(p, b)
  <2>1. (1..c) \cap Places(p, b) = Places(p, b)
    BY DEF Places
  <2>2. Cardinality(A) = Cardinality(1..c) - Cardinality((1..c) \cap Places(p, b))
    BY <1>3, FS_Difference
  <2> QED
    BY <1>3, <2>1, <2>2, AtMostType
<1>5. A \in SUBSET (1..c)
  OBVIOUS
<1> HIDE DEF A
<1>6. SumOf(Capped(p, b + 1), 1..c) = SumOf(Capped(p, b), 1..c) + Cardinality(A)
  <2>1. PICK w : w = Capped(p, b + 1)
    OBVIOUS
  <2>2. PICK v : v = Capped(p, b)
    OBVIOUS
  <2>3. PICK S : S = 1..c
    OBVIOUS
  <2>4. /\ \A x \in S : w[x] = v[x] + (IF x \in A THEN 1 ELSE 0)
        /\ Weights(v, S) /\ Weights(w, S) /\ IsFiniteSet(S) /\ A \in SUBSET S
    BY <1>1, <1>2, <1>3, <1>5, <2>1, <2>2, <2>3
  <2>5. SumOf(w, S) = SumOf(v, S) + Cardinality(A)
    BY <2>4, SumCount
  <2> QED
    BY <2>1, <2>2, <2>3, <2>5
<1> QED
  BY <1>4, <1>6

LEMMA AlikeSum ==
    ASSUME NEW c \in Nat, NEW p \in [1..c -> Nat], NEW q \in [1..c -> Nat], Alike(p, q)
    PROVE  SumOf(p, 1..c) = SumOf(q, 1..c)
<1> DEFINE A == { b \in Nat : SumOf(Capped(p, b), 1..c) = SumOf(Capped(q, b), 1..c) }
<1>1. 0 \in A
  <2>1. Capped(p, 0) = Capped(q, 0)
    BY DEF Capped
  <2> QED
    BY <2>1
<1>2. ASSUME NEW b \in Nat, b \in A PROVE b + 1 \in A
  <2>1. AtMost(p, b) = AtMost(q, b)
    BY DEF Alike
  <2>2. SumOf(Capped(p, b + 1), 1..c) = SumOf(Capped(p, b), 1..c) + (c - AtMost(p, b))
    BY CappedMore
  <2>3. SumOf(Capped(q, b + 1), 1..c) = SumOf(Capped(q, b), 1..c) + (c - AtMost(q, b))
    BY CappedMore
  <2> QED
    BY <1>2, <2>1, <2>2, <2>3
<1>3. Nat \subseteq A
  <2> HIDE DEF A
  <2> QED BY <1>1, <1>2, NatInd
<1>4. PICK d \in Nat : \A k \in 1..c : p[k] =< d
  BY AtMostAll
<1>5. PICK e \in Nat : \A k \in 1..c : q[k] =< e
  BY AtMostAll
<1>6. d + e \in Nat /\ \A k \in 1..c : p[k] =< d + e /\ q[k] =< d + e
  BY <1>4, <1>5
<1>7. Capped(p, d + e) = p /\ Capped(q, d + e) = q
  BY <1>6 DEF Capped
<1> QED
  BY <1>3, <1>6, <1>7

-----------------------------------------------------------------------------
(* The loads of the teams                                                  *)

\* A team takes x players more.
Grown(load, team, x) == [load EXCEPT ![team] = load[team] + x]

LEMMA GrownType ==
    ASSUME NEW c \in Nat, NEW p \in [1..c -> Nat], NEW k \in 1..c, NEW x \in Nat
    PROVE  /\ Grown(p, k, x) \in [1..c -> Nat]
           /\ Grown(p, k, x)[k] = p[k] + x
           /\ \A j \in (1..c) \ {k} : Grown(p, k, x)[j] = p[j]
BY DEF Grown

LEMMA AlikeGrown ==
    ASSUME NEW c \in Nat, NEW p \in [1..c -> Nat], NEW q \in [1..c -> Nat], Alike(p, q),
           NEW j \in 1..c, NEW k \in 1..c, p[j] = q[k], NEW x \in Nat
    PROVE  SortProfile(Grown(p, j, x)) = SortProfile(Grown(q, k, x))
<1> DEFINE y == p[j] + x
<1>1. y \in Nat
  OBVIOUS
<1> HIDE DEF y
<1>2. Alike([p EXCEPT ![j] = y], [q EXCEPT ![k] = y])
  BY <1>1, AlikeGrow
<1>3. Grown(p, j, x) = [p EXCEPT ![j] = y] /\ Grown(q, k, x) = [q EXCEPT ![k] = y]
  BY DEF Grown, y
<1>4. Grown(p, j, x) \in [1..c -> Nat] /\ Grown(q, k, x) \in [1..c -> Nat]
  BY GrownType
<1>5. Alike(Grown(p, j, x), Grown(q, k, x))
  BY <1>2, <1>3
<1> QED
  BY <1>4, <1>5, SortSame

\* Every step a ticket of x players makes from the loads L.
Placed(L, x, c, n) ==
    { load \in [1..c -> Nat] :
        \E old \in L : \E team \in 1..c : old[team] + x =< n /\ load = Grown(old, team, x) }

Sorted(L) == { SortProfile(load) : load \in L }

LEMMA InTicket ==
    ASSUME NEW c \in Nat, NEW x \in Nat, NEW n, NEW P \in SUBSET [1..c -> Nat], NEW r
    PROVE  r \in PlaceTicket(P, x, n) <=>
            \E p \in P : \E k \in 1..c : p[k] + x =< n /\ r = SortProfile(Grown(p, k, x))
<1>1. ASSUME NEW p \in P PROVE DOMAIN p = 1..c
  OBVIOUS
<1>2. PlaceTicket(P, x, n)
        = UNION { { SortProfile(Grown(p, k, x)) : k \in { k \in DOMAIN p : p[k] + x =< n } } :
                    p \in P }
  BY DEF PlaceTicket, Grown
<1> QED
  BY <1>1, <1>2

\* Sorting in between loses no profile.
LEMMA PlaceSorted ==
    ASSUME NEW c \in Nat, NEW x \in Nat, NEW n, NEW L \in SUBSET [1..c -> Nat]
    PROVE  PlaceTicket(Sorted(L), x, n) = Sorted(Placed(L, x, c, n))
<1>0. Sorted(L) \in SUBSET [1..c -> Nat]
  BY SortAt DEF Sorted
<1>1. ASSUME NEW load \in L, NEW k \in 1..c, load[k] + x =< n
      PROVE  SortProfile(Grown(load, k, x)) \in PlaceTicket(Sorted(L), x, n)
  <2>1. PICK p : p = SortProfile(load)
    OBVIOUS
  <2>2. p \in Sorted(L) /\ p \in [1..c -> Nat] /\ Alike(p, load)
    BY <2>1, SortAt, SortAlike DEF Sorted
  <2>3. Alike(load, p)
    BY <2>2 DEF Alike
  <2>4. PICK j \in 1..c : p[j] = load[k]
    BY <2>2, <2>3, AlikeTeam
  <2>5. SortProfile(Grown(p, j, x)) = SortProfile(Grown(load, k, x))
    BY <2>2, <2>4, AlikeGrown
  <2>6. p[j] + x =< n
    BY <1>1, <2>4
  <2> QED
    BY <1>0, <2>2, <2>5, <2>6, InTicket
<1>2. ASSUME NEW p \in Sorted(L), NEW j \in 1..c, p[j] + x =< n
      PROVE  SortProfile(Grown(p, j, x)) \in Sorted(Placed(L, x, c, n))
  <2>1. PICK load \in L : p = SortProfile(load)
    BY DEF Sorted
  <2>2. p \in [1..c -> Nat] /\ Alike(p, load)
    BY <2>1, SortAt, SortAlike
  <2>3. PICK k \in 1..c : load[k] = p[j]
    BY <2>2, AlikeTeam
  <2>4. SortProfile(Grown(p, j, x)) = SortProfile(Grown(load, k, x))
    BY <2>2, <2>3, AlikeGrown
  <2>5. load[k] + x =< n
    BY <1>2, <2>3
  <2>6. Grown(load, k, x) \in Placed(L, x, c, n)
    BY <2>5, GrownType DEF Placed
  <2> QED
    BY <2>4, <2>6 DEF Sorted
<1>3. ASSUME NEW r \in PlaceTicket(Sorted(L), x, n) PROVE r \in Sorted(Placed(L, x, c, n))
  <2>1. PICK p \in Sorted(L) :
            \E k \in 1..c : p[k] + x =< n /\ r = SortProfile(Grown(p, k, x))
    BY <1>0, InTicket
  <2> QED
    BY <1>2, <2>1
<1>4. ASSUME NEW r \in Sorted(Placed(L, x, c, n)) PROVE r \in PlaceTicket(Sorted(L), x, n)
  <2>1. PICK new \in Placed(L, x, c, n) : r = SortProfile(new)
    BY DEF Sorted
  <2>2. PICK old \in L : \E k \in 1..c : old[k] + x =< n /\ new = Grown(old, k, x)
    BY <2>1 DEF Placed
  <2> QED
    BY <1>1, <2>1, <2>2
<1> QED
  BY <1>3, <1>4

-----------------------------------------------------------------------------
(* What the teams of an assignment carry                                   *)

LEMMA AppendFacts ==
    ASSUME NEW X, NEW s \in Seq(X), NEW x \in X
    PROVE  /\ Append(s, x) \in Seq(X) /\ Len(Append(s, x)) = Len(s) + 1 /\ Len(s) \in Nat
           /\ DOMAIN s = 1..Len(s) /\ DOMAIN Append(s, x) = 1..(Len(s) + 1)
           /\ \A k \in 1..Len(s) : Append(s, x)[k] = s[k] /\ s[k] \in X
           /\ Append(s, x)[Len(s) + 1] = x
OBVIOUS

\* What of each ticket the assignment f gives a team, and the loads of the teams.
Share(f, s, team) == [k \in DOMAIN s |-> IF f[k] = team THEN s[k] ELSE 0]

Load(f, s, c) == [team \in 1..c |-> Total(Share(f, s, team))]

Fits(f, s, c, n) ==
    /\ f \in [DOMAIN s -> 1..c]
    /\ \A team \in 1..c : Load(f, s, c)[team] =< n

Loads(s, c, n) ==
    { Load(f, s, c) : f \in { f \in [DOMAIN s -> 1..c] :
                                \A team \in 1..c : Load(f, s, c)[team] =< n } }

LEMMA InLoads ==
    ASSUME NEW s, NEW c, NEW n, NEW load
    PROVE  load \in Loads(s, c, n) <=> \E f : Fits(f, s, c, n) /\ load = Load(f, s, c)
BY DEF Loads, Fits

LEMMA SumNat ==
    ASSUME NEW S, IsFiniteSet(S), NEW w, \A x \in S : w[x] \in Nat
    PROVE  SumOf(w, S) \in Nat
<1>1. Weights(w, S)
  BY DEF Weights
<1>2. SumOf(w, S) \in Int
  BY <1>1, SumType
<1>3. S \in SUBSET S
  OBVIOUS
<1>4. 0 =< SumOf(w, S)
  BY <1>3, SumPart
<1> QED
  BY <1>2, <1>4

LEMMA ShareSum ==
    ASSUME NEW s \in Seq(Nat), NEW f, NEW team
    PROVE  /\ Share(f, s, team) \in Seq(Nat) /\ DOMAIN Share(f, s, team) = DOMAIN s
           /\ \A k \in DOMAIN s : Share(f, s, team)[k] \in Nat /\ Share(f, s, team)[k] =< s[k]
           /\ Total(Share(f, s, team)) = SumOf(Share(f, s, team), DOMAIN s)
           /\ Total(Share(f, s, team)) \in Nat
<1> DEFINE w == Share(f, s, team)
<1>1. DOMAIN s = 1..Len(s) /\ Len(s) \in Nat /\ \A k \in DOMAIN s : s[k] \in Nat
  OBVIOUS
<1>2. DOMAIN w = DOMAIN s /\ \A k \in DOMAIN s : w[k] \in Nat /\ w[k] =< s[k]
  BY <1>1 DEF Share
<1>3. w = [k \in 1..Len(s) |-> w[k]]
  BY <1>1 DEF Share
<1> HIDE DEF w
<1>4. w \in Seq(Nat)
  BY <1>1, <1>2, <1>3
<1>5. w \in Seq(Int)
  BY <1>1, <1>2, <1>3
<1>6. IsFiniteSet(DOMAIN s)
  BY Domain
<1>7. Total(w) = SumOf(w, DOMAIN s)
  BY <1>2, <1>5, TotalIsSum
<1>8. SumOf(w, DOMAIN s) \in Nat
  BY <1>2, <1>6, SumNat
<1> QED
  BY <1>2, <1>4, <1>7, <1>8 DEF w

LEMMA LoadType ==
    ASSUME NEW s \in Seq(Nat), NEW f, NEW c
    PROVE  Load(f, s, c) \in [1..c -> Nat]
<1>1. ASSUME NEW team PROVE Total(Share(f, s, team)) \in Nat
  BY ShareSum
<1> QED
  BY <1>1 DEF Load

\* t is s with one ticket of x players more, at place k1.
Longer(t, s, k1, x) ==
    /\ s \in Seq(Nat) /\ t \in Seq(Nat) /\ x \in Nat
    /\ Len(s) \in Nat /\ k1 = Len(s) + 1 /\ k1 \notin DOMAIN s
    /\ DOMAIN s = 1..Len(s) /\ DOMAIN t = (DOMAIN s) \cup {k1} /\ DOMAIN t = 1..k1
    /\ \A k \in DOMAIN s : t[k] = s[k]
    /\ t[k1] = x

LEMMA AppendLonger ==
    ASSUME NEW s \in Seq(Nat), NEW x \in Nat
    PROVE  Longer(Append(s, x), s, Len(s) + 1, x)
BY AppendFacts DEF Longer

LEMMA LongerShare ==
    ASSUME NEW s, NEW t, NEW k1, NEW x, Longer(t, s, k1, x), NEW f, NEW g,
           \A k \in DOMAIN s : g[k] = f[k], NEW team
    PROVE  Total(Share(g, t, team))
                = Total(Share(f, s, team)) + (IF g[k1] = team THEN x ELSE 0)
<1>1. PICK w : w = Share(g, t, team)
  OBVIOUS
<1>2. PICK v : v = Share(f, s, team)
  OBVIOUS
<1>3. PICK S : S = DOMAIN s
  OBVIOUS
<1>4. s \in Seq(Nat) /\ t \in Seq(Nat) /\ DOMAIN t = S \cup {k1} /\ k1 \notin S
  BY <1>3 DEF Longer
<1>5. IsFiniteSet(S)
  BY <1>3, <1>4, Domain
<1>6. /\ Total(w) = SumOf(w, S \cup {k1}) /\ \A k \in S \cup {k1} : w[k] \in Nat
  BY <1>1, <1>4, ShareSum
<1>7. /\ Total(v) = SumOf(v, S) /\ \A k \in S : v[k] \in Nat
  BY <1>2, <1>3, <1>4, ShareSum
<1>8. Weights(w, S \cup {k1}) /\ Weights(v, S)
  BY <1>6, <1>7 DEF Weights
<1>n. k1 \notin S
  BY <1>4
<1>9. SumOf(w, S \cup {k1}) = SumOf(w, S) + w[k1]
  BY <1>n, <1>5, <1>8, SumAdd
<1>10. \A k \in S : v[k] = w[k]
  BY <1>1, <1>2, <1>3, <1>4 DEF Share, Longer
<1>11. SumOf(v, S) = SumOf(w, S)
  BY <1>5, <1>8, <1>10, SumSame
<1>12. w[k1] = IF g[k1] = team THEN x ELSE 0
  BY <1>1, <1>4 DEF Share, Longer
<1> QED
  BY <1>1, <1>2, <1>6, <1>7, <1>9, <1>11, <1>12

LEMMA LongerLoad ==
    ASSUME NEW c \in Nat, NEW s, NEW t, NEW k1, NEW x, Longer(t, s, k1, x), NEW f, NEW g,
           \A k \in DOMAIN s : g[k] = f[k], g[k1] \in 1..c
    PROVE  Load(g, t, c) = Grown(Load(f, s, c), g[k1], x)
<1>1. PICK old : old = Load(f, s, c)
  OBVIOUS
<1>2. PICK new : new = Load(g, t, c)
  OBVIOUS
<1>3. PICK u \in 1..c : u = g[k1]
  OBVIOUS
<1>4. x \in Nat /\ s \in Seq(Nat) /\ t \in Seq(Nat)
  BY DEF Longer
<1>5. old \in [1..c -> Nat] /\ new \in [1..c -> Nat]
  BY <1>1, <1>2, <1>4, LoadType
<1>6. ASSUME NEW team \in 1..c PROVE new[team] = old[team] + (IF u = team THEN x ELSE 0)
  <2>1. new[team] = Total(Share(g, t, team)) /\ old[team] = Total(Share(f, s, team))
    BY <1>1, <1>2 DEF Load
  <2> QED
    BY <1>3, <2>1, LongerShare
<1>7. Grown(old, u, x) \in [1..c -> Nat]
  BY <1>4, <1>5, GrownType
<1>8. ASSUME NEW team \in 1..c PROVE new[team] = Grown(old, u, x)[team]
  <2>0. x \in Nat /\ old \in [1..c -> Nat]
    BY <1>4, <1>5
  <2>1. Grown(old, u, x)[team] = old[team] + (IF u = team THEN x ELSE 0)
    <3>1. CASE u = team
      BY <2>0, <3>1 DEF Grown
    <3>2. CASE u # team
      BY <2>0, <3>2 DEF Grown
    <3> QED
      BY <3>1, <3>2
  <2> QED
    BY <1>6, <2>1
<1>9. new = Grown(old, u, x)
  BY <1>5, <1>7, <1>8
<1> QED
  BY <1>1, <1>2, <1>3, <1>9

LEMMA LoadsType ==
    ASSUME NEW s \in Seq(Nat), NEW c, NEW n
    PROVE  Loads(s, c, n) \in SUBSET [1..c -> Nat]
BY LoadType, InLoads

LEMMA LoadsEmpty ==
    ASSUME NEW c \in Nat, NEW n \in Nat
    PROVE  Loads(<<>>, c, n) = { [team \in 1..c |-> 0] }
<1>1. <<>> \in Seq(Nat) /\ <<>> \in Seq(Int) /\ DOMAIN <<>> = {}
  OBVIOUS
<1>2. Total(<<>>) = 0
  BY <1>1, TotalIsSum, SumEmpty
<1>3. ASSUME NEW f PROVE Load(f, <<>>, c) = [team \in 1..c |-> 0]
  <2>1. ASSUME NEW team PROVE Total(Share(f, <<>>, team)) = 0
    <3>1. Total(Share(f, <<>>, team)) = SumOf(Share(f, <<>>, team), {})
      BY <1>1, ShareSum
    <3> QED
      BY <3>1, SumEmpty
  <2> QED
    BY <2>1 DEF Load
<1>4. Fits(<<>>, <<>>, c, n)
  <2>1. <<>> \in [DOMAIN <<>> -> 1..c]
    BY <1>1
  <2>2. \A team \in 1..c : Load(<<>>, <<>>, c)[team] =< n
    BY <1>3
  <2> QED
    BY <2>1, <2>2 DEF Fits
<1>5. [team \in 1..c |-> 0] \in Loads(<<>>, c, n)
  BY <1>3, <1>4, InLoads
<1>6. ASSUME NEW load \in Loads(<<>>, c, n) PROVE load = [team \in 1..c |-> 0]
  BY <1>3, InLoads
<1> QED
  BY <1>5, <1>6

\* A team's load within n before and after.
LEMMA GrownWithin ==
    ASSUME NEW c \in Nat, NEW p \in [1..c -> Nat], NEW k \in 1..c, NEW x \in Nat, NEW n \in Nat
    PROVE  (\A j \in 1..c : Grown(p, k, x)[j] =< n)
                <=> p[k] + x =< n /\ \A j \in 1..c : p[j] =< n
<1>1. ASSUME NEW j \in 1..c
      PROVE  Grown(p, k, x)[j] = (IF k = j THEN p[j] + x ELSE p[j]) /\ p[j] \in Nat
  BY DEF Grown
<1>2. ASSUME \A j \in 1..c : Grown(p, k, x)[j] =< n
      PROVE  p[k] + x =< n /\ \A j \in 1..c : p[j] =< n
  <2>1. Grown(p, k, x)[k] = p[k] + x /\ Grown(p, k, x)[k] =< n
    BY <1>1, <1>2
  <2>2. ASSUME NEW j \in 1..c PROVE p[j] =< n
    <3>1. Grown(p, k, x)[j] =< n
      BY <1>2
    <3> QED
      BY <1>1, <3>1
  <2> QED
    BY <2>1, <2>2
<1>3. ASSUME p[k] + x =< n, \A j \in 1..c : p[j] =< n
      PROVE  \A j \in 1..c : Grown(p, k, x)[j] =< n
  <2>1. ASSUME NEW j \in 1..c PROVE Grown(p, k, x)[j] =< n
    <3>1. CASE k = j
      BY <1>1, <1>3, <3>1
    <3>2. CASE k # j
      BY <1>1, <1>3, <3>2
    <3> QED
      BY <3>1, <3>2
  <2> QED
    BY <2>1
<1> QED
  BY <1>2, <1>3

LEMMA LongerLoads ==
    ASSUME NEW c \in Nat, NEW n \in Nat, NEW s, NEW t, NEW k1, NEW x, Longer(t, s, k1, x)
    PROVE  Loads(t, c, n) = Placed(Loads(s, c, n), x, c, n)
<1>0. x \in Nat /\ s \in Seq(Nat) /\ t \in Seq(Nat)
  BY DEF Longer
<1>d. DOMAIN t = (DOMAIN s) \cup {k1} /\ k1 \notin DOMAIN s
  BY DEF Longer
<1>1. ASSUME NEW g, Fits(g, t, c, n) PROVE Load(g, t, c) \in Placed(Loads(s, c, n), x, c, n)
  <2>1. g \in [(DOMAIN s) \cup {k1} -> 1..c] /\ \A team \in 1..c : Load(g, t, c)[team] =< n
    BY <1>1, <1>d DEF Fits
  <2>2. PICK f : f = [k \in DOMAIN s |-> g[k]]
    OBVIOUS
  <2>3. f \in [DOMAIN s -> 1..c] /\ g[k1] \in 1..c /\ \A k \in DOMAIN s : g[k] = f[k]
    BY <2>1, <2>2
  <2>4. Load(g, t, c) = Grown(Load(f, s, c), g[k1], x)
    BY <2>3, LongerLoad
  <2>5. Load(f, s, c) \in [1..c -> Nat] /\ Load(g, t, c) \in [1..c -> Nat]
    BY <1>0, LoadType
  <2>6. Load(f, s, c)[g[k1]] + x =< n /\ \A team \in 1..c : Load(f, s, c)[team] =< n
    BY <1>0, <2>1, <2>3, <2>4, <2>5, GrownWithin
  <2>7. Load(f, s, c) \in Loads(s, c, n)
    BY <2>3, <2>6, InLoads DEF Fits
  <2> QED
    BY <2>3, <2>4, <2>5, <2>6, <2>7 DEF Placed
<1>2. ASSUME NEW f, Fits(f, s, c, n), NEW team \in 1..c, Load(f, s, c)[team] + x =< n
      PROVE  Grown(Load(f, s, c), team, x) \in Loads(t, c, n)
  <2>1. PICK g : g = [k \in (DOMAIN s) \cup {k1} |-> IF k = k1 THEN team ELSE f[k]]
    OBVIOUS
  <2>2. f \in [DOMAIN s -> 1..c] /\ \A u \in 1..c : Load(f, s, c)[u] =< n
    BY <1>2 DEF Fits
  <2>3. g \in [(DOMAIN s) \cup {k1} -> 1..c] /\ g[k1] = team
        /\ \A k \in DOMAIN s : g[k] = f[k]
    BY <1>d, <2>1, <2>2
  <2>4. Load(g, t, c) = Grown(Load(f, s, c), g[k1], x)
    BY <2>3, LongerLoad
  <2>5. Load(f, s, c) \in [1..c -> Nat]
    BY <1>0, LoadType
  <2>6. \A u \in 1..c : Load(g, t, c)[u] =< n
    <3>1. PICK p : p = Load(f, s, c)
      OBVIOUS
    <3>2. p \in [1..c -> Nat] /\ x \in Nat /\ p[team] + x =< n /\ \A j \in 1..c : p[j] =< n
      BY <1>0, <1>2, <2>2, <2>5, <3>1
    <3>3. \A u \in 1..c : Grown(p, team, x)[u] =< n
      BY <3>2, GrownWithin
    <3> QED
      BY <2>3, <2>4, <3>1, <3>3
  <2>7. Fits(g, t, c, n)
    BY <1>d, <2>3, <2>6 DEF Fits
  <2> QED
    BY <2>3, <2>4, <2>7, InLoads
<1>3. ASSUME NEW load \in Loads(t, c, n) PROVE load \in Placed(Loads(s, c, n), x, c, n)
  BY <1>1, InLoads
<1>4. ASSUME NEW load \in Placed(Loads(s, c, n), x, c, n) PROVE load \in Loads(t, c, n)
  <2>1. PICK old \in Loads(s, c, n) :
            \E team \in 1..c : old[team] + x =< n /\ load = Grown(old, team, x)
    BY DEF Placed
  <2>2. PICK f : Fits(f, s, c, n) /\ old = Load(f, s, c)
    BY InLoads
  <2> QED
    BY <1>2, <2>1, <2>2
<1> QED
  BY <1>3, <1>4

LEMMA LoadsAppend ==
    ASSUME NEW c \in Nat, NEW n \in Nat, NEW s \in Seq(Nat), NEW x \in Nat
    PROVE  Loads(Append(s, x), c, n) = Placed(Loads(s, c, n), x, c, n)
BY AppendLonger, LongerLoads

-----------------------------------------------------------------------------
(* The profiles found ticket by ticket                                     *)

\* it folds the tickets s over the subsets of their places.
FoldsTickets(it, base, s, n, m) ==
    it = [T \in SUBSET (1..m) |->
            IF T = {} THEN base ELSE PlaceTicket(it[T \ {Max(T)}], s[Max(T)], n)]

LEMMA TicketFoldStep ==
    ASSUME NEW base, NEW s, NEW n, NEW m, NEW it, FoldsTickets(it, base, s, n, m),
           NEW j \in Nat, 1..(j + 1) \subseteq 1..m
    PROVE  it[1..(j + 1)] = PlaceTicket(it[1..j], s[j + 1], n)
<1> DEFINE T == 1..(j + 1)
<1>1. T \in SUBSET (1..m)
  OBVIOUS
<1>2. T # {} /\ Max(T) = j + 1 /\ T \ {j + 1} = 1..j
  BY MaxOfInterval
<1> HIDE DEF T
<1>3. it[T] = PlaceTicket(it[T \ {Max(T)}], s[Max(T)], n)
  BY <1>1, <1>2 DEF FoldsTickets
<1> QED
  BY <1>2, <1>3 DEF T

LEMMA TicketFoldFirst ==
    ASSUME NEW base, NEW s, NEW n, NEW m, NEW it, FoldsTickets(it, base, s, n, m)
    PROVE  it[{}] = base
<1>1. {} \in SUBSET (1..m)
  OBVIOUS
<1> QED
  BY <1>1 DEF FoldsTickets

LEMMA TicketFoldsAgree ==
    ASSUME NEW base, NEW s, NEW n, NEW m \in Nat, NEW it, FoldsTickets(it, base, s, n, m),
           NEW jt, FoldsTickets(jt, base, s, n, m)
    PROVE  it[1..m] = jt[1..m]
<1> DEFINE A == { j \in Nat : j =< m => it[1..j] = jt[1..j] }
<1>1. 0 \in A
  <2>1. 1..0 = {} /\ 0 \in Nat
    OBVIOUS
  <2>2. it[{}] = base /\ jt[{}] = base
    BY TicketFoldFirst
  <2> QED
    BY <2>1, <2>2
<1>2. ASSUME NEW j \in Nat, j \in A, j + 1 =< m PROVE it[1..(j + 1)] = jt[1..(j + 1)]
  <2>1. j =< m /\ 1..(j + 1) \subseteq 1..m
    BY <1>2
  <2>2. it[1..j] = jt[1..j]
    BY <1>2, <2>1
  <2>3. it[1..(j + 1)] = PlaceTicket(it[1..j], s[j + 1], n)
    BY <2>1, TicketFoldStep
  <2>4. jt[1..(j + 1)] = PlaceTicket(jt[1..j], s[j + 1], n)
    BY <2>1, TicketFoldStep
  <2> QED
    BY <2>2, <2>3, <2>4
<1>3. \A j \in Nat : j \in A => j + 1 \in A
  <2>1. ASSUME NEW j \in Nat, j \in A PROVE j + 1 \in A
    <3>1. j + 1 \in Nat
      OBVIOUS
    <3> QED
      BY <1>2, <2>1, <3>1
  <2> QED
    BY <2>1
<1>4. m \in A
  <2> HIDE DEF A
  <2> QED BY <1>1, <1>3, NatInd
<1>5. m =< m
  OBVIOUS
<1> QED
  BY <1>4, <1>5

Profiles(c) == SUBSET [1..c -> Nat]

PlaceStep(c, n) == [P \in Profiles(c) |-> [x \in Nat |-> PlaceTicket(P, x, n)]]

LEMMA PlaceType ==
    ASSUME NEW c \in Nat, NEW n, NEW P \in Profiles(c), NEW x \in Nat
    PROVE  PlaceTicket(P, x, n) \in Profiles(c)
<1>1. ASSUME NEW r \in PlaceTicket(P, x, n) PROVE r \in [1..c -> Nat]
  <2>1. PICK p \in P : \E k \in 1..c : p[k] + x =< n /\ r = SortProfile(Grown(p, k, x))
    BY InTicket DEF Profiles
  <2>2. PICK k \in 1..c : r = SortProfile(Grown(p, k, x))
    BY <2>1
  <2>3. Grown(p, k, x) \in [1..c -> Nat]
    BY GrownType DEF Profiles
  <2> QED
    BY <2>2, <2>3, SortAt
<1> QED
  BY <1>1 DEF Profiles

LEMMA PlaceWalkable ==
    ASSUME NEW c \in Nat, NEW n, NEW base \in Profiles(c), NEW s, NEW m \in Nat,
           \A k \in 1..m : s[k] \in Nat
    PROVE  Walkable(base, PlaceStep(c, n), s, m, Profiles(c), Nat)
<1>1. \A P \in Profiles(c) : \A x \in Nat : PlaceStep(c, n)[P][x] \in Profiles(c)
  BY PlaceType DEF PlaceStep
<1> QED
  BY <1>1 DEF Walkable, Steps

LEMMA WalkIsFold ==
    ASSUME NEW c \in Nat, NEW n, NEW base, NEW s, NEW m \in Nat, \A k \in 1..m : s[k] \in Nat,
           NEW g, WalkedIn(g, base, PlaceStep(c, n), s, m, Profiles(c))
    PROVE  FoldsTickets(g, base, s, n, m)
<1>0. /\ g \in [SUBSET (1..m) -> Profiles(c)]
      /\ Walked(g, base, PlaceStep(c, n), s, m)
  BY DEF WalkedIn
<1>1. ASSUME NEW T \in SUBSET (1..m), T # {}
      PROVE  g[T] = PlaceTicket(g[T \ {Max(T)}], s[Max(T)], n)
  <2>1. Max(T) \in T
    BY <1>1, MaxIsIn
  <2>2. s[Max(T)] \in Nat /\ T \ {Max(T)} \in SUBSET (1..m)
    BY <2>1
  <2>3. g[T \ {Max(T)}] \in Profiles(c)
    BY <1>0, <2>2
  <2>4. g[T] = PlaceStep(c, n)[g[T \ {Max(T)}]][s[Max(T)]]
    BY <1>0, <1>1 DEF Walked
  <2> QED
    BY <2>2, <2>3, <2>4 DEF PlaceStep
<1>2. {} \in SUBSET (1..m) /\ g[{}] = base
  BY <1>0, WalkFirst
<1>3. g = [T \in SUBSET (1..m) |-> g[T]]
  BY <1>0
<1>4. \A T \in SUBSET (1..m) :
        g[T] = IF T = {} THEN base ELSE PlaceTicket(g[T \ {Max(T)}], s[Max(T)], n)
  BY <1>1, <1>2
<1> QED
  BY <1>3, <1>4 DEF FoldsTickets

FoldTickets(base, s, n) ==
    FoldLeft(LAMBDA profiles, size : PlaceTicket(profiles, size, n), base, s)

LEMMA FoldIsWalk ==
    ASSUME NEW c \in Nat, NEW n, NEW base \in Profiles(c), NEW s \in Seq(Nat)
    PROVE  FoldTickets(base, s, n) = Walk(base, PlaceStep(c, n), s, Len(s))
<1> DEFINE It(it) == it = [T \in SUBSET (DOMAIN s) |->
                IF T = {} THEN base ELSE PlaceTicket(it[T \ {Max(T)}], s[Max(T)], n)]
<1>1. FoldTickets(base, s, n) = (CHOOSE it : It(it))[DOMAIN s]
  BY DEF FoldTickets, FoldLeft, MapThenFoldSet
<1>2. PICK m \in Nat : m = Len(s)
  OBVIOUS
<1>3. DOMAIN s = 1..m /\ \A k \in 1..m : s[k] \in Nat
  BY <1>2
<1>4. ASSUME NEW it PROVE It(it) <=> FoldsTickets(it, base, s, n, m)
  BY <1>3 DEF FoldsTickets
<1>5. (CHOOSE it : It(it)) = CHOOSE it : FoldsTickets(it, base, s, n, m)
  <2> HIDE DEF It
  <2> QED BY <1>4
<1> HIDE DEF It
<1>6. Walkable(base, PlaceStep(c, n), s, m, Profiles(c), Nat)
  BY <1>3, PlaceWalkable
<1>7. PICK g : WalkedIn(g, base, PlaceStep(c, n), s, m, Profiles(c))
  BY <1>6, WalkExists
<1>8. FoldsTickets(g, base, s, n, m)
  BY <1>3, <1>7, WalkIsFold
<1>9. PICK it : it = CHOOSE it0 : FoldsTickets(it0, base, s, n, m)
  OBVIOUS
<1>10. FoldsTickets(it, base, s, n, m)
  BY <1>8, <1>9
<1>11. it[1..m] = g[1..m]
  BY <1>8, <1>10, TicketFoldsAgree
<1>12. PICK jt : jt = CHOOSE it0 : Walked(it0, base, PlaceStep(c, n), s, m)
  OBVIOUS
<1>13. Walked(jt, base, PlaceStep(c, n), s, m)
  BY <1>7, <1>12 DEF WalkedIn
<1>14. jt[1..m] = g[1..m]
  <2>1. m =< m
    OBVIOUS
  <2> QED
    BY <1>7, <1>13, <2>1, WalksAgree DEF WalkedIn
<1>15. Walk(base, PlaceStep(c, n), s, m) = jt[1..m]
  BY <1>12 DEF Walk
<1> QED
  BY <1>1, <1>2, <1>3, <1>5, <1>9, <1>11, <1>14, <1>15

LEMMA TicketPlaced ==
    ASSUME NEW c \in Nat, NEW x \in Nat, NEW n, NEW L, L \in Profiles(c)
    PROVE  PlaceTicket(Sorted(L), x, n) = Sorted(Placed(L, x, c, n))
BY PlaceSorted DEF Profiles

\* Ticket by ticket, with duplicates merged, the fold finds the sorted loads of
\* every assignment.
LEMMA FoldProfiles ==
    ASSUME NEW c \in Nat, NEW n \in Nat, NEW s \in Seq(Nat)
    PROVE  FoldTickets({ SortProfile([team \in 1..c |-> 0]) }, s, n) = Sorted(Loads(s, c, n))
<1> DEFINE base == { SortProfile([team \in 1..c |-> 0]) }
           W(t) == Walk(base, PlaceStep(c, n), t, Len(t))
           A == { t \in Seq(Nat) : W(t) = Sorted(Loads(t, c, n)) }
<1>1. base \in Profiles(c)
  <2>1. [team \in 1..c |-> 0] \in [1..c -> Nat]
    OBVIOUS
  <2> QED
    BY <2>1, SortAt DEF Profiles
<1>2. base = Sorted(Loads(<<>>, c, n))
  BY LoadsEmpty DEF Sorted
<1> HIDE DEF base
<1>3. <<>> \in A
  <2>1. <<>> \in Seq(Nat) /\ Len(<<>>) = 0
    OBVIOUS
  <2>2. Walk(base, PlaceStep(c, n), <<>>, 0) = base
    BY WalkEmpty
  <2> QED
    BY <1>2, <2>1, <2>2
<1>4. ASSUME NEW t \in Seq(Nat), t \in A, NEW x \in Nat PROVE Append(t, x) \in A
  <2>1. PICK m \in Nat : m = Len(t)
    OBVIOUS
  <2>2. PICK u : u = Append(t, x)
    OBVIOUS
  <2>3. /\ u \in Seq(Nat) /\ Len(u) = m + 1 /\ u[m + 1] = x
        /\ \A k \in 1..m : u[k] = t[k]
        /\ \A k \in 1..(m + 1) : u[k] \in Nat
    BY <2>1, <2>2, AppendFacts
  <2>4. Walkable(base, PlaceStep(c, n), u, m + 1, Profiles(c), Nat)
    <3>1. PICK q \in Nat : q = m + 1
      OBVIOUS
    <3>2. \A k \in 1..q : u[k] \in Nat
      BY <2>3, <3>1
    <3>3. Walkable(base, PlaceStep(c, n), u, q, Profiles(c), Nat)
      BY <1>1, <3>2, PlaceWalkable
    <3> QED
      BY <3>1, <3>3
  <2>5. Walk(base, PlaceStep(c, n), u, m + 1)
            = PlaceStep(c, n)[Walk(base, PlaceStep(c, n), t, m)][u[m + 1]]
    <3>1. PICK step : step = PlaceStep(c, n)
      OBVIOUS
    <3>2. PICK G : G = Profiles(c)
      OBVIOUS
    <3>3. Walkable(base, step, u, m + 1, G, Nat) /\ \A k \in 1..m : u[k] = t[k]
      BY <2>3, <2>4, <3>1, <3>2
    <3>4. Walk(base, step, u, m + 1) = step[Walk(base, step, t, m)][u[m + 1]]
      BY <3>3, WalkNext
    <3> QED
      BY <3>1, <3>4
  <2>6. Walk(base, PlaceStep(c, n), t, m) = Sorted(Loads(t, c, n))
    BY <1>4, <2>1
  <2>7. Loads(t, c, n) \in SUBSET [1..c -> Nat]
    BY LoadsType
  <2>8. Sorted(Loads(t, c, n)) \in Profiles(c)
    BY <2>7, SortAt DEF Sorted, Profiles
  <2>9. Walk(base, PlaceStep(c, n), u, m + 1) = PlaceTicket(Sorted(Loads(t, c, n)), x, n)
    BY <2>3, <2>5, <2>6, <2>8 DEF PlaceStep
  <2>10. PlaceTicket(Sorted(Loads(t, c, n)), x, n) = Sorted(Placed(Loads(t, c, n), x, c, n))
    <3>1. Loads(t, c, n) \in Profiles(c)
      BY <2>7 DEF Profiles
    <3> QED
      BY <3>1, TicketPlaced
  <2>11. Loads(u, c, n) = Placed(Loads(t, c, n), x, c, n)
    BY <2>2, LoadsAppend
  <2> QED
    BY <2>2, <2>3, <2>9, <2>10, <2>11
<1>5. s \in A
  <2> HIDE DEF A
  <2> QED BY <1>3, <1>4, SeqInd
<1>6. FoldTickets(base, s, n) = W(s)
  BY <1>1, FoldIsWalk
<1> QED
  BY <1>5, <1>6 DEF base

\* computeFeasibleProfiles finds the sorted loads of all assignments.
LEMMA FeasibleProfiles ==
    ASSUME NEW c \in Nat \ {0}, NEW n \in Nat \ {0}, NEW s \in Seq(Nat)
    PROVE  ComputeFeasibleProfiles(s, c, n)
            = IF \E k \in DOMAIN s : s[k] \notin 1..n THEN {} ELSE Sorted(Loads(s, c, n))
<1>1. ~ (c < 1) /\ ~ (n < 1)
  OBVIOUS
<1>2. ComputeFeasibleProfiles(s, c, n)
        = IF \E k \in DOMAIN s : s[k] \notin 1..n THEN {}
          ELSE FoldTickets({ SortProfile([team \in 1..c |-> 0]) }, s, n)
  BY <1>1 DEF ComputeFeasibleProfiles, FoldTickets
<1> QED
  BY <1>2, FoldProfiles

-----------------------------------------------------------------------------
(* Tickets of which nobody is left                                         *)

KeepPresent(q, x) == IF x > 0 THEN Append(q, x) ELSE q

\* it keeps the tickets s of which anybody is left.
FoldsPresent(it, s, m) ==
    it = [T \in SUBSET (1..m) |->
            IF T = {} THEN <<>> ELSE KeepPresent(it[T \ {Max(T)}], s[Max(T)])]

LEMMA PresentFoldStep ==
    ASSUME NEW s, NEW m, NEW it, FoldsPresent(it, s, m),
           NEW j \in Nat, 1..(j + 1) \subseteq 1..m
    PROVE  it[1..(j + 1)] = KeepPresent(it[1..j], s[j + 1])
<1> DEFINE T == 1..(j + 1)
<1>1. T \in SUBSET (1..m)
  OBVIOUS
<1>2. T # {} /\ Max(T) = j + 1 /\ T \ {j + 1} = 1..j
  BY MaxOfInterval
<1> HIDE DEF T
<1>3. it[T] = KeepPresent(it[T \ {Max(T)}], s[Max(T)])
  BY <1>1, <1>2 DEF FoldsPresent
<1> QED
  BY <1>2, <1>3 DEF T

LEMMA PresentFoldFirst ==
    ASSUME NEW s, NEW m, NEW it, FoldsPresent(it, s, m)
    PROVE  it[{}] = <<>>
<1>1. {} \in SUBSET (1..m)
  OBVIOUS
<1> QED
  BY <1>1 DEF FoldsPresent

LEMMA PresentFoldsAgree ==
    ASSUME NEW s, NEW m \in Nat, NEW it, FoldsPresent(it, s, m), NEW jt, FoldsPresent(jt, s, m)
    PROVE  it[1..m] = jt[1..m]
<1> DEFINE A == { j \in Nat : j =< m => it[1..j] = jt[1..j] }
<1>1. 0 \in A
  <2>1. 1..0 = {} /\ 0 \in Nat
    OBVIOUS
  <2>2. it[{}] = <<>> /\ jt[{}] = <<>>
    BY PresentFoldFirst
  <2> QED
    BY <2>1, <2>2
<1>2. ASSUME NEW j \in Nat, j \in A, j + 1 =< m PROVE it[1..(j + 1)] = jt[1..(j + 1)]
  <2>1. j =< m /\ 1..(j + 1) \subseteq 1..m
    BY <1>2
  <2>2. it[1..j] = jt[1..j]
    BY <1>2, <2>1
  <2>3. it[1..(j + 1)] = KeepPresent(it[1..j], s[j + 1])
    BY <2>1, PresentFoldStep
  <2>4. jt[1..(j + 1)] = KeepPresent(jt[1..j], s[j + 1])
    BY <2>1, PresentFoldStep
  <2> QED
    BY <2>2, <2>3, <2>4
<1>3. \A j \in Nat : j \in A => j + 1 \in A
  <2>1. ASSUME NEW j \in Nat, j \in A PROVE j + 1 \in A
    <3>1. j + 1 \in Nat
      OBVIOUS
    <3> QED
      BY <1>2, <2>1, <3>1
  <2> QED
    BY <2>1
<1>4. m \in A
  <2> HIDE DEF A
  <2> QED BY <1>1, <1>3, NatInd
<1>5. m =< m
  OBVIOUS
<1> QED
  BY <1>4, <1>5

KeepStep == [q \in Seq(Nat) |-> [x \in Nat |-> KeepPresent(q, x)]]

LEMMA KeepType ==
    ASSUME NEW q \in Seq(Nat), NEW x \in Nat
    PROVE  KeepPresent(q, x) \in Seq(Nat)
BY DEF KeepPresent

LEMMA KeepWalkable ==
    ASSUME NEW s, NEW m \in Nat, \A k \in 1..m : s[k] \in Nat
    PROVE  Walkable(<<>>, KeepStep, s, m, Seq(Nat), Nat)
<1>1. \A q \in Seq(Nat) : \A x \in Nat : KeepStep[q][x] \in Seq(Nat)
  BY KeepType DEF KeepStep
<1>2. <<>> \in Seq(Nat)
  OBVIOUS
<1> QED
  BY <1>1, <1>2 DEF Walkable, Steps

LEMMA WalkIsPresent ==
    ASSUME NEW s, NEW m \in Nat, \A k \in 1..m : s[k] \in Nat,
           NEW G, G = Seq(Nat), NEW g, WalkedIn(g, <<>>, KeepStep, s, m, G)
    PROVE  FoldsPresent(g, s, m)
<1>0. /\ g \in [SUBSET (1..m) -> G]
      /\ Walked(g, <<>>, KeepStep, s, m)
  BY DEF WalkedIn
<1>1. ASSUME NEW T \in SUBSET (1..m), T # {}
      PROVE  g[T] = KeepPresent(g[T \ {Max(T)}], s[Max(T)])
  <2>1. Max(T) \in T
    BY <1>1, MaxIsIn
  <2>2. s[Max(T)] \in Nat /\ T \ {Max(T)} \in SUBSET (1..m)
    BY <2>1
  <2>3. g[T \ {Max(T)}] \in G
    BY <1>0, <2>2
  <2>4. g[T] = KeepStep[g[T \ {Max(T)}]][s[Max(T)]]
    BY <1>0, <1>1 DEF Walked
  <2>5. \A q \in G : \A x \in Nat : KeepStep[q][x] = KeepPresent(q, x)
    BY DEF KeepStep
  <2> QED
    BY <2>2, <2>3, <2>4, <2>5
<1>2. {} \in SUBSET (1..m) /\ g[{}] = <<>>
  BY <1>0, WalkFirst
<1>3. g = [T \in SUBSET (1..m) |-> g[T]]
  BY <1>0
<1>4. \A T \in SUBSET (1..m) :
        g[T] = IF T = {} THEN <<>> ELSE KeepPresent(g[T \ {Max(T)}], s[Max(T)])
  BY <1>1, <1>2
<1> QED
  BY <1>3, <1>4 DEF FoldsPresent

LEMMA PresentIsWalk ==
    ASSUME NEW s \in Seq(Nat)
    PROVE  Present(s) = Walk(<<>>, KeepStep, s, Len(s))
<1> DEFINE It(it) == it = [T \in SUBSET (DOMAIN s) |->
                IF T = {} THEN <<>> ELSE
                    IF s[Max(T)] > 0 THEN Append(it[T \ {Max(T)}], s[Max(T)])
                                     ELSE it[T \ {Max(T)}]]
<1>1. Present(s) = (CHOOSE it : It(it))[DOMAIN s]
  BY DEF Present, FoldLeft, MapThenFoldSet
<1>2. PICK m \in Nat : m = Len(s)
  OBVIOUS
<1>3. DOMAIN s = 1..m /\ \A k \in 1..m : s[k] \in Nat
  BY <1>2
<1>4. ASSUME NEW it PROVE It(it) <=> FoldsPresent(it, s, m)
  BY <1>3 DEF FoldsPresent, KeepPresent
<1>5. (CHOOSE it : It(it)) = CHOOSE it : FoldsPresent(it, s, m)
  <2> HIDE DEF It
  <2> QED BY <1>4
<1> HIDE DEF It
<1>a. PICK G : G = Seq(Nat)
  OBVIOUS
<1>6. Walkable(<<>>, KeepStep, s, m, G, Nat)
  BY <1>3, <1>a, KeepWalkable
<1>7. PICK g : WalkedIn(g, <<>>, KeepStep, s, m, G)
  BY <1>6, WalkExists
<1>8. FoldsPresent(g, s, m)
  BY <1>3, <1>7, <1>a, WalkIsPresent
<1>9. PICK it : it = CHOOSE it0 : FoldsPresent(it0, s, m)
  OBVIOUS
<1>10. FoldsPresent(it, s, m)
  BY <1>8, <1>9
<1>11. it[1..m] = g[1..m]
  BY <1>8, <1>10, PresentFoldsAgree
<1>12. PICK jt : jt = CHOOSE it0 : Walked(it0, <<>>, KeepStep, s, m)
  OBVIOUS
<1>13. Walked(jt, <<>>, KeepStep, s, m)
  BY <1>7, <1>12 DEF WalkedIn
<1>14. jt[1..m] = g[1..m]
  <2>1. m =< m
    OBVIOUS
  <2> QED
    BY <1>7, <1>13, <2>1, WalksAgree DEF WalkedIn
<1>15. Walk(<<>>, KeepStep, s, m) = jt[1..m]
  BY <1>12 DEF Walk
<1> QED
  BY <1>1, <1>2, <1>3, <1>5, <1>9, <1>11, <1>14, <1>15

LEMMA PresentType ==
    ASSUME NEW s \in Seq(Nat)
    PROVE  Present(s) \in Seq(Nat)
<1>1. PICK m \in Nat : m = Len(s)
  OBVIOUS
<1>2. \A k \in 1..m : s[k] \in Nat
  BY <1>1
<1>3. PICK G : G = Seq(Nat)
  OBVIOUS
<1>4. Walkable(<<>>, KeepStep, s, m, G, Nat)
  BY <1>2, <1>3, KeepWalkable
<1>5. Walk(<<>>, KeepStep, s, m) \in G
  BY <1>4, WalkStays
<1> QED
  BY <1>1, <1>3, <1>5, PresentIsWalk

LEMMA PresentEmpty == Present(<<>>) = <<>>
<1>1. <<>> \in Seq(Nat) /\ Len(<<>>) = 0
  OBVIOUS
<1>2. Walk(<<>>, KeepStep, <<>>, 0) = <<>>
  BY WalkEmpty
<1> QED
  BY <1>1, <1>2, PresentIsWalk

LEMMA PresentAppend ==
    ASSUME NEW s \in Seq(Nat), NEW x \in Nat
    PROVE  Present(Append(s, x)) = KeepPresent(Present(s), x)
<1>1. PICK m \in Nat : m = Len(s)
  OBVIOUS
<1>2. PICK u : u = Append(s, x)
  OBVIOUS
<1>3. /\ u \in Seq(Nat) /\ Len(u) = m + 1 /\ u[m + 1] = x
      /\ \A k \in 1..m : u[k] = s[k]
      /\ \A k \in 1..(m + 1) : u[k] \in Nat
  BY <1>1, <1>2, AppendFacts
<1>4. PICK G : G = Seq(Nat)
  OBVIOUS
<1>5. PICK p \in Nat : p = m + 1
  OBVIOUS
<1>6. Walkable(<<>>, KeepStep, u, p, G, Nat)
  <2>1. \A k \in 1..p : u[k] \in Nat
    BY <1>3, <1>5
  <2> QED
    BY <1>4, <2>1, KeepWalkable
<1>7. \A k \in 1..m : u[k] = s[k]
  BY <1>3
<1>8. PICK step : step = KeepStep
  OBVIOUS
<1>9. Walk(<<>>, step, u, m + 1) = step[Walk(<<>>, step, s, m)][u[m + 1]]
  <2>1. Walkable(<<>>, step, u, m + 1, G, Nat)
    BY <1>5, <1>6, <1>8
  <2> QED
    BY <1>7, <2>1, WalkNext
<1>10. Walk(<<>>, step, s, m) = Present(s) /\ Present(s) \in Seq(Nat)
  BY <1>1, <1>8, PresentIsWalk, PresentType
<1>11. Walk(<<>>, step, u, m + 1) = Present(u)
  BY <1>3, <1>8, PresentIsWalk
<1>12. \A q \in Seq(Nat) : KeepStep[q][x] = KeepPresent(q, x)
  BY DEF KeepStep
<1>13. step[Present(s)][x] = KeepPresent(Present(s), x)
  BY <1>8, <1>10, <1>12
<1>14. u[m + 1] = x
  BY <1>3
<1> QED
  BY <1>2, <1>9, <1>10, <1>11, <1>13, <1>14

-----------------------------------------------------------------------------
(* What a profile seats                                                    *)

LEMMA SeqNatInt ==
    ASSUME NEW s \in Seq(Nat)
    PROVE  s \in Seq(Int)
<1>1. s = [k \in 1..Len(s) |-> s[k]] /\ Len(s) \in Nat /\ \A k \in 1..Len(s) : s[k] \in Int
  OBVIOUS
<1> QED
  BY <1>1

LEMMA TotalEmpty == Total(<<>>) = 0
<1>1. <<>> \in Seq(Int) /\ DOMAIN <<>> = {}
  OBVIOUS
<1> QED
  BY <1>1, TotalIsSum, SumEmpty

LEMMA TotalNat ==
    ASSUME NEW s \in Seq(Nat)
    PROVE  Total(s) \in Nat
<1>1. Total(s) = SumOf(s, DOMAIN s)
  BY SeqNatInt, TotalIsSum
<1>2. IsFiniteSet(DOMAIN s) /\ \A k \in DOMAIN s : s[k] \in Nat
  BY Domain
<1>3. SumOf(s, DOMAIN s) \in Nat
  BY <1>2, SumNat
<1> QED
  BY <1>1, <1>3

LEMMA TotalAppend ==
    ASSUME NEW s \in Seq(Nat), NEW x \in Nat
    PROVE  Total(Append(s, x)) = Total(s) + x
<1>1. PICK t : t = Append(s, x)
  OBVIOUS
<1>2. PICK S : S = DOMAIN s
  OBVIOUS
<1>3. PICK k1 : k1 = Len(s) + 1
  OBVIOUS
<1>4. Longer(t, s, k1, x)
  BY <1>1, <1>3, AppendLonger
<1>5. /\ t \in Seq(Nat) /\ DOMAIN t = S \cup {k1} /\ k1 \notin S /\ t[k1] = x
      /\ \A k \in S : s[k] = t[k]
  BY <1>2, <1>4 DEF Longer
<1>6. Total(t) = SumOf(t, S \cup {k1})
  BY <1>5, SeqNatInt, TotalIsSum
<1>7. Total(s) = SumOf(s, S)
  BY <1>2, SeqNatInt, TotalIsSum
<1>8. IsFiniteSet(S) /\ \A k \in S : s[k] \in Nat
  BY <1>2, Domain
<1>9. \A k \in S \cup {k1} : t[k] \in Nat
  BY <1>5, Domain
<1>10. Weights(s, S) /\ Weights(t, S \cup {k1})
  BY <1>8, <1>9 DEF Weights
<1>n. k1 \notin S
  BY <1>5
<1>11. SumOf(t, S \cup {k1}) = SumOf(t, S) + t[k1]
  BY <1>n, <1>8, <1>10, SumAdd
<1>12. SumOf(s, S) = SumOf(t, S)
  BY <1>5, <1>8, <1>10, SumSame
<1> QED
  BY <1>1, <1>5, <1>6, <1>7, <1>11, <1>12

\* Leaving out the empty tickets changes neither the players nor their teams.
LEMMA PresentPositive ==
    ASSUME NEW s \in Seq(Nat)
    PROVE  /\ Present(s) \in Seq(Nat)
           /\ \A k \in DOMAIN Present(s) : Present(s)[k] > 0
<1> DEFINE A == { t \in Seq(Nat) : \A k \in DOMAIN Present(t) : Present(t)[k] > 0 }
<1>1. <<>> \in A
  <2>1. <<>> \in Seq(Nat) /\ DOMAIN <<>> = {}
    OBVIOUS
  <2> QED
    BY <2>1, PresentEmpty
<1>2. ASSUME NEW t \in Seq(Nat), t \in A, NEW x \in Nat PROVE Append(t, x) \in A
  <2>1. PICK q : q = Present(t)
    OBVIOUS
  <2>2. q \in Seq(Nat) /\ Present(Append(t, x)) = KeepPresent(q, x)
    BY <2>1, PresentType, PresentAppend
  <2>3. \A k \in DOMAIN q : q[k] > 0
    BY <1>2, <2>1
  <2>4. ASSUME NEW k \in DOMAIN KeepPresent(q, x) PROVE KeepPresent(q, x)[k] > 0
    <3>1. CASE x > 0
      <4>1. KeepPresent(q, x) = Append(q, x)
        BY <3>1 DEF KeepPresent
      <4>2. /\ DOMAIN q = 1..Len(q) /\ DOMAIN Append(q, x) = 1..(Len(q) + 1) /\ Len(q) \in Nat
            /\ \A j \in 1..Len(q) : Append(q, x)[j] = q[j]
            /\ Append(q, x)[Len(q) + 1] = x
        BY <2>2, AppendFacts
      <4>3. CASE k = Len(q) + 1
        BY <3>1, <4>1, <4>2, <4>3
      <4>4. CASE k # Len(q) + 1
        <5>1. k \in 1..Len(q)
          BY <4>1, <4>2, <4>4
        <5> QED
          BY <2>3, <4>1, <4>2, <5>1
      <4> QED
        BY <4>3, <4>4
    <3>2. CASE ~ (x > 0)
      BY <2>3, <3>2 DEF KeepPresent
    <3> QED
      BY <3>1, <3>2
  <2>5. Append(t, x) \in Seq(Nat)
    BY AppendFacts
  <2> QED
    BY <2>2, <2>4, <2>5
<1>3. s \in A
  <2> HIDE DEF A
  <2> QED BY <1>1, <1>2, SeqInd
<1> QED
  BY <1>3, PresentType

LEMMA PresentTotal ==
    ASSUME NEW s \in Seq(Nat)
    PROVE  Total(Present(s)) = Total(s)
<1> DEFINE A == { t \in Seq(Nat) : Total(Present(t)) = Total(t) }
<1>1. <<>> \in A
  <2>1. <<>> \in Seq(Nat)
    OBVIOUS
  <2> QED
    BY <2>1, PresentEmpty
<1>2. ASSUME NEW t \in Seq(Nat), t \in A, NEW x \in Nat PROVE Append(t, x) \in A
  <2>1. PICK q : q = Present(t)
    OBVIOUS
  <2>2. q \in Seq(Nat) /\ Present(Append(t, x)) = KeepPresent(q, x)
    BY <2>1, PresentType, PresentAppend
  <2>3. Total(q) = Total(t) /\ Total(t) \in Nat /\ Total(Append(t, x)) = Total(t) + x
    BY <1>2, <2>1, TotalNat, TotalAppend
  <2>4. Total(KeepPresent(q, x)) = Total(t) + x
    <3>1. CASE x > 0
      BY <2>2, <2>3, <3>1, TotalAppend DEF KeepPresent
    <3>2. CASE ~ (x > 0)
      BY <2>3, <3>2 DEF KeepPresent
    <3> QED
      BY <3>1, <3>2
  <2>5. Append(t, x) \in Seq(Nat)
    BY AppendFacts
  <2> QED
    BY <2>2, <2>3, <2>4, <2>5
<1>3. s \in A
  <2> HIDE DEF A
  <2> QED BY <1>1, <1>2, SeqInd
<1> QED
  BY <1>3

\* Loads within the team size, and a ticket of nobody.
LEMMA LoadsWithin ==
    ASSUME NEW s \in Seq(Nat), NEW c \in Nat, NEW n \in Nat
    PROVE  \A load \in Loads(s, c, n) :
                load \in [1..c -> Nat] /\ \A team \in 1..c : load[team] =< n
BY LoadsType, InLoads DEF Fits

LEMMA PlacedNothing ==
    ASSUME NEW c \in Nat \ {0}, NEW n \in Nat, NEW L,
           \A load \in L : load \in [1..c -> Nat] /\ \A team \in 1..c : load[team] =< n
    PROVE  Placed(L, 0, c, n) = L
<1>1. ASSUME NEW old \in [1..c -> Nat], NEW team \in 1..c PROVE Grown(old, team, 0) = old
  <2>1. old[team] + 0 = old[team]
    OBVIOUS
  <2> QED
    BY <2>1 DEF Grown
<1>2. ASSUME NEW load \in Placed(L, 0, c, n) PROVE load \in L
  BY <1>1, <1>2 DEF Placed
<1>3. ASSUME NEW load \in L PROVE load \in Placed(L, 0, c, n)
  <2>1. 1 \in 1..c /\ load \in [1..c -> Nat] /\ load[1] + 0 =< n /\ load = Grown(load, 1, 0)
    BY <1>1
  <2> QED
    BY <2>1 DEF Placed
<1> QED
  BY <1>2, <1>3

LEMMA PresentLoads ==
    ASSUME NEW c \in Nat \ {0}, NEW n \in Nat, NEW s \in Seq(Nat)
    PROVE  Loads(Present(s), c, n) = Loads(s, c, n)
<1> DEFINE A == { t \in Seq(Nat) : Loads(Present(t), c, n) = Loads(t, c, n) }
<1>1. <<>> \in A
  <2>1. <<>> \in Seq(Nat)
    OBVIOUS
  <2> QED
    BY <2>1, PresentEmpty
<1>2. ASSUME NEW t \in Seq(Nat), t \in A, NEW x \in Nat PROVE Append(t, x) \in A
  <2>1. PICK q : q = Present(t)
    OBVIOUS
  <2>2. q \in Seq(Nat) /\ Present(Append(t, x)) = KeepPresent(q, x)
    BY <2>1, PresentType, PresentAppend
  <2>3. Loads(q, c, n) = Loads(t, c, n)
    BY <1>2, <2>1
  <2>4. /\ Loads(Append(t, x), c, n) = Placed(Loads(t, c, n), x, c, n)
        /\ Loads(Append(q, x), c, n) = Placed(Loads(q, c, n), x, c, n)
    BY <2>2, LoadsAppend
  <2>5. Loads(KeepPresent(q, x), c, n) = Placed(Loads(t, c, n), x, c, n)
    <3>1. CASE x > 0
      BY <2>3, <2>4, <3>1 DEF KeepPresent
    <3>2. CASE ~ (x > 0)
      <4>1. x = 0 /\ KeepPresent(q, x) = q
        BY <3>2 DEF KeepPresent
      <4>2. PICK L : L = Loads(t, c, n)
        OBVIOUS
      <4>3. \A load \in L : load \in [1..c -> Nat] /\ \A team \in 1..c : load[team] =< n
        BY <4>2, LoadsWithin
      <4>4. Placed(L, 0, c, n) = L
        BY <4>3, PlacedNothing
      <4> QED
        BY <2>3, <4>1, <4>2, <4>4
    <3> QED
      BY <3>1, <3>2
  <2>6. Append(t, x) \in Seq(Nat)
    BY AppendFacts
  <2> QED
    BY <2>2, <2>4, <2>5, <2>6
<1>3. s \in A
  <2> HIDE DEF A
  <2> QED BY <1>1, <1>2, SeqInd
<1> QED
  BY <1>3

LEMMA SumZero ==
    ASSUME NEW S, IsFiniteSet(S), NEW w, \A x \in S : w[x] = 0
    PROVE  SumOf(w, S) = 0
<1>1. Weights(w, S)
  BY DEF Weights
<1>2. Additive([T \in SUBSET S |-> 0], w, S)
  BY DEF Additive
<1>3. S \in SUBSET S
  OBVIOUS
<1> QED
  BY <1>1, <1>2, <1>3, SumAdditive

\* Every ticket is in one team.
LEMMA LoadsTotal ==
    ASSUME NEW c \in Nat, NEW n \in Nat, NEW s \in Seq(Nat)
    PROVE  \A load \in Loads(s, c, n) : SumOf(load, 1..c) = Total(s)
<1> DEFINE A == { t \in Seq(Nat) : \A load \in Loads(t, c, n) : SumOf(load, 1..c) = Total(t) }
<1>f. IsFiniteSet(1..c)
  BY FS_Interval
<1>1. <<>> \in A
  <2>1. <<>> \in Seq(Nat)
    OBVIOUS
  <2>2. SumOf([team \in 1..c |-> 0], 1..c) = 0
    <3>1. PICK w : w = [team \in 1..c |-> 0]
      OBVIOUS
    <3>2. \A k \in 1..c : w[k] = 0
      BY <3>1
    <3> QED
      BY <1>f, <3>1, <3>2, SumZero
  <2> QED
    BY <2>1, <2>2, LoadsEmpty, TotalEmpty
<1>2. ASSUME NEW t \in Seq(Nat), t \in A, NEW x \in Nat PROVE Append(t, x) \in A
  <2>1. Loads(Append(t, x), c, n) = Placed(Loads(t, c, n), x, c, n)
    BY LoadsAppend
  <2>2. Total(Append(t, x)) = Total(t) + x
    BY TotalAppend
  <2>3. ASSUME NEW load \in Placed(Loads(t, c, n), x, c, n) PROVE SumOf(load, 1..c) = Total(t) + x
    <3>1. PICK old \in Loads(t, c, n), k \in 1..c : load = Grown(old, k, x)
      BY DEF Placed
    <3>2. old \in [1..c -> Nat] /\ SumOf(old, 1..c) = Total(t)
      BY <1>2, LoadsType
    <3>3. load[k] = old[k] + x /\ \A j \in (1..c) \ {k} : load[j] = old[j]
      BY <3>1, <3>2 DEF Grown
    <3>4. Weights(old, 1..c) /\ x \in Int
      BY <3>2 DEF Weights
    <3>5. PICK S : S = 1..c
      OBVIOUS
    <3>6. /\ IsFiniteSet(S) /\ k \in S /\ Weights(old, S) /\ load[k] = old[k] + x
          /\ \A j \in S \ {k} : load[j] = old[j]
      BY <1>f, <3>3, <3>4, <3>5
    <3>7. SumOf(load, S) = SumOf(old, S) + x
      BY <3>4, <3>6, SumGrow
    <3> QED
      BY <3>2, <3>5, <3>7
  <2>4. Append(t, x) \in Seq(Nat)
    BY AppendFacts
  <2> QED
    BY <2>1, <2>2, <2>3, <2>4
<1>3. s \in A
  <2> HIDE DEF A
  <2> QED BY <1>1, <1>2, SeqInd
<1> QED
  BY <1>3

\* A ticket no team can hold leaves no assignment.
LEMMA LoadsBound ==
    ASSUME NEW c \in Nat, NEW n \in Nat, NEW s \in Seq(Nat), Loads(s, c, n) # {}
    PROVE  \A k \in DOMAIN s : s[k] =< n
<1>1. PICK f : Fits(f, s, c, n)
  BY InLoads
<1>2. ASSUME NEW k \in DOMAIN s PROVE s[k] =< n
  <2>1. PICK team \in 1..c : team = f[k]
    BY <1>1 DEF Fits
  <2>2. PICK w : w = Share(f, s, team)
    OBVIOUS
  <2>3. PICK S : S = DOMAIN s
    OBVIOUS
  <2>4. w[k] = s[k] /\ Total(w) = Load(f, s, c)[team] /\ Load(f, s, c)[team] =< n
    BY <1>1, <2>1, <2>2 DEF Share, Load, Fits
  <2>5. \A j \in S : w[j] \in Nat
    BY <2>2, <2>3, ShareSum
  <2>6. Total(w) = SumOf(w, S)
    BY <2>2, <2>3, ShareSum
  <2>7. IsFiniteSet(S) /\ k \in S /\ {k} \in SUBSET S
    BY <2>3, Domain
  <2>8. SumOf(w, {k}) =< SumOf(w, S)
    BY <2>5, <2>7, SumPart
  <2>9. SumOf(w, {k}) = w[k]
    <3>1. IsFiniteSet({}) /\ k \notin {} /\ {} \cup {k} = {k}
      BY FS_EmptySet
    <3>2. Weights(w, {} \cup {k})
      BY <2>5, <2>7 DEF Weights
    <3>3. SumOf(w, {} \cup {k}) = SumOf(w, {}) + w[k]
      BY <3>1, <3>2, SumAdd
    <3> QED
      BY <2>5, <2>7, <3>1, <3>3, SumEmpty
  <2>10. SumOf(w, S) \in Nat /\ w[k] \in Nat
    BY <2>5, <2>7, SumNat
  <2> QED
    BY <2>4, <2>6, <2>8, <2>9, <2>10
<1> QED
  BY <1>2

LEMMA FeasibleIff ==
    ASSUME NEW c \in Nat \ {0}, NEW n \in Nat \ {0}, NEW s \in Seq(Nat)
    PROVE  ComputeFeasibleProfiles(s, c, n) # {}
            <=> (\A k \in DOMAIN s : s[k] > 0) /\ Loads(s, c, n) # {}
<1>1. \A k \in DOMAIN s : s[k] \in Nat
  BY Domain
<1>2. Loads(s, c, n) # {} => \A k \in DOMAIN s : s[k] =< n
  BY LoadsBound
<1>3. Sorted(Loads(s, c, n)) # {} <=> Loads(s, c, n) # {}
  BY DEF Sorted
<1>4. CASE \E k \in DOMAIN s : s[k] \notin 1..n
  <2>1. PICK k \in DOMAIN s : s[k] \notin 1..n
    BY <1>4
  <2>2. ~ (s[k] > 0 /\ s[k] =< n)
    BY <1>1, <2>1
  <2> QED
    BY <1>2, <1>4, <2>2, FeasibleProfiles
<1>5. CASE \A k \in DOMAIN s : s[k] \in 1..n
  BY <1>3, <1>5, FeasibleProfiles
<1> QED
  BY <1>4, <1>5

LEMMA SortTotal ==
    ASSUME NEW c \in Nat, NEW p \in [1..c -> Nat]
    PROVE  /\ SortProfile(p) \in [1..c -> Nat]
           /\ Total(SortProfile(p)) = SumOf(p, 1..c)
<1>1. PICK q : q = SortProfile(p)
  OBVIOUS
<1>2. q \in [1..c -> Nat] /\ Alike(q, p)
  BY <1>1, SortAt, SortAlike
<1>3. q \in Seq(Int) /\ DOMAIN q = 1..c
  BY <1>2
<1>4. Total(q) = SumOf(q, 1..c)
  BY <1>3, TotalIsSum
<1>5. SumOf(q, 1..c) = SumOf(p, 1..c)
  BY <1>2, AlikeSum
<1> QED
  BY <1>1, <1>2, <1>4, <1>5

\* A profile seats everybody.
LEMMA FeasibleTotal ==
    ASSUME NEW c \in Nat \ {0}, NEW n \in Nat \ {0}, NEW s \in Seq(Nat),
           NEW p \in ComputeFeasibleProfiles(s, c, n)
    PROVE  p \in [1..c -> Nat] /\ Total(p) = Total(s)
<1>1. p \in Sorted(Loads(s, c, n))
  BY FeasibleProfiles
<1>2. PICK load \in Loads(s, c, n) : p = SortProfile(load)
  BY <1>1 DEF Sorted
<1>3. load \in [1..c -> Nat] /\ SumOf(load, 1..c) = Total(s)
  BY LoadsType, LoadsTotal
<1> QED
  BY <1>2, <1>3, SortTotal

\* Fewer players of each ticket fit where more did.
LEMMA LoadsSmaller ==
    ASSUME NEW c \in Nat, NEW n \in Nat, NEW s \in Seq(Nat), NEW a \in Seq(Nat),
           DOMAIN a = DOMAIN s, \A k \in DOMAIN s : a[k] =< s[k], Loads(s, c, n) # {}
    PROVE  Loads(a, c, n) # {}
<1>1. PICK f : Fits(f, s, c, n)
  BY InLoads
<1>2. ASSUME NEW team \in 1..c PROVE Load(f, a, c)[team] =< n
  <2>1. PICK w : w = Share(f, s, team)
    OBVIOUS
  <2>2. PICK v : v = Share(f, a, team)
    OBVIOUS
  <2>3. PICK S : S = DOMAIN s
    OBVIOUS
  <2>4. Total(w) = SumOf(w, S) /\ \A k \in S : w[k] \in Nat
    BY <2>1, <2>3, ShareSum
  <2>5. Total(v) = SumOf(v, S) /\ \A k \in S : v[k] \in Nat
    BY <2>2, <2>3, ShareSum
  <2>6. IsFiniteSet(S) /\ \A k \in S : s[k] \in Nat /\ a[k] \in Nat
    BY <2>3, Domain
  <2>7. Weights(v, S) /\ Weights(w, S)
    BY <2>4, <2>5 DEF Weights
  <2>8. ASSUME NEW k \in S PROVE v[k] =< w[k]
    <3>1. a[k] =< s[k] /\ v[k] = (IF f[k] = team THEN a[k] ELSE 0)
          /\ w[k] = (IF f[k] = team THEN s[k] ELSE 0)
      BY <2>1, <2>2, <2>3 DEF Share
    <3> QED
      BY <3>1
  <2>9. SumOf(v, S) =< SumOf(w, S)
    BY <2>6, <2>7, <2>8, SumMono
  <2>10. SumOf(v, S) \in Int /\ SumOf(w, S) \in Int
    BY <2>6, <2>7, SumType
  <2>11. Load(f, a, c)[team] = Total(v) /\ Total(w) =< n
    BY <1>1, <2>1, <2>2 DEF Load, Fits
  <2> QED
    BY <2>4, <2>5, <2>9, <2>10, <2>11
<1>3. Fits(f, a, c, n)
  BY <1>1, <1>2 DEF Fits
<1> QED
  BY <1>3, InLoads

-----------------------------------------------------------------------------
(* The profile that is recommended                                         *)

Keys(m) == { q \in Seq(Int) : Len(q) = m }

LEMMA PrecedesOrders ==
    ASSUME NEW m, NEW p \in Keys(m), NEW q \in Keys(m), NEW r \in Keys(m)
    PROVE  /\ ~ Precedes(p, p)
           /\ Precedes(p, q) /\ Precedes(q, r) => Precedes(p, r)
<1>1. /\ m \in Nat /\ DOMAIN p = 1..m /\ DOMAIN q = 1..m /\ DOMAIN r = 1..m
      /\ \A k \in 1..m : p[k] \in Int /\ q[k] \in Int /\ r[k] \in Int
  BY DEF Keys
<1>2. ~ Precedes(p, p)
  BY <1>1 DEF Precedes
<1>3. ASSUME Precedes(p, q), Precedes(q, r) PROVE Precedes(p, r)
  <2>1. PICK i \in 1..m : p[i] < q[i] /\ \A j \in 1..(i - 1) : p[j] = q[j]
    BY <1>1, <1>3 DEF Precedes
  <2>2. PICK k \in 1..m : q[k] < r[k] /\ \A j \in 1..(k - 1) : q[j] = r[j]
    BY <1>1, <1>3 DEF Precedes
  <2>3. CASE i < k
    <3>1. q[i] = r[i] /\ \A j \in 1..(i - 1) : p[j] = r[j]
      BY <2>1, <2>2, <2>3
    <3> QED
      BY <1>1, <2>1, <3>1 DEF Precedes
  <2>4. CASE k < i
    <3>1. p[k] = q[k] /\ \A j \in 1..(k - 1) : p[j] = r[j]
      BY <2>1, <2>2, <2>4
    <3> QED
      BY <1>1, <2>2, <3>1 DEF Precedes
  <2>5. CASE i = k
    <3>1. p[k] < r[k] /\ \A j \in 1..(k - 1) : p[j] = r[j]
      BY <1>1, <2>1, <2>2, <2>5
    <3> QED
      BY <1>1, <3>1 DEF Precedes
  <2> QED
    BY <2>3, <2>4, <2>5
<1> QED
  BY <1>2, <1>3

LEMMA TotalInt ==
    ASSUME NEW s \in Seq(Int)
    PROVE  Total(s) \in Int
<1>1. IsFiniteSet(DOMAIN s) /\ \A k \in DOMAIN s : s[k] \in Int
  BY Domain
<1>2. Weights(s, DOMAIN s)
  BY <1>1 DEF Weights
<1> QED
  BY <1>1, <1>2, SumType, TotalIsSum

LEMMA QualityKey ==
    ASSUME NEW c \in Nat \ {0}, NEW p \in [1..c -> Nat]
    PROVE  ProfileQuality(p) \in Keys(4 + c)
<1> DEFINE D == [k \in 1..c |-> Abs(p[k] * c - Total(p))]
           E == [k \in 1..c |-> D[k] * D[k]]
           Z == { k \in 1..c : p[k] = 0 }
<1>1. p \in Seq(Int) /\ Len(p) = c
  OBVIOUS
<1>2. Total(p) \in Int
  BY <1>1, TotalInt
<1>3. \A k \in 1..c : D[k] \in Int
  <2>1. ASSUME NEW k \in 1..c PROVE p[k] * c - Total(p) \in Int
    <3>1. p[k] \in Int /\ c \in Int
      OBVIOUS
    <3>2. p[k] * c \in Int
      BY <3>1
    <3> QED
      BY <1>2, <3>2
  <2> QED
    BY <2>1 DEF Abs
<1>4. D \in Seq(Int)
  BY <1>3
<1>5. \A k \in 1..c : E[k] \in Int
  <2> HIDE DEF D
  <2> QED BY <1>3
<1>6. E \in Seq(Int)
  BY <1>5
<1>7. Total(D) \in Int /\ Total(E) \in Int
  <2> HIDE DEF D, E
  <2> QED BY <1>4, <1>6, TotalInt
<1>8. Cardinality(Z) \in Int
  <2>1. IsFiniteSet(1..c) /\ Z \subseteq 1..c
    BY FS_Interval
  <2>2. IsFiniteSet(Z)
    BY <2>1, FS_Subset
  <2> HIDE DEF Z
  <2> QED
    BY <2>2, FS_CardinalityType
<1>9. p[c] - p[1] \in Int
  <2>1. p[c] \in Int /\ p[1] \in Int
    OBVIOUS
  <2> QED
    BY <2>1
<1>10. ProfileQuality(p) = << p[c] - p[1], Total(E), Cardinality(Z), Total(D) >> \o p
  BY <1>1 DEF ProfileQuality
<1> HIDE DEF D, E, Z
<1>11. PICK a \in Int, b \in Int, d \in Int, e \in Int :
            ProfileQuality(p) = << a, b, d, e >> \o p
  BY <1>7, <1>8, <1>9, <1>10
<1>12. << a, b, d, e >> \o p \in Seq(Int) /\ Len(<< a, b, d, e >> \o p) = 4 + c
  <2>1. << a, b, d, e >> \in Seq(Int) /\ Len(<< a, b, d, e >>) = 4
    OBVIOUS
  <2>2. PICK h \in Seq(Int) : h = << a, b, d, e >> /\ Len(h) = 4
    BY <2>1
  <2>3. h \o p \in Seq(Int) /\ Len(h \o p) = 4 + c
    BY <1>1, <2>2
  <2> QED
    BY <2>2, <2>3
<1> QED
  BY <1>11, <1>12 DEF Keys

LEMMA BetterOrders ==
    ASSUME NEW c \in Nat \ {0}, NEW p \in [1..c -> Nat], NEW q \in [1..c -> Nat],
           NEW r \in [1..c -> Nat]
    PROVE  /\ ~ BetterProfile(p, p)
           /\ BetterProfile(p, q) /\ BetterProfile(q, r) => BetterProfile(p, r)
<1>1. PICK m : m = 4 + c
  OBVIOUS
<1>2. /\ ProfileQuality(p) \in Keys(m) /\ ProfileQuality(q) \in Keys(m)
      /\ ProfileQuality(r) \in Keys(m)
  BY <1>1, QualityKey
<1> QED
  BY <1>2, PrecedesOrders DEF BetterProfile

\* A finite set of profiles has one that none is better than.
LEMMA BestExists ==
    ASSUME NEW c \in Nat \ {0}, NEW S \in SUBSET [1..c -> Nat], IsFiniteSet(S), S # {}
    PROVE  \E p \in S : \A q \in S : ~ BetterProfile(q, p)
<1> DEFINE A == { T \in SUBSET S : T = {} \/ \E p \in T : \A q \in T : ~ BetterProfile(q, p) }
<1>1. {} \in A
  OBVIOUS
<1>2. ASSUME NEW T \in SUBSET S, T \in A, NEW x \in S \ T PROVE T \cup {x} \in A
  <2>1. x \in [1..c -> Nat] /\ ~ BetterProfile(x, x)
    BY BetterOrders
  <2>2. CASE T = {}
    BY <2>1, <2>2
  <2>3. CASE T # {}
    <3>1. PICK p \in T : \A q \in T : ~ BetterProfile(q, p)
      BY <1>2, <2>3
    <3>2. CASE BetterProfile(x, p)
      <4>1. ASSUME NEW q \in T PROVE ~ BetterProfile(q, x)
        BY <2>1, <3>1, <3>2, BetterOrders
      <4> QED
        BY <2>1, <4>1
    <3>3. CASE ~ BetterProfile(x, p)
      BY <3>1, <3>3
    <3> QED
      BY <3>2, <3>3
  <2> QED
    BY <2>2, <2>3
<1>3. S \in A
  <2> HIDE DEF A
  <2> QED BY <1>1, <1>2, FiniteInd
<1> QED
  BY <1>3

LEMMA FeasibleFinite ==
    ASSUME NEW c \in Nat \ {0}, NEW n \in Nat \ {0}, NEW s \in Seq(Nat)
    PROVE  /\ ComputeFeasibleProfiles(s, c, n) \in SUBSET [1..c -> Nat]
           /\ IsFiniteSet(ComputeFeasibleProfiles(s, c, n))
<1>1. PICK L : L = Loads(s, c, n)
  OBVIOUS
<1>2. L \in SUBSET [1..c -> 0..n]
  <2>1. ASSUME NEW load \in L PROVE load \in [1..c -> 0..n]
    <3>1. load \in [1..c -> Nat] /\ \A team \in 1..c : load[team] =< n
      BY <1>1, LoadsWithin
    <3> QED
      BY <3>1
  <2> QED
    BY <2>1
<1>3. IsFiniteSet(1..c) /\ IsFiniteSet(0..n)
  <2>1. 0 \in Int /\ 1 \in Int /\ c \in Int /\ n \in Int
    OBVIOUS
  <2> QED
    BY <2>1, FS_Interval
<1>4. IsFiniteSet(L)
  BY <1>2, <1>3, FiniteFunctions, FS_Subset
<1>5. IsFiniteSet(Sorted(L))
  <2>1. PICK g : g = [load \in L |-> SortProfile(load)]
    OBVIOUS
  <2>2. g \in Surjection(L, Sorted(L))
    BY <2>1 DEF Surjection, Sorted
  <2> QED
    BY <1>4, <2>2, FS_Surjection
<1>6. IsFiniteSet({})
  BY FS_EmptySet
<1>7. IsFiniteSet(ComputeFeasibleProfiles(s, c, n))
  BY <1>1, <1>5, <1>6, FeasibleProfiles
<1>8. ComputeFeasibleProfiles(s, c, n) \in SUBSET [1..c -> Nat]
  BY FeasibleTotal
<1> QED
  BY <1>7, <1>8

\* The recommended profile is one of the profiles, and seats everybody.
LEMMA RecommendedTotal ==
    ASSUME NEW c \in Nat \ {0}, NEW n \in Nat \ {0}, NEW s \in Seq(Nat),
           NEW profiles, profiles = ComputeFeasibleProfiles(s, c, n), profiles # {}
    PROVE  /\ SelectRecommendedProfile(profiles) \in profiles
           /\ Total(SelectRecommendedProfile(profiles)) = Total(s)
<1>1. profiles \in SUBSET [1..c -> Nat] /\ IsFiniteSet(profiles)
  BY FeasibleFinite
<1>2. \E p \in profiles : \A q \in profiles : ~ BetterProfile(q, p)
  BY <1>1, BestExists
<1>3. SelectRecommendedProfile(profiles) \in profiles
  BY <1>2 DEF SelectRecommendedProfile
<1> QED
  BY <1>3, FeasibleTotal

-----------------------------------------------------------------------------
(* The tickets of one session (MCTeams)                                    *)

\* What the arithmetic needs of a policy.
Limits(g) ==
    /\ g.teamCount \in Nat \ {0} /\ g.teamSize \in Nat \ {0}
    /\ g.minimumPlayers \in Nat /\ g.maximumPlayers \in Nat
    /\ g.minimumPlayers =< g.maximumPlayers

\* The tickets of a session always have a feasible profile.
Seated(g, s) ==
    /\ Limits(g)
    /\ s \in Seq(Nat)
    /\ ComputeFeasibleProfiles(s, g.teamCount, g.teamSize) # {}

LEMMA PolicyLimits ==
    ASSUME NEW g, MatchmakingPolicy(g)
    PROVE  Limits(g)
BY DEF MatchmakingPolicy, Limits

LEMMA NobodySeated ==
    ASSUME NEW g, Limits(g)
    PROVE  Seated(g, <<>>)
<1>1. PICK c \in Nat \ {0}, n \in Nat \ {0} : c = g.teamCount /\ n = g.teamSize
  BY DEF Limits
<1>2. <<>> \in Seq(Nat) /\ DOMAIN <<>> = {}
  OBVIOUS
<1>3. Loads(<<>>, c, n) # {}
  BY LoadsEmpty
<1>4. ComputeFeasibleProfiles(<<>>, c, n) # {}
  BY <1>2, <1>3, FeasibleIff
<1> QED
  BY <1>1, <1>2, <1>4 DEF Seated

LEMMA SeatedOneMore ==
    ASSUME NEW g, NEW s, Seated(g, s), NEW x \in Nat, CanPlace(s, x, g)
    PROVE  Seated(g, Append(s, x))
<1>1. s \in Seq(Nat) /\ Limits(g)
  BY DEF Seated
<1>2. Append(s, x) \in Seq(Nat)
  BY <1>1, AppendFacts
<1> QED
  BY <1>1, <1>2 DEF Seated, CanPlace

LEMMA SeatedInit == TeamsInit => Seated(group, sizes)
<1>1. ASSUME NEW g \in Policies PROVE Limits(g)
  <2>1. MatchmakingPolicy(g)
    BY DEF Policies
  <2> QED
    BY <2>1, PolicyLimits
<1> QED
  BY <1>1, NobodySeated DEF TeamsInit

LEMMA SeatedStep ==
    ASSUME Seated(group, sizes), [TeamsNext]_teamsVars
    PROVE  Seated(group, sizes)'
<1>1. ASSUME NEW n \in 1..MaxTeamSize, Attach(n) PROVE Seated(group', sizes')
  <2>1. n \in Nat
    BY TeamsAssumption
  <2>2. sizes' = Append(sizes, n) /\ group' = group /\ RanksFirst(1, <<sizes>>, n, group)
    BY <1>1 DEF Attach
  <2>3. CanPlace(<<sizes>>[1], n, group)
    BY <2>2 DEF RanksFirst, Able
  <2>4. <<sizes>>[1] = sizes
    OBVIOUS
  <2>5. CanPlace(sizes, n, group)
    BY <2>3, <2>4
  <2> QED
    BY <2>1, <2>2, <2>5, SeatedOneMore
<1>2. CASE UNCHANGED teamsVars
  BY <1>2 DEF teamsVars
<1> QED
  BY <1>1, <1>2 DEF TeamsNext

LEMMA SeatedAssigned ==
    ASSUME Seated(group, sizes)
    PROVE  ProfilesAreAssignments
<1>1. PICK c \in Nat \ {0}, n \in Nat \ {0} : c = group.teamCount /\ n = group.teamSize
  BY DEF Seated, Limits
<1>2. sizes \in Seq(Nat) /\ ComputeFeasibleProfiles(sizes, c, n) # {}
  BY <1>1 DEF Seated
<1>3. ComputeFeasibleProfiles(sizes, c, n) = Sorted(Loads(sizes, c, n))
  BY <1>2, FeasibleProfiles
<1>4. ASSUME NEW f, NEW team PROVE Total(Present(Share(f, sizes, team))) = Total(Share(f, sizes, team))
  BY <1>2, ShareSum, PresentTotal
<1>5. ASSUME NEW f
      PROVE  f \in Assignments <=> f \in [DOMAIN sizes -> 1..c] /\
                \A team \in 1..c : Total(Present(Share(f, sizes, team))) =< n
  BY <1>1, Zenon DEF Assignments, Share
<1>6. ASSUME NEW f
      PROVE  f \in Assignments <=> f \in { f1 \in [DOMAIN sizes -> 1..c] :
                \A team \in 1..c : Load(f1, sizes, c)[team] =< n }
  <2>1. \A team \in 1..c : Total(Present(Share(f, sizes, team))) = Load(f, sizes, c)[team]
    BY <1>4 DEF Load
  <2> QED
    BY <1>5, <2>1
<1>7. ASSUME NEW f PROVE ProfileOf(f) = SortProfile(Load(f, sizes, c))
  BY <1>1 DEF ProfileOf, Load, Share
<1>8. ASSUME NEW r PROVE r \in Sorted(Loads(sizes, c, n)) <=> r \in { ProfileOf(f) : f \in Assignments }
  BY <1>6, <1>7 DEF Sorted, Loads
<1> QED
  BY <1>1, <1>3, <1>8 DEF ProfilesAreAssignments

\* Whoever of the tickets has come fits where all of them do.
LEMMA ArrivedSeated ==
    ASSUME NEW c \in Nat \ {0}, NEW n \in Nat \ {0}, NEW s \in Seq(Nat),
           ComputeFeasibleProfiles(s, c, n) # {}, NEW a \in Seq(Nat),
           DOMAIN a = DOMAIN s, \A k \in DOMAIN s : a[k] =< s[k]
    PROVE  /\ Present(a) \in Seq(Nat)
           /\ ComputeFeasibleProfiles(Present(a), c, n) # {}
<1>1. Loads(s, c, n) # {}
  BY FeasibleIff
<1>2. Loads(a, c, n) # {}
  BY <1>1, LoadsSmaller
<1>3. Loads(Present(a), c, n) # {}
  BY <1>2, PresentLoads
<1> QED
  BY <1>3, PresentPositive, FeasibleIff

LEMMA SeatedPlayable ==
    ASSUME Seated(group, sizes)
    PROVE  RostersPlayable
<1>1. PICK c \in Nat \ {0}, n \in Nat \ {0} : c = group.teamCount /\ n = group.teamSize
  BY DEF Seated, Limits
<1>2. sizes \in Seq(Nat) /\ ComputeFeasibleProfiles(sizes, c, n) # {}
  BY <1>1 DEF Seated
<1>3. ASSUME NEW arrived \in PartialArrivals
      PROVE  /\ ComputeFeasibleProfiles(arrived, c, n) # {}
             /\ Total(SelectRecommendedProfile(ComputeFeasibleProfiles(arrived, c, n)))
                    = Total(arrived)
  <2>1. PICK a \in [DOMAIN sizes -> 0..n] :
            arrived = Present(a) /\ \A k \in DOMAIN sizes : a[k] =< sizes[k]
    BY <1>1 DEF PartialArrivals
  <2>2. DOMAIN sizes = 1..Len(sizes) /\ Len(sizes) \in Nat
    BY <1>2
  <2>3. a \in Seq(Nat) /\ DOMAIN a = DOMAIN sizes
    BY <2>1, <2>2
  <2>4. arrived \in Seq(Nat) /\ ComputeFeasibleProfiles(arrived, c, n) # {}
    BY <1>2, <2>1, <2>3, ArrivedSeated
  <2> QED
    BY <2>4, RecommendedTotal
<1>4. ASSUME Total(sizes) = group.maximumPlayers \/ IsExpectedStartEligible(sizes, group)
      PROVE  IsSessionLockEligible(sizes, group)
  <2>1. /\ Total(sizes) \in Nat /\ group.minimumPlayers \in Nat
        /\ group.minimumPlayers =< group.maximumPlayers
    BY <1>2, TotalNat DEF Seated, Limits
  <2>2. CASE Total(sizes) = group.maximumPlayers
    BY <1>1, <1>2, <2>1, <2>2 DEF IsSessionLockEligible
  <2>3. CASE IsExpectedStartEligible(sizes, group)
    BY <2>3 DEF IsSessionLockEligible, IsExpectedStartEligible
  <2> QED
    BY <1>4, <2>2, <2>3
<1> QED
  BY <1>1, <1>3, <1>4 DEF RostersPlayable

\* computeFeasibleProfiles loses no assignment of whole tickets to teams and invents
\* none, although it keeps only sorted profiles and places one ticket at a time.
THEOREM TeamsAssignments == TeamsSpec => []ProfilesAreAssignments
<1>1. TeamsSpec => []Seated(group, sizes)
  BY SeatedInit, SeatedStep, PTL DEF TeamsSpec
<1> QED
  BY <1>1, SeatedAssigned, PTL

\* getAssignment can always seat whoever of a session has arrived, and a session that
\* was dispatched, or is full, may be locked once everyone has (isSessionLockEligible).
THEOREM TeamsPlayable == TeamsSpec => []RostersPlayable
<1>1. TeamsSpec => []Seated(group, sizes)
  BY SeatedInit, SeatedStep, PTL DEF TeamsSpec
<1> QED
  BY <1>1, SeatedPlayable, PTL

-----------------------------------------------------------------------------
(* What the proofs need to know of the state                               *)

\* A request that has been read or answered carries an instant that has been.
FetchPast(f) ==
    \/ f = NoFetch \/ f = Sent
    \/ /\ f.phase = "reading" /\ f.at \in 0..now
       /\ f = [phase |-> "reading", at |-> f.at, rows |-> f.rows]
    \/ /\ f.phase = "answered" /\ f.at \in 0..now
       /\ f = [phase |-> "answered", at |-> f.at, payload |-> f.payload]

FetchInv ==
    /\ now \in Nat
    /\ fetches = [s \in Slots |-> fetches[s]]
    /\ \A s \in Slots : FetchPast(fetches[s])

\* The clock is anchored at an instant of the orchestrator no later than the one
\* the payload came at, and no page shows more than what is projected from there.
ClockInv ==
    /\ published \in Nat
    /\ anchor = [server |-> anchor.server, local |-> anchor.local, set |-> anchor.set]
    /\ anchor.set \in BOOLEAN /\ anchor.server \in Nat /\ anchor.local \in 0..now
    /\ anchor.server <= anchor.local
    /\ published <= Projected

Startups == {"NONE", "BLOCKED", "RESETTING"}

\* The rows of a variant: one startup state for each of its revisions.
RowsInv ==
    /\ {"starts", "revision"} \subseteq DOMAIN db
    /\ db.starts \in [Revisions -> Startups]
    /\ db.revision \in Revisions

Inv == FetchInv /\ ClockInv /\ RowsInv

-----------------------------------------------------------------------------
(* What the other services commit                                          *)

\* Services change neither the clock nor the requests of the page.
LEMMA CommitFrame ==
    ASSUME Commits PROVE UNCHANGED <<now, fetches, anchor, published, posts>>
BY DEF Commits, Commit, Enqueue, AttachTicket, AssignWaiting, PlayerJoined, PlayerLeft,
       ExpireTransfers, CloseTransfer, GameStarting, GameFinished, NextLife, FailInstance,
       CancelForInstance, RecoverSession, FailSession, SynchronizeVariant, BlockRevision,
       CompleteReset, RecordTps, Prune, browserVars

\* The rows of the variant stay what they are.
SameVariant(d) ==
    /\ {"starts", "revision"} \subseteq DOMAIN d
    /\ d.starts = db.starts /\ d.revision = db.revision

LEMMA MatchmakingRows ==
    ASSUME RowsInv,
           \/ \E n \in 1..Group.teamSize : Enqueue(n)
           \/ AttachTicket \/ AssignWaiting
           \/ \E k \in DOMAIN db.tickets :
                PlayerJoined(k) \/ PlayerLeft(k) \/ ExpireTransfers(k)
           \/ CloseTransfer \/ GameStarting \/ GameFinished
    PROVE  SameVariant(db')
<1>1. CASE \E n \in 1..Group.teamSize : Enqueue(n)
  BY <1>1 DEF Enqueue, Commit, RowsInv, SameVariant
<1>2. CASE AttachTicket
  BY <1>2 DEF AttachTicket, StartSessionTransfers, Commit, RowsInv, SameVariant
<1>3. CASE AssignWaiting
  BY <1>3 DEF AssignWaiting, StartSessionTransfers, Commit, RowsInv, SameVariant
<1>4. CASE \E k \in DOMAIN db.tickets :
                PlayerJoined(k) \/ PlayerLeft(k) \/ ExpireTransfers(k)
  BY <1>4 DEF PlayerJoined, PlayerLeft, ExpireTransfers, Commit, RowsInv, SameVariant
<1>5. CASE CloseTransfer
  BY <1>5 DEF CloseTransfer, Commit, RowsInv, SameVariant
<1>6. CASE GameStarting
  BY <1>6 DEF GameStarting, Commit, RowsInv, SameVariant
<1>7. CASE GameFinished
  BY <1>7 DEF GameFinished, Commit, RowsInv, SameVariant
<1> QED
  BY <1>1, <1>2, <1>3, <1>4, <1>5, <1>6, <1>7

LEMMA LifeRows ==
    ASSUME RowsInv,
           \/ NextLife \/ FailInstance \/ CancelForInstance \/ RecoverSession \/ FailSession
           \/ \E tps \in Tps : RecordTps(tps)
           \/ Prune
    PROVE  SameVariant(db')
<1>1. CASE NextLife
  BY <1>1 DEF NextLife, Commit, RowsInv, SameVariant
<1>2. CASE FailInstance
  BY <1>2 DEF FailInstance, Commit, RowsInv, SameVariant
<1>3. CASE CancelForInstance
  BY <1>3 DEF CancelForInstance, Commit, RowsInv, SameVariant
<1>4. CASE RecoverSession
  BY <1>4 DEF RecoverSession, Commit, RowsInv, SameVariant
<1>5. CASE FailSession
  BY <1>5 DEF FailSession, Commit, RowsInv, SameVariant
<1>6. CASE \E tps \in Tps : RecordTps(tps)
  BY <1>6 DEF RecordTps, RowsInv, SameVariant
<1>7. CASE Prune
  BY <1>7 DEF Prune, Commit, RowsInv, SameVariant
<1> QED
  BY <1>1, <1>2, <1>3, <1>4, <1>5, <1>6, <1>7

-----------------------------------------------------------------------------
(* The rows of the variant                                                 *)

\* RetryHitsItsRevision of one step.
OwnRevision ==
    \A r \in Revisions :
        db.starts[r] = "BLOCKED" /\ db'.starts[r] = "RESETTING"
            => r \in posts /\ r = db.revision

LEMMA SameVariantStep ==
    ASSUME RowsInv, SameVariant(db') PROVE RowsInv' /\ OwnRevision
BY DEF RowsInv, SameVariant, OwnRevision

LEMMA VariantStep ==
    ASSUME RowsInv,
           \/ SynchronizeVariant \/ BlockRevision
           \/ \E r \in Revisions : CompleteReset(r)
    PROVE  RowsInv' /\ OwnRevision
<1>1. CASE SynchronizeVariant
  <2>1. db.revision + 1 \in Revisions
    BY <1>1, ConsoleAssumption DEF SynchronizeVariant, RowsInv, Revisions
  <2> QED
    BY <1>1, <2>1 DEF SynchronizeVariant, Commit, RowsInv, OwnRevision
<1>2. CASE BlockRevision
  BY <1>2 DEF BlockRevision, Commit, RowsInv, OwnRevision, Startups
<1>3. CASE \E r \in Revisions : CompleteReset(r)
  BY <1>3 DEF CompleteReset, Commit, RowsInv, OwnRevision, Startups
<1> QED
  BY <1>1, <1>2, <1>3

LEMMA ResetStep ==
    ASSUME RowsInv, NEW r \in posts, RequestReset(r) PROVE RowsInv' /\ OwnRevision
<1>1. db' = IF r = db.revision /\ db.starts[r] = "BLOCKED"
            THEN [db EXCEPT !.starts[r] = "RESETTING"] ELSE db
  BY DEF RequestReset, ResetRequested
<1> QED
  BY <1>1 DEF RowsInv, OwnRevision, Startups

LEMMA CommitStep == ASSUME RowsInv, Commits PROVE RowsInv' /\ OwnRevision
<1>1. CASE SameVariant(db')
  BY <1>1, SameVariantStep
<1>2. CASE \/ SynchronizeVariant \/ BlockRevision
           \/ \E r \in Revisions : CompleteReset(r)
  BY <1>2, VariantStep
<1> QED
  BY <1>1, <1>2, MatchmakingRows, LifeRows DEF Commits

\* Of the browser's steps only a request for a reset reaches the rows.
LEMMA BrowserRows ==
    ASSUME RowsInv, Browser PROVE RowsInv' /\ OwnRevision
<1>1. CASE \E r \in posts : RequestReset(r)
  BY <1>1, ResetStep
<1>2. CASE UNCHANGED db
  BY <1>2 DEF RowsInv, OwnRevision
<1> QED
  BY <1>1, <1>2 DEF Browser, Poll, Refresh, BeginRead, Respond, FetchFails, Deliver, Tick,
                    ConfirmRetry

-----------------------------------------------------------------------------
(* The requests and the clock                                              *)

\* ClockForward of one step.
Forward == published' # published => published' >= published /\ published' =< now'

LEMMA ProjectedPast ==
    ASSUME FetchInv, ClockInv PROVE Projected \in Nat /\ Projected <= now
BY DEF FetchInv, ClockInv, Projected

\* What else happens while the clock stands and no request is touched.
LEMMA IdleClock ==
    ASSUME FetchInv, ClockInv, UNCHANGED <<now, fetches, anchor, published>>
    PROVE  FetchInv' /\ ClockInv' /\ Forward
<1>1. FetchInv'
  BY DEF FetchInv, FetchPast
<1>2. ClockInv'
  BY DEF ClockInv, Projected
<1> QED
  BY <1>1, <1>2 DEF Forward

\* A request that is replaced by one whose instant has been.
LEMMA FetchStep ==
    ASSUME FetchInv, ClockInv, UNCHANGED <<now, anchor, published>>,
           fetches' = [s \in Slots |-> fetches'[s]],
           \A s \in Slots : FetchPast(fetches'[s])
    PROVE  FetchInv' /\ ClockInv' /\ Forward
<1>1. FetchInv'
  BY DEF FetchInv, FetchPast
<1>2. ClockInv'
  BY DEF ClockInv, Projected
<1> QED
  BY <1>1, <1>2 DEF Forward

LEMMA ReadingPast ==
    ASSUME NEW s \in Slots, FetchInv, fetches[s].phase \in {"reading", "answered"}
    PROVE  fetches[s].at \in 0..now
BY DEF FetchInv, FetchPast, NoFetch, Sent

LEMMA GivenUpPast ==
    ASSUME NEW f, FetchPast(f) PROVE FetchPast(GivenUp(f))
<1>1. CASE f = NoFetch \/ f = Sent
  BY <1>1 DEF GivenUp, NoFetch, Sent, FetchPast
<1>2. CASE f.phase = "reading" /\ f.at \in 0..now
           /\ f = [phase |-> "reading", at |-> f.at, rows |-> f.rows]
  <2>1. GivenUp(f) = [phase |-> "reading", at |-> f.at, rows |-> NoPayload]
    BY <1>2 DEF GivenUp
  <2> QED
    BY <1>2, <2>1 DEF FetchPast
<1>3. CASE f.phase = "answered" /\ f.at \in 0..now
           /\ f = [phase |-> "answered", at |-> f.at, payload |-> f.payload]
  <2>1. GivenUp(f) = [phase |-> "answered", at |-> f.at, payload |-> NoPayload]
    BY <1>3 DEF GivenUp
  <2> QED
    BY <1>3, <2>1 DEF FetchPast
<1> QED
  BY <1>1, <1>2, <1>3 DEF FetchPast

LEMMA RequestStep ==
    ASSUME FetchInv, ClockInv,
           \/ Poll \/ Refresh
           \/ \E s \in Slots : BeginRead(s) \/ Respond(s) \/ FetchFails(s)
    PROVE  FetchInv' /\ ClockInv' /\ Forward
<1>1. CASE Poll
  <2>1. fetches' = [s \in Slots |-> IF s = "live" THEN Sent ELSE fetches[s]]
    BY <1>1 DEF Poll, FetchInv
  <2>2. \A s \in Slots : FetchPast(fetches'[s])
    BY <2>1 DEF FetchInv, FetchPast
  <2> QED
    BY <1>1, <2>1, <2>2, FetchStep DEF Poll
<1>2. CASE Refresh
  <2>1. fetches' = [live |-> Sent, dropped |-> GivenUp(fetches["live"])]
    BY <1>2 DEF Refresh
  <2>2. FetchPast(Sent) /\ FetchPast(GivenUp(fetches["live"]))
    BY GivenUpPast DEF FetchInv, Slots, FetchPast
  <2>3. fetches' = [s \in Slots |-> fetches'[s]]
        /\ fetches'["live"] = Sent /\ fetches'["dropped"] = GivenUp(fetches["live"])
    BY <2>1 DEF Slots
  <2>4. \A s \in Slots : FetchPast(fetches'[s])
    BY <2>2, <2>3 DEF Slots
  <2> QED
    BY <1>2, <2>3, <2>4, FetchStep DEF Refresh
<1>3. ASSUME NEW s \in Slots, BeginRead(s) PROVE FetchInv' /\ ClockInv' /\ Forward
  <2>1. PICK rows : fetches' = [fetches EXCEPT ![s] =
                        [phase |-> "reading", at |-> now, rows |-> rows]]
    BY <1>3 DEF BeginRead
  <2>2. fetches' = [t \in Slots |-> IF t = s
            THEN [phase |-> "reading", at |-> now, rows |-> rows] ELSE fetches[t]]
    BY <2>1 DEF FetchInv
  <2>3. FetchPast([phase |-> "reading", at |-> now, rows |-> rows])
    BY DEF FetchPast, FetchInv
  <2>4. \A t \in Slots : FetchPast(fetches'[t])
    BY <2>2, <2>3 DEF FetchInv
  <2> QED
    BY <1>3, <2>2, <2>4, FetchStep DEF BeginRead
<1>4. ASSUME NEW s \in Slots, Respond(s) PROVE FetchInv' /\ ClockInv' /\ Forward
  <2>1. PICK at, payload :
          /\ fetches' = [fetches EXCEPT ![s] =
                            [phase |-> "answered", at |-> at, payload |-> payload]]
          /\ at \in {fetches[s].at, now}
    BY <1>4 DEF Respond
  <2>2. fetches' = [t \in Slots |-> IF t = s
            THEN [phase |-> "answered", at |-> at, payload |-> payload] ELSE fetches[t]]
    BY <2>1 DEF FetchInv
  <2>3. at \in 0..now
    BY <1>4, <2>1, ReadingPast DEF Respond, FetchInv
  <2>4. FetchPast([phase |-> "answered", at |-> at, payload |-> payload])
    BY <2>3 DEF FetchPast
  <2>5. \A t \in Slots : FetchPast(fetches'[t])
    BY <2>2, <2>4 DEF FetchInv
  <2> QED
    BY <1>4, <2>2, <2>5, FetchStep DEF Respond
<1>5. ASSUME NEW s \in Slots, FetchFails(s) PROVE FetchInv' /\ ClockInv' /\ Forward
  <2>1. fetches' = [t \in Slots |-> IF t = s THEN NoFetch ELSE fetches[t]]
    BY <1>5 DEF FetchFails, FetchInv
  <2>2. \A t \in Slots : FetchPast(fetches'[t])
    BY <2>1 DEF FetchInv, FetchPast
  <2> QED
    BY <1>5, <2>1, <2>2, FetchStep DEF FetchFails
<1> QED
  BY <1>1, <1>2, <1>3, <1>4, <1>5

\* A payload sets the clock only to an instant nobody has been shown to be over,
\* and no later than now.
LEMMA DeliverStep ==
    ASSUME FetchInv, ClockInv, NEW s \in Slots, Deliver(s)
    PROVE  FetchInv' /\ ClockInv' /\ Forward
<1> DEFINE at == fetches[s].at
<1>1. at \in 0..now
  BY ReadingPast DEF Deliver
<1>2. now' = now /\ fetches' = [t \in Slots |-> IF t = s THEN NoFetch ELSE fetches[t]]
  BY DEF Deliver, FetchInv
<1>3. FetchInv'
  <2>1. \A t \in Slots : fetches'[t] = NoFetch \/ fetches'[t] = fetches[t]
    BY <1>2
  <2> QED
    BY <1>2, <2>1 DEF FetchInv, FetchPast
<1>4. CASE Behind(at)
  <2>1. UNCHANGED <<anchor, published>>
    BY <1>4 DEF Deliver, SyncClock
  <2> QED
    BY <1>2, <1>3, <2>1 DEF ClockInv, Projected, Forward
<1>5. CASE ~ Behind(at)
  <2>1. anchor' = [server |-> at, local |-> now, set |-> TRUE] /\ published' = at
    BY <1>5 DEF Deliver, SyncClock
  <2>2. published <= at
    BY <1>1, <1>5 DEF Behind, ClockInv, Projected, FetchInv
  <2> HIDE DEF at
  <2>3. Projected' = at
    BY <1>1, <1>2, <2>1 DEF Projected, FetchInv
  <2> QED
    BY <1>1, <1>2, <1>3, <2>1, <2>2, <2>3 DEF ClockInv, Forward, FetchInv
<1> QED
  BY <1>4, <1>5

LEMMA TickStep ==
    ASSUME FetchInv, ClockInv, Tick PROVE FetchInv' /\ ClockInv' /\ Forward
<1>1. UNCHANGED <<now, fetches, anchor>> /\ published' = Projected
  BY DEF Tick
<1>2. Projected' = Projected
  BY <1>1 DEF Projected
<1>3. FetchInv'
  BY <1>1 DEF FetchInv, FetchPast
<1> QED
  BY <1>1, <1>2, <1>3, ProjectedPast DEF ClockInv, Forward

LEMMA TimeStep ==
    ASSUME FetchInv, ClockInv, TimePasses PROVE FetchInv' /\ ClockInv' /\ Forward
<1>1. now' = now + 1 /\ UNCHANGED <<fetches, anchor, published>>
  BY DEF TimePasses, browserVars
<1>2. FetchInv'
  BY <1>1 DEF FetchInv, FetchPast
<1>3. published <= Projected'
  BY <1>1 DEF FetchInv, ClockInv, Projected
<1> QED
  BY <1>1, <1>2, <1>3 DEF FetchInv, ClockInv, Forward

-----------------------------------------------------------------------------
(* Theorems                                                                *)

LEMMA InitInv == Init => Inv
<1> SUFFICES ASSUME Init PROVE Inv
  OBVIOUS
<1>1. FetchInv
  BY DEF Init, FetchInv, FetchPast
<1>2. ClockInv
  BY DEF Init, ClockInv, NoAnchor, Projected
<1>3. RowsInv
  BY ConsoleAssumption DEF Init, RowsInv, Revisions, Startups
<1> QED
  BY <1>1, <1>2, <1>3 DEF Inv

LEMMA NextInv == Inv /\ [Next]_vars => Inv' /\ Forward /\ OwnRevision
<1> SUFFICES ASSUME FetchInv, ClockInv, RowsInv, [Next]_vars
             PROVE  FetchInv' /\ ClockInv' /\ RowsInv' /\ Forward /\ OwnRevision
  BY DEF Inv
<1>1. CASE Commits
  BY <1>1, CommitFrame, CommitStep, IdleClock
<1>2. CASE Browser
  <2>1. CASE ConfirmRetry \/ \E r \in posts : RequestReset(r)
    <3>1. UNCHANGED <<now, fetches, anchor, published>>
      BY <2>1 DEF ConfirmRetry, RequestReset
    <3>2. FetchInv' /\ ClockInv' /\ Forward
      BY <3>1, IdleClock
    <3> QED
      BY <1>2, <3>2, BrowserRows
  <2> QED
    BY <1>2, <2>1, RequestStep, DeliverStep, TickStep, BrowserRows DEF Browser
<1>3. CASE TimePasses
  <2>1. UNCHANGED db
    BY <1>3 DEF TimePasses
  <2> QED
    BY <1>3, <2>1, TimeStep DEF RowsInv, OwnRevision
<1>4. CASE UNCHANGED vars
  BY <1>4, IdleClock DEF vars, RowsInv, OwnRevision
<1> QED
  BY <1>1, <1>2, <1>3, <1>4 DEF Next

\* What is known of the requests, the clock and the rows holds in every state.
THEOREM Invariant == Spec => []Inv
BY InitInv, NextInv, PTL DEF Spec

\* The clock all pages share never goes back and never runs ahead of the
\* orchestrator, in whatever order payloads of whatever age arrive, and whichever
\* are lost (syncClock, tick).
THEOREM ClockGoesForward == Spec => ClockForward
<1>1. Inv /\ [Next]_vars =>
        [published' >= published /\ published' =< now']_published
  BY NextInv DEF Forward
<1> QED
  BY <1>1, InitInv, NextInv, PTL DEF Spec, ClockForward

\* A retry that was asked for on an old page, or asked for twice, resets no other
\* revision than its own, and no revision but the current one (requestReset).
THEOREM RetriesHitTheirRevision == Spec => RetryHitsItsRevision
<1>1. Inv /\ [Next]_vars =>
        [\A r \in Revisions :
            db.starts[r] = "BLOCKED" /\ db'.starts[r] = "RESETTING"
                => r \in posts /\ r = db.revision]_db
  BY NextInv DEF OwnRevision
<1> QED
  BY <1>1, InitInv, NextInv, PTL DEF Spec, RetryHitsItsRevision
-----------------------------------------------------------------------------
(* What one moment looks like to a page                                    *)

Held == {"TRANSFERRING", "STARTING", "FINISHED", "FAILED"}

TicketRow == [selected : Nat, moving : Nat, connected : Nat]

NobodyMoving(tickets) == \A k \in DOMAIN tickets : tickets[k].moving = 0

\* The columns the pages read are there.
Columns(d) ==
    /\ {"queue", "tickets", "session", "holds", "pending", "life", "owned",
        "recovers", "revision", "layers", "starts", "metrics"} \subseteq DOMAIN d
    /\ d.queue \in Seq(Nat) /\ d.tickets \in Seq(TicketRow)

\* A session that has its instance holds the reservation of it, an instance that
\* lives and is reserved has its session, nobody is on the way to a session that
\* has none, and a revision comes with its layers.
Agrees(d) ==
    /\ d.holds <=> d.session \in Held
    /\ d.holds => d.owned
    /\ d.owned /\ d.life # "FAILED" => d.holds
    /\ d.life = "DRAINING" => d.owned
    /\ d.recovers => d.session = "TRANSFERRING" /\ d.life = "FAILED"
    /\ d.holds \/ NobodyMoving(d.tickets)
    /\ d.layers = d.revision

\* The players of each ticket that have not left, and the teams all of them fit in.
Actives(tickets) == [k \in DOMAIN tickets |-> Active(tickets[k])]
Connecteds(tickets) == [k \in DOMAIN tickets |-> Connected(tickets[k])]
Seats(tickets) == Loads(Actives(tickets), Group.teamCount, Group.teamSize) # {}

OneMoment(d) == Columns(d) /\ Agrees(d) /\ Seats(d.tickets)

\* A bucket holds what was reported in its unit, until it is pruned, which happens
\* to none that is still kept.
SamplesInv ==
    /\ "metrics" \in DOMAIN db
    /\ db.metrics = [b \in Instants |-> db.metrics[b]]
    /\ recorded = [b \in Instants |-> recorded[b]]
    /\ \A b \in Instants : recorded[b].count \in Nat
    /\ \A b \in Instants :
        \/ db.metrics[b] = recorded[b]
        \/ b < now - Retention /\ db.metrics[b] = NoSamples

\* The rows a transaction has read are those of one moment.
ReadInv ==
    page \notin Metrics /\ fetches["live"].phase = "reading"
        => OneMoment(fetches["live"].rows)

\* The buckets of a point of a series, and those of them that are over and kept.
Buckets(at, q) == { b \in InRange(at) : PointOf(b) = q }
Over(at, q, time) == { b \in Buckets(at, q) : b < at /\ b >= time - Retention }
Counts(samples) == [b \in Instants |-> samples[b].count]

\* SeriesAdds with the sums of the proofs.
SeriesOf(p, samples, time) ==
    /\ p.at \in 0..time
    /\ \A q \in DOMAIN p.points :
        /\ p.points[q].count \in Nat
        /\ SumOf(Counts(samples), Over(p.at, q, time)) =< p.points[q].count
        /\ p.points[q].count =< SumOf(Counts(samples), Buckets(p.at, q))

\* PayloadsAdd of one payload.  samples are those reported, time is the
\* orchestrator's.
PageAdds(p, samples, time) ==
    /\ p.page \in Pages \cup {"none"}
    /\ p.page \in {"cluster", "overview"} => ClusterAdds(p)
    /\ p.page = "queue" => QueueAdds(p)
    /\ p.page = "variants" => p.layers = p.variant.revision
    /\ p.page = "session" => SessionAdds(p)
    /\ p.page = "monitoring" => SeriesOf(p, samples, time)
    /\ p.page = "instance" =>
        (p.instance.owned /\ p.instance.life # "FAILED" => \E s \in p.session : s.holds)
    /\ p.page = "alerts" =>
        /\ p.at \in 0..time /\ p.alerts \subseteq Instants
        /\ \A b \in p.alerts : b < p.at =>
                samples[b].sum < Threshold * samples[b].count

AnsweredInv ==
    \A s \in Slots :
        fetches[s].phase = "answered" => PageAdds(fetches[s].payload, recorded, now)

PagesInv ==
    page \in Pages /\ OneMoment(db) /\ SamplesInv /\ ReadInv /\ AnsweredInv

\* The rows of the fields a page of tickets is put together from.
LEMMA TicketType ==
    ASSUME NEW n \in Nat, NEW m \in Nat
    PROVE  /\ Ticket(n, m) \in TicketRow /\ Ticket(n, m).moving = m
           /\ Active(Ticket(n, m)) = n + m
BY DEF Ticket, TicketRow, Active

LEMMA AppendStill ==
    ASSUME NEW s \in Seq(TicketRow), NobodyMoving(s), NEW n \in Nat
    PROVE  NobodyMoving(Append(s, Ticket(n, 0)))
<1> DEFINE t == Append(s, Ticket(n, 0))
<1>0. Ticket(n, 0) \in TicketRow /\ Ticket(n, 0).moving = 0
  <2>1. 0 \in Nat
    OBVIOUS
  <2> QED
    BY <2>1, TicketType
<1>1. /\ Len(t) = Len(s) + 1 /\ t \in Seq(TicketRow)
      /\ \A i \in 1..Len(s) : t[i] = s[i]
      /\ t[Len(s) + 1].moving = 0
  BY <1>0, AppendProperties
<1> HIDE DEF t
<1>2. ASSUME NEW k \in DOMAIN t PROVE t[k].moving = 0
  <2>1. k \in 1..Len(s) \/ k = Len(s) + 1
    BY <1>1
  <2> QED
    BY <1>1, <2>1 DEF NobodyMoving
<1> QED
  BY <1>2 DEF NobodyMoving, t

-----------------------------------------------------------------------------
(* The teams the tickets of a session fit in                               *)

LEMMA GroupLimits == Group.teamCount \in Nat \ {0} /\ Group.teamSize \in Nat \ {0}
BY ConsoleAssumption, PolicyLimits DEF Limits

LEMMA RowCounts ==
    ASSUME NEW x \in TicketRow
    PROVE  Active(x) \in Nat /\ Connected(x) \in Nat /\ Connected(x) =< Active(x)
BY DEF TicketRow, Active, Connected

LEMMA Counted ==
    ASSUME NEW s \in Seq(TicketRow)
    PROVE  /\ Actives(s) \in Seq(Nat) /\ Connecteds(s) \in Seq(Nat)
           /\ DOMAIN Actives(s) = DOMAIN s /\ DOMAIN Connecteds(s) = DOMAIN s
           /\ \A k \in DOMAIN s : Connecteds(s)[k] =< Actives(s)[k]
<1>1. DOMAIN s = 1..Len(s) /\ Len(s) \in Nat /\ \A k \in DOMAIN s : s[k] \in TicketRow
  OBVIOUS
<1>2. /\ Actives(s) \in [1..Len(s) -> Nat] /\ Connecteds(s) \in [1..Len(s) -> Nat]
      /\ \A k \in DOMAIN s : Connecteds(s)[k] =< Actives(s)[k]
  BY <1>1, RowCounts DEF Actives, Connecteds
<1> QED
  BY <1>1, <1>2

\* Nobody new comes to any ticket.
LEMMA SeatsKept ==
    ASSUME NEW s \in Seq(TicketRow), Seats(s), NEW t \in Seq(TicketRow),
           DOMAIN t = DOMAIN s, \A k \in DOMAIN s : Active(t[k]) =< Active(s[k])
    PROVE  Seats(t)
<1>1. PICK c \in Nat, n \in Nat : c = Group.teamCount /\ n = Group.teamSize
  BY GroupLimits
<1>2. PICK v \in Seq(Nat) : v = Actives(s)
  BY Counted
<1>3. PICK w \in Seq(Nat) : w = Actives(t)
  BY Counted
<1>4. DOMAIN v = DOMAIN s /\ DOMAIN w = DOMAIN v /\ \A k \in DOMAIN v : w[k] =< v[k]
  BY <1>2, <1>3, Counted DEF Actives
<1>5. Loads(v, c, n) # {}
  BY <1>1, <1>2 DEF Seats
<1>6. Loads(w, c, n) # {}
  BY <1>4, <1>5, LoadsSmaller
<1> QED
  BY <1>1, <1>3, <1>6 DEF Seats

LEMMA NoTickets == Seats(<<>>)
<1>1. PICK c \in Nat, n \in Nat : c = Group.teamCount /\ n = Group.teamSize
  BY GroupLimits
<1>2. DOMAIN <<>> = {}
  OBVIOUS
<1>3. Actives(<<>>) = <<>>
  BY <1>2 DEF Actives
<1>4. Loads(<<>>, c, n) # {}
  BY LoadsEmpty
<1> QED
  BY <1>1, <1>3, <1>4 DEF Seats

\* A ticket that can be placed, beside the players that are left of the others.
LEMMA SeatsPlaced ==
    ASSUME NEW c \in Nat \ {0}, NEW n \in Nat \ {0}, NEW v \in Seq(Nat), NEW x \in Nat,
           ComputeFeasibleProfiles(Append(Present(v), x), c, n) # {}
    PROVE  Loads(Append(v, x), c, n) # {}
<1>1. PICK q \in Seq(Nat) : q = Present(v)
  BY PresentType
<1>2. Append(q, x) \in Seq(Nat)
  BY AppendFacts
<1>3. Loads(Append(q, x), c, n) # {}
  BY <1>1, <1>2, FeasibleIff
<1>4. Loads(q, c, n) = Loads(v, c, n)
  BY <1>1, PresentLoads
<1>5. /\ Loads(Append(q, x), c, n) = Placed(Loads(q, c, n), x, c, n)
      /\ Loads(Append(v, x), c, n) = Placed(Loads(v, c, n), x, c, n)
  BY LoadsAppend
<1> QED
  BY <1>3, <1>4, <1>5

LEMMA SeatsAppend ==
    ASSUME NEW s \in Seq(TicketRow), NEW x \in Nat, CanPlace(ActiveSizes(s), x, Group),
           NEW ticket \in TicketRow, Active(ticket) = x
    PROVE  Seats(Append(s, ticket))
<1>1. PICK c \in Nat \ {0}, n \in Nat \ {0} : c = Group.teamCount /\ n = Group.teamSize
  BY GroupLimits
<1>2. PICK v \in Seq(Nat) : v = Actives(s)
  BY Counted
<1>3. ComputeFeasibleProfiles(Append(Present(v), x), c, n) # {}
  BY <1>1, <1>2 DEF CanPlace, ActiveSizes, Actives
<1>4. Loads(Append(v, x), c, n) # {}
  BY <1>3, SeatsPlaced
<1>5. Actives(Append(s, ticket)) = Append(v, x)
  <2>1. PICK t : t = Append(s, ticket)
    OBVIOUS
  <2>2. PICK w : w = Append(v, x)
    OBVIOUS
  <2>3. PICK m \in Nat : m = Len(s) /\ DOMAIN s = 1..m
    OBVIOUS
  <2>4. /\ DOMAIN t = 1..(m + 1) /\ t[m + 1] = ticket /\ \A k \in 1..m : t[k] = s[k]
    BY <2>1, <2>3, AppendFacts
  <2>5. DOMAIN v = 1..m /\ \A k \in 1..m : v[k] = Active(s[k])
    BY <1>2, <2>3 DEF Actives
  <2>6. Len(v) = m
    BY <2>5
  <2>7. /\ w \in Seq(Nat) /\ DOMAIN w = 1..(m + 1) /\ w[m + 1] = x
        /\ \A k \in 1..m : w[k] = v[k]
    BY <2>2, <2>6, AppendFacts
  <2>8. \A k \in 1..(m + 1) : Actives(t)[k] = w[k]
    <3>1. ASSUME NEW k \in 1..(m + 1) PROVE Actives(t)[k] = Active(t[k])
      BY <2>4 DEF Actives
    <3>2. ASSUME NEW k \in 1..(m + 1) PROVE Active(t[k]) = w[k]
      <4>1. CASE k = m + 1
        BY <2>4, <2>7, <4>1
      <4>2. CASE k # m + 1
        <5>1. k \in 1..m
          BY <4>2
        <5> QED
          BY <2>4, <2>5, <2>7, <5>1
      <4> QED
        BY <4>1, <4>2
    <3> QED
      BY <3>1, <3>2
  <2>9. Actives(t) = [k \in 1..(m + 1) |-> Actives(t)[k]]
    BY <2>4 DEF Actives
  <2>10. w = [k \in 1..(m + 1) |-> w[k]]
    BY <2>7
  <2> QED
    BY <2>1, <2>2, <2>8, <2>9, <2>10
<1> QED
  BY <1>1, <1>4, <1>5 DEF Seats

\* The profiles a page recommends seat everybody.
LEMMA RecommendedSeats ==
    ASSUME NEW v \in Seq(Nat), Loads(v, Group.teamCount, Group.teamSize) # {}
    PROVE  Total(Recommended(Present(v))) = Total(Present(v))
<1>1. PICK c \in Nat \ {0}, n \in Nat \ {0} : c = Group.teamCount /\ n = Group.teamSize
  BY GroupLimits
<1>2. PICK q \in Seq(Nat) : q = Present(v)
  BY PresentType
<1>3. \A k \in DOMAIN q : q[k] > 0
  BY <1>2, PresentPositive
<1>4. Loads(q, c, n) # {}
  BY <1>1, <1>2, PresentLoads
<1>5. PICK profiles : profiles = ComputeFeasibleProfiles(q, c, n)
  OBVIOUS
<1>6. profiles # {}
  BY <1>3, <1>4, <1>5, FeasibleIff
<1>7. Total(SelectRecommendedProfile(profiles)) = Total(q)
  BY <1>5, <1>6, RecommendedTotal
<1>8. Recommended(q) = SelectRecommendedProfile(profiles)
  BY <1>1, <1>5, <1>6 DEF Recommended
<1> QED
  BY <1>2, <1>7, <1>8

LEMMA SeatsShown ==
    ASSUME NEW s \in Seq(TicketRow), Seats(s)
    PROVE  /\ Total(Recommended(ActiveSizes(s))) = Total(ActiveSizes(s))
           /\ Total(Recommended(ConnectedSizes(s))) = Total(ConnectedSizes(s))
<1>1. PICK c \in Nat, n \in Nat : c = Group.teamCount /\ n = Group.teamSize
  BY GroupLimits
<1>2. PICK v \in Seq(Nat) : v = Actives(s)
  BY Counted
<1>3. PICK w \in Seq(Nat) : w = Connecteds(s)
  BY Counted
<1>4. DOMAIN w = DOMAIN v /\ \A k \in DOMAIN v : w[k] =< v[k]
  BY <1>2, <1>3, Counted
<1>5. Loads(v, c, n) # {}
  BY <1>1, <1>2 DEF Seats
<1>6. Loads(w, c, n) # {}
  BY <1>4, <1>5, LoadsSmaller
<1>7. ActiveSizes(s) = Present(v) /\ ConnectedSizes(s) = Present(w)
  BY <1>2, <1>3 DEF ActiveSizes, ConnectedSizes, Actives, Connecteds
<1> QED
  BY <1>1, <1>5, <1>6, <1>7, RecommendedSeats

-----------------------------------------------------------------------------
(* Every commit leaves the tables of one moment                            *)

LEMMA EnqueueMoment ==
    ASSUME OneMoment(db), NEW n \in 1..Group.teamSize, Enqueue(n) PROVE OneMoment(db')
<1>1. db' = [db EXCEPT !.queue = Append(@, n)]
  BY DEF Enqueue, Commit
<1>2. n \in Nat
  OBVIOUS
<1>3. Append(db.queue, n) \in Seq(Nat)
  BY <1>2, AppendProperties DEF OneMoment, Columns
<1> QED
  BY <1>1, <1>3 DEF OneMoment, Columns, Agrees

\* Tickets some of whose players change their state.
LEMMA TicketsTyped ==
    ASSUME NEW s \in Seq(TicketRow), NEW t, t = [k \in DOMAIN s |-> t[k]],
           \A k \in DOMAIN s : t[k] \in TicketRow
    PROVE  t \in Seq(TicketRow) /\ DOMAIN t = DOMAIN s
<1>1. DOMAIN s = 1..Len(s) /\ Len(s) \in Nat
  OBVIOUS
<1>2. t \in [1..Len(s) -> TicketRow]
  BY <1>1
<1> QED
  BY <1>1, <1>2

\* A ticket some of whose players change their state.
LEMMA TicketRows ==
    ASSUME NEW x \in TicketRow
    PROVE  /\ [x EXCEPT !.selected = 0, !.moving = @ + x.selected] \in TicketRow
           /\ [x EXCEPT !.moving = 0] \in TicketRow
           /\ [x EXCEPT !.moving = 0, !.selected = @ + x.moving] \in TicketRow
           /\ [x EXCEPT !.moving = 0, !.selected = @ + x.moving].moving = 0
           /\ Active([x EXCEPT !.selected = 0, !.moving = @ + x.selected]) = Active(x)
           /\ Active([x EXCEPT !.moving = 0]) =< Active(x)
           /\ Active([x EXCEPT !.moving = 0, !.selected = @ + x.moving]) = Active(x)
<1>1. PICK a \in Nat, b \in Nat, c \in Nat :
            x = [selected |-> a, moving |-> b, connected |-> c]
  BY DEF TicketRow
<1>2. /\ x.selected = a /\ x.moving = b /\ a + b \in Nat /\ b + a \in Nat
  BY <1>1
<1>3. [x EXCEPT !.selected = 0, !.moving = @ + x.selected] =
        [selected |-> 0, moving |-> b + a, connected |-> c]
  <2>1. [x EXCEPT !.selected = 0] = [selected |-> 0, moving |-> b, connected |-> c]
    BY <1>1
  <2>2. [[selected |-> 0, moving |-> b, connected |-> c] EXCEPT !.moving = b + a] =
            [selected |-> 0, moving |-> b + a, connected |-> c]
    OBVIOUS
  <2> QED
    BY <1>2, <2>1, <2>2
<1>4. [x EXCEPT !.moving = 0] = [selected |-> a, moving |-> 0, connected |-> c]
  BY <1>1
<1>5. [x EXCEPT !.moving = 0, !.selected = @ + x.moving] =
        [selected |-> a + b, moving |-> 0, connected |-> c]
  <2>1. [[selected |-> a, moving |-> 0, connected |-> c] EXCEPT !.selected = a + b] =
            [selected |-> a + b, moving |-> 0, connected |-> c]
    OBVIOUS
  <2> QED
    BY <1>2, <1>4, <2>1
<1>6. Active(x) = a + b + c
  BY <1>1 DEF Active
<1>7. /\ Active([selected |-> 0, moving |-> b + a, connected |-> c]) = Active(x)
      /\ Active([selected |-> a + b, moving |-> 0, connected |-> c]) = Active(x)
      /\ Active([selected |-> a, moving |-> 0, connected |-> c]) = a + c
  BY <1>6 DEF Active
<1>8. a + c =< a + b + c
  OBVIOUS
<1> QED
  BY <1>1, <1>2, <1>3, <1>4, <1>5, <1>6, <1>7, <1>8 DEF TicketRow

LEMMA AllMoveTyped ==
    ASSUME NEW s \in Seq(TicketRow)
    PROVE  /\ AllMove(s) \in Seq(TicketRow)
           /\ Seats(s) => Seats(AllMove(s))
<1>1. \A k \in DOMAIN s : s[k] \in TicketRow
  OBVIOUS
<1>2. \A k \in DOMAIN s : /\ AllMove(s)[k] \in TicketRow
                          /\ Active(AllMove(s)[k]) = Active(s[k])
  BY <1>1, TicketRows DEF AllMove
<1>3. AllMove(s) = [k \in DOMAIN s |-> AllMove(s)[k]]
  BY DEF AllMove
<1>4. AllMove(s) \in Seq(TicketRow) /\ DOMAIN AllMove(s) = DOMAIN s
  BY <1>2, <1>3, TicketsTyped
<1>5. \A k \in DOMAIN s : Active(AllMove(s)[k]) =< Active(s[k])
  BY <1>1, <1>2, RowCounts
<1> QED
  BY <1>4, <1>5, SeatsKept

LEMMA NoneMovesTyped ==
    ASSUME NEW s \in Seq(TicketRow)
    PROVE  /\ NoneMoves(s) \in Seq(TicketRow)
           /\ Seats(s) => Seats(NoneMoves(s))
<1>1. \A k \in DOMAIN s : s[k] \in TicketRow
  OBVIOUS
<1>2. \A k \in DOMAIN s : /\ NoneMoves(s)[k] \in TicketRow
                          /\ Active(NoneMoves(s)[k]) =< Active(s[k])
  BY <1>1, TicketRows DEF NoneMoves
<1>3. NoneMoves(s) = [k \in DOMAIN s |-> NoneMoves(s)[k]]
  BY DEF NoneMoves
<1>4. NoneMoves(s) \in Seq(TicketRow) /\ DOMAIN NoneMoves(s) = DOMAIN s
  BY <1>2, <1>3, TicketsTyped
<1> QED
  BY <1>2, <1>4, SeatsKept

LEMMA SelectedAgainTyped ==
    ASSUME NEW s \in Seq(TicketRow)
    PROVE  /\ SelectedAgain(s) \in Seq(TicketRow) /\ NobodyMoving(SelectedAgain(s))
           /\ Seats(s) => Seats(SelectedAgain(s))
<1>1. \A k \in DOMAIN s : s[k] \in TicketRow
  OBVIOUS
<1>2. \A k \in DOMAIN s : /\ SelectedAgain(s)[k] \in TicketRow
                          /\ SelectedAgain(s)[k].moving = 0
                          /\ Active(SelectedAgain(s)[k]) = Active(s[k])
  BY <1>1, TicketRows DEF SelectedAgain
<1>3. SelectedAgain(s) = [k \in DOMAIN s |-> SelectedAgain(s)[k]]
  BY DEF SelectedAgain
<1>4. SelectedAgain(s) \in Seq(TicketRow) /\ DOMAIN SelectedAgain(s) = DOMAIN s
  BY <1>2, <1>3, TicketsTyped
<1>5. \A k \in DOMAIN s : Active(SelectedAgain(s)[k]) =< Active(s[k])
  BY <1>1, <1>2, RowCounts
<1>6. NobodyMoving(SelectedAgain(s))
  BY <1>2, <1>4 DEF NobodyMoving
<1> QED
  BY <1>4, <1>5, <1>6, SeatsKept

\* Everybody selected is on the way to an instance that is reserved.
LEMMA TransferMoment ==
    ASSUME NEW d, OneMoment(d), d.life = "RUNNING"
    PROVE  OneMoment(StartSessionTransfers(d))
<1>1. AllMove(d.tickets) \in Seq(TicketRow) /\ Seats(AllMove(d.tickets))
  BY AllMoveTyped DEF OneMoment, Columns
<1> DEFINE e == StartSessionTransfers(d)
<1>3. /\ DOMAIN e = DOMAIN d
      /\ e.queue = d.queue /\ e.tickets = AllMove(d.tickets) /\ e.session = "TRANSFERRING"
      /\ e.holds = TRUE /\ e.owned = TRUE /\ e.life = d.life /\ e.recovers = d.recovers
      /\ e.layers = d.layers /\ e.revision = d.revision
  BY DEF StartSessionTransfers, OneMoment, Columns
<1> HIDE DEF e
<1>4. Columns(e)
  BY <1>1, <1>3 DEF OneMoment, Columns
<1>5. Agrees(e)
  BY <1>3 DEF OneMoment, Agrees, Held
<1>6. Seats(e.tickets)
  BY <1>1, <1>3
<1> QED
  BY <1>4, <1>5, <1>6 DEF OneMoment, e

\* The tables after a change of the tickets or the queue alone.
LEMMA SameSession ==
    ASSUME OneMoment(db), NEW d, Columns(d), Seats(d.tickets),
           d.session = db.session, d.holds = db.holds, d.life = db.life,
           d.owned = db.owned, d.recovers = db.recovers,
           d.layers = db.layers, d.revision = db.revision,
           NobodyMoving(db.tickets) => d.holds \/ NobodyMoving(d.tickets)
    PROVE  OneMoment(d)
BY DEF OneMoment, Agrees

LEMMA AttachMoment ==
    ASSUME OneMoment(db), AttachTicket PROVE OneMoment(db')
<1> DEFINE n == Head(db.queue)
           joined == Append(db.tickets, Ticket(n, 0))
           arriving == Append(db.tickets, Ticket(0, n))
           taken == [db EXCEPT !.queue = Tail(@), !.tickets = joined]
<1>1. n \in Nat /\ Tail(db.queue) \in Seq(Nat)
  BY HeadTailProperties DEF AttachTicket, OneMoment, Columns
<1>2. joined \in Seq(TicketRow) /\ arriving \in Seq(TicketRow)
  BY <1>1, TicketType, AppendProperties DEF OneMoment, Columns
<1>3. NobodyMoving(db.tickets) => NobodyMoving(joined)
  BY <1>1, AppendStill DEF OneMoment, Columns
<1>s. Seats(joined) /\ Seats(arriving)
  <2>0. CanPlace(ActiveSizes(db.tickets), n, Group)
    BY DEF AttachTicket
  <2>1. db.tickets \in Seq(TicketRow)
    BY DEF OneMoment, Columns
  <2>2. /\ Ticket(n, 0) \in TicketRow /\ Active(Ticket(n, 0)) = n
        /\ Ticket(0, n) \in TicketRow /\ Active(Ticket(0, n)) = n
    <3>1. ASSUME NEW x \in Nat
          PROVE  /\ Ticket(x, 0) \in TicketRow /\ Active(Ticket(x, 0)) = x
                 /\ Ticket(0, x) \in TicketRow /\ Active(Ticket(0, x)) = x
      BY DEF Ticket, TicketRow, Active
    <3> HIDE DEF n
    <3> QED
      BY <1>1, <3>1
  <2> HIDE DEF n
  <2> QED
    BY <1>1, <2>0, <2>1, <2>2, SeatsAppend
<1>4. /\ DOMAIN taken = DOMAIN db
      /\ taken.queue = Tail(db.queue) /\ taken.tickets = joined
      /\ taken.session = db.session /\ taken.holds = db.holds /\ taken.life = db.life
      /\ taken.owned = db.owned /\ taken.recovers = db.recovers
      /\ taken.layers = db.layers /\ taken.revision = db.revision
  BY DEF OneMoment, Columns
<1>5. \/ db' = [taken EXCEPT !.tickets = arriving, !.pending = TRUE] /\ db.holds
      \/ db' = StartSessionTransfers(taken) /\ Reservable
      \/ /\ db' \in {[taken EXCEPT !.session = "WAITING_FOR_INSTANCE"],
                     [taken EXCEPT !.session = "FORMING"]}
         /\ db.session \notin Held
      \/ db' = taken
  <2> DEFINE forming == db.session \in {"NONE", "FORMING"}
             eligible == IsExpectedStartEligible(ActiveSizes(taken.tickets), Group)
             rows ==
                CASE db.holds -> [taken EXCEPT !.tickets = arriving, !.pending = TRUE]
                  [] forming /\ eligible /\ Reservable -> StartSessionTransfers(taken)
                  [] forming /\ eligible /\ ~ Reservable ->
                        [taken EXCEPT !.session = "WAITING_FOR_INSTANCE"]
                  [] forming /\ ~ eligible -> [taken EXCEPT !.session = "FORMING"]
                  [] OTHER -> taken
  <2>1. db' = rows
    BY DEF AttachTicket, Commit
  <2>2. forming => db.session \notin Held /\ ~ db.holds
    BY DEF Held, OneMoment, Agrees
  <2> HIDE DEF n, joined, arriving, taken, forming, eligible
  <2> QED
    BY <2>1, <2>2
<1> HIDE DEF n, joined, arriving, taken
<1>6. OneMoment(taken)
  <2>1. Columns(taken)
    BY <1>1, <1>2, <1>4 DEF OneMoment, Columns
  <2>2. Seats(taken.tickets)
    BY <1>4, <1>s
  <2> QED
    BY <1>3, <1>4, <2>1, <2>2, SameSession
<1>7. CASE db' = [taken EXCEPT !.tickets = arriving, !.pending = TRUE] /\ db.holds
  <2>1. Columns(db')
    BY <1>2, <1>6, <1>7 DEF OneMoment, Columns
  <2>2. db'.tickets = arriving
    BY <1>6, <1>7 DEF OneMoment, Columns
  <2>3. Seats(db'.tickets)
    BY <1>s, <2>2
  <2> QED
    BY <1>4, <1>6, <1>7, <2>1, <2>3 DEF OneMoment, Columns, Agrees
<1>8. CASE db' = StartSessionTransfers(taken) /\ Reservable
  BY <1>4, <1>6, <1>8, TransferMoment DEF Reservable
<1>9. CASE /\ db' \in {[taken EXCEPT !.session = "WAITING_FOR_INSTANCE"],
                       [taken EXCEPT !.session = "FORMING"]}
           /\ db.session \notin Held
  <2>1. db'.session \notin Held /\ Columns(db')
    BY <1>6, <1>9 DEF OneMoment, Columns, Held
  <2>2. taken.session \notin Held
    BY <1>4, <1>9
  <2> QED
    BY <1>6, <1>9, <2>1, <2>2 DEF OneMoment, Columns, Agrees, Held
<1> QED
  BY <1>5, <1>6, <1>7, <1>8, <1>9

LEMMA AssignMoment ==
    ASSUME OneMoment(db), AssignWaiting PROVE OneMoment(db')
<1>1. \/ db' = StartSessionTransfers(db) /\ db.life = "RUNNING"
      \/ db' = [db EXCEPT !.session = "FORMING"]
  BY DEF AssignWaiting, Commit, Reservable
<1>2. CASE db' = [db EXCEPT !.session = "FORMING"]
  BY <1>2 DEF AssignWaiting, OneMoment, Columns, Agrees, Held
<1> QED
  BY <1>1, <1>2, TransferMoment

\* One player of one ticket.
LEMMA PlayerMoment ==
    ASSUME OneMoment(db), NEW k \in DOMAIN db.tickets,
           PlayerJoined(k) \/ PlayerLeft(k) \/ ExpireTransfers(k)
    PROVE  OneMoment(db')
<1> DEFINE x == db.tickets[k]
<1>1. db.tickets \in Seq(TicketRow) /\ x \in TicketRow
  BY DEF OneMoment, Columns
<1>2. PICK y \in TicketRow :
        /\ db' = [db EXCEPT !.tickets = [db.tickets EXCEPT ![k] = y]]
        /\ x.moving = 0 => y.moving = 0
        /\ Active(y) =< Active(x)
  <2>1. PICK a \in Nat, b \in Nat, c \in Nat :
            x = [selected |-> a, moving |-> b, connected |-> c]
    BY <1>1 DEF TicketRow
  <2>2. CASE PlayerJoined(k)
    <3> DEFINE y == [selected |-> a, moving |-> b - 1, connected |-> c + 1]
    <3>1. b # 0 /\ y \in TicketRow
      BY <2>1, <2>2 DEF PlayerJoined, TicketRow
    <3>2. db' = [db EXCEPT !.tickets = [db.tickets EXCEPT ![k] = y]]
      <4> DEFINE z == [x EXCEPT !.moving = x.moving - 1]
                 left == [db EXCEPT !.tickets = [db.tickets EXCEPT ![k] = z]]
                 came == [left.tickets[k] EXCEPT
                            !.connected = left.tickets[k].connected + 1]
      <4>1. db' = [left EXCEPT !.tickets = [left.tickets EXCEPT ![k] = came]]
        BY <2>2 DEF PlayerJoined, Commit
      <4>2. z = [selected |-> a, moving |-> b - 1, connected |-> c]
        BY <2>1
      <4> HIDE DEF z
      <4>3. left.tickets = [db.tickets EXCEPT ![k] = z] /\ left.tickets[k] = z
        BY DEF OneMoment, Columns
      <4>4. came = y
        BY <4>2, <4>3
      <4> HIDE DEF y, came
      <4>5. [left.tickets EXCEPT ![k] = came] = [db.tickets EXCEPT ![k] = y]
        BY <4>3, <4>4
      <4> DEFINE t == [db.tickets EXCEPT ![k] = y]
      <4>6. [left EXCEPT !.tickets = t] = [db EXCEPT !.tickets = t]
        OBVIOUS
      <4> QED
        BY <4>1, <4>5, <4>6
    <3>3. Active(y) = Active(x) /\ Active(x) \in Nat
      BY <2>1, <3>1 DEF Active
    <3> QED
      BY <2>1, <3>1, <3>2, <3>3
  <2>3. CASE PlayerLeft(k)
    <3> DEFINE y == [x EXCEPT !.connected = x.connected - 1]
    <3>1. y = [selected |-> a, moving |-> b, connected |-> c - 1]
      BY <2>1
    <3>2. y \in TicketRow /\ y.moving = x.moving
      BY <2>1, <2>3, <3>1 DEF PlayerLeft, TicketRow
    <3>3. db' = [db EXCEPT !.tickets = [db.tickets EXCEPT ![k] = y]]
      BY <2>3 DEF PlayerLeft, Commit
    <3>4. Active(y) =< Active(x)
      BY <2>1, <3>1 DEF Active
    <3> QED
      BY <3>2, <3>3, <3>4
  <2>4. CASE ExpireTransfers(k)
    <3> DEFINE y == [x EXCEPT !.moving = 0]
    <3>1. y = [selected |-> a, moving |-> 0, connected |-> c]
      BY <2>1
    <3>2. y \in TicketRow /\ y.moving = 0
      BY <3>1 DEF TicketRow
    <3>3. db' = [db EXCEPT !.tickets = [db.tickets EXCEPT ![k] = y]]
      BY <2>4 DEF ExpireTransfers, Commit
    <3>4. Active(y) =< Active(x)
      BY <2>1, <3>1 DEF Active
    <3> QED
      BY <3>2, <3>3, <3>4
  <2> QED
    BY <2>2, <2>3, <2>4
<1> DEFINE t == [db.tickets EXCEPT ![k] = y]
<1>3. t \in Seq(TicketRow)
  BY <1>1, <1>2
<1>4. NobodyMoving(db.tickets) => NobodyMoving(t)
  BY <1>1, <1>2 DEF NobodyMoving
<1>5. db' = [db EXCEPT !.tickets = t]
  BY <1>2
<1>s. Seats(t)
  <2>1. DOMAIN t = DOMAIN db.tickets
    BY <1>1
  <2>2. ASSUME NEW j \in DOMAIN db.tickets PROVE Active(t[j]) =< Active(db.tickets[j])
    <3>1. CASE j = k
      BY <1>1, <1>2, <3>1
    <3>2. CASE j # k
      <4>1. t[j] = db.tickets[j] /\ db.tickets[j] \in TicketRow
        BY <1>1, <3>2
      <4> QED
        BY <4>1, RowCounts
    <3> QED
      BY <3>1, <3>2
  <2>3. Seats(db.tickets)
    BY DEF OneMoment
  <2> HIDE DEF t
  <2> QED
    BY <1>1, <1>3, <2>1, <2>2, <2>3, SeatsKept
<1> HIDE DEF t
<1>6. Columns(db') /\ db'.tickets = t
  BY <1>3, <1>5 DEF OneMoment, Columns
<1>7. Seats(db'.tickets)
  BY <1>6, <1>s
<1> QED
  BY <1>4, <1>5, <1>6, <1>7, SameSession DEF OneMoment, Columns, Agrees

LEMMA GameMoment ==
    ASSUME OneMoment(db), CloseTransfer \/ GameStarting \/ GameFinished
    PROVE  OneMoment(db')
<1>1. CASE CloseTransfer
  BY <1>1 DEF CloseTransfer, Commit, OneMoment, Columns, Agrees
<1>2. CASE GameStarting
  <2>1. NoneMoves(db.tickets) \in Seq(TicketRow) /\ Seats(NoneMoves(db.tickets))
    BY NoneMovesTyped DEF OneMoment, Columns
  <2>2. db' = [db EXCEPT !.session = "STARTING", !.pending = FALSE,
                         !.tickets = NoneMoves(db.tickets)]
    BY <1>2 DEF GameStarting, Commit, OneMoment, Columns
  <2>3. /\ DOMAIN db' = DOMAIN db /\ db'.queue = db.queue
        /\ db'.tickets = NoneMoves(db.tickets) /\ db'.session = "STARTING"
        /\ db'.holds = db.holds /\ db'.owned = db.owned /\ db'.life = db.life
        /\ db'.recovers = db.recovers
        /\ db'.layers = db.layers /\ db'.revision = db.revision
    BY <2>2 DEF OneMoment, Columns
  <2>4. db.session = "TRANSFERRING" /\ db.life = "RUNNING"
    BY <1>2 DEF GameStarting
  <2> QED
    BY <2>1, <2>3, <2>4 DEF OneMoment, Columns, Agrees, Held
<1>3. CASE GameFinished
  BY <1>3 DEF GameFinished, Commit, OneMoment, Columns, Agrees, Held
<1> QED
  BY <1>1, <1>2, <1>3

LEMMA LifeMoment ==
    ASSUME OneMoment(db), NextLife \/ FailInstance PROVE OneMoment(db')
<1>1. CASE NextLife
  BY <1>1 DEF NextLife, Commit, OneMoment, Columns, Agrees, Held
<1>2. CASE FailInstance
  BY <1>2 DEF FailInstance, Commit, OneMoment, Columns, Agrees
<1> QED
  BY <1>1, <1>2

LEMMA RecoveryMoment ==
    ASSUME OneMoment(db), CancelForInstance \/ RecoverSession \/ FailSession
    PROVE  OneMoment(db')
<1>1. CASE CancelForInstance
  BY <1>1 DEF CancelForInstance, Commit, OneMoment, Columns, Agrees
<1>2. CASE RecoverSession
  <2>1. /\ SelectedAgain(db.tickets) \in Seq(TicketRow)
        /\ NobodyMoving(SelectedAgain(db.tickets))
        /\ Seats(SelectedAgain(db.tickets))
    BY SelectedAgainTyped DEF OneMoment, Columns
  <2>2. /\ DOMAIN db' = DOMAIN db /\ db'.queue = db.queue
        /\ db'.tickets = SelectedAgain(db.tickets)
        /\ db'.session = "WAITING_FOR_INSTANCE"
        /\ db'.holds = FALSE /\ db'.owned = db.owned /\ db'.life = db.life
        /\ db'.recovers = FALSE
        /\ db'.layers = db.layers /\ db'.revision = db.revision
    BY <1>2 DEF RecoverSession, Commit, OneMoment, Columns
  <2>3. db.life = "FAILED"
    BY <1>2 DEF RecoverSession, OneMoment, Agrees
  <2> QED
    BY <2>1, <2>2, <2>3 DEF OneMoment, Columns, Agrees, Held
<1>3. CASE FailSession
  BY <1>3 DEF FailSession, Commit, OneMoment, Columns, Agrees, Held
<1> QED
  BY <1>1, <1>2, <1>3

LEMMA VariantMoment ==
    ASSUME OneMoment(db),
           \/ SynchronizeVariant \/ BlockRevision
           \/ \E r \in Revisions : CompleteReset(r)
           \/ \E r \in posts : RequestReset(r)
           \/ \E tps \in Tps : RecordTps(tps)
           \/ Prune
    PROVE  OneMoment(db')
<1>1. CASE SynchronizeVariant
  BY <1>1 DEF SynchronizeVariant, Commit, OneMoment, Columns, Agrees
<1>2. CASE BlockRevision \/ \E r \in Revisions : CompleteReset(r)
  BY <1>2 DEF BlockRevision, CompleteReset, Commit, OneMoment, Columns, Agrees
<1>3. CASE \E r \in posts : RequestReset(r)
  BY <1>3 DEF RequestReset, ResetRequested, OneMoment, Columns, Agrees
<1>4. CASE \E tps \in Tps : RecordTps(tps)
  BY <1>4 DEF RecordTps, OneMoment, Columns, Agrees
<1>5. CASE Prune
  BY <1>5 DEF Prune, Commit, OneMoment, Columns, Agrees
<1> QED
  BY <1>1, <1>2, <1>3, <1>4, <1>5

LEMMA CommitMoment == ASSUME OneMoment(db), Commits PROVE OneMoment(db')
BY EnqueueMoment, AttachMoment, AssignMoment, PlayerMoment, GameMoment, LifeMoment,
   RecoveryMoment, VariantMoment DEF Commits

-----------------------------------------------------------------------------
(* Answers put together from the rows of one moment                        *)

\* The cluster: an instance that counts as reserved is one whose session, listed
\* because the instance is kept for it, holds it.
LEMMA ClusterAnswer ==
    ASSUME NEW d, OneMoment(d), page \in {"cluster", "overview"},
           NEW p, p = GetCluster(d, d)
    PROVE  p.page = page /\ ClusterAdds(p)
<1>1. /\ p.page = page
      /\ p.host.active = One(IsActive(d.life))
      /\ p.sessions = IF Listed(d) THEN {ToSession(d)} ELSE {}
      /\ p.capacity.active = One(IsActive(d.life))
      /\ p.capacity.warm = One(d.life = "RUNNING" /\ ~ d.owned)
      /\ p.capacity.pendingWarm = One(d.life \in {"CREATING", "STARTING"} /\ ~ d.owned)
      /\ p.capacity.reserved = One(IsActive(d.life) /\ d.owned)
  BY DEF GetCluster, ReadClusterRows, AssembleClusterSnapshot, Capacity, ToHost,
         ToInstance
<1>2. ToSession(d).holds = d.holds
  BY DEF ToSession
<1>3. /\ IsActive(d.life) /\ d.owned => d.holds /\ Listed(d)
      /\ d.holds => d.owned
  BY DEF OneMoment, Agrees, Held, IsActive, Listed
<1>4. d.life = "DRAINING" => d.owned
  BY DEF OneMoment, Agrees
<1>5. p.capacity.reserved = 1 <=>
            p.capacity.active = 1 /\ \E s \in p.sessions : s.holds
  BY <1>1, <1>2, <1>3 DEF One
<1>6. p.host.active = p.capacity.warm + p.capacity.pendingWarm + p.capacity.reserved
  BY <1>1, <1>4 DEF One, IsActive
<1> QED
  BY <1>1, <1>5, <1>6 DEF ClusterAdds

LEMMA LimitType == Limit \in Nat \ {0}
BY ConsoleAssumption DEF Limit

LEMMA QueueAnswer ==
    ASSUME NEW d, OneMoment(d), NEW p, p = GetQueue(d, d)
    PROVE  p.page = "queue" /\ QueueAdds(p)
<1> DEFINE n == Len(d.queue)
           shown == SubSeq(d.queue, 1, IF n < Limit THEN n ELSE Limit)
<1>1. d.queue \in Seq(Nat) /\ n \in Nat
  BY DEF OneMoment, Columns
<1>2. /\ p.page = "queue" /\ p.total = QueueSummary(d.queue) /\ p.entries = shown
      /\ p.truncated = (n > Len(shown)) /\ p.total.parties = n
  BY DEF GetQueue, QueueSummary
<1>3. Len(shown) = IF n < Limit THEN n ELSE Limit
  <2>1. \A m \in 0..n : Len(SubSeq(d.queue, 1, m)) = m
    BY <1>1, SubSeqProperties
  <2> QED
    BY <1>1, <2>1, LimitType
<1>4. n <= Limit => shown = d.queue
  BY <1>1, SubSeqFull, LimitType
<1> HIDE DEF shown, n
<1>5. CASE n > Limit
  <2>1. Len(shown) = Limit /\ n > Len(shown)
    BY <1>1, <1>3, <1>5, LimitType
  <2>2. p.truncated
    BY <1>2, <2>1
  <2> QED
    BY <1>2, <1>5, <2>1, <2>2 DEF QueueAdds
<1>6. CASE n <= Limit
  <2>1. ~ (n > Len(shown))
    BY <1>1, <1>3, <1>6, LimitType
  <2>2. ~ p.truncated
    BY <1>2, <2>1
  <2> QED
    BY <1>2, <1>4, <1>6, <2>2 DEF QueueAdds
<1> QED
  BY <1>1, <1>2, <1>5, <1>6, LimitType

LEMMA VariantsAnswer ==
    ASSUME NEW d, OneMoment(d), NEW p, p = GetVariants(d, d)
    PROVE  p.page = "variants" /\ p.layers = p.variant.revision
BY DEF GetVariants, ToVariant, OneMoment, Agrees

LEMMA InstanceAnswer ==
    ASSUME NEW d, OneMoment(d), NEW p, p = GetInstance(d, d)
    PROVE  /\ p.page = "instance"
           /\ p.instance.owned /\ p.instance.life # "FAILED" => \E s \in p.session : s.holds
<1>1. /\ p.page = "instance" /\ p.instance.owned = d.owned /\ p.instance.life = d.life
      /\ p.session = IF d.owned THEN ReadSessionRows(d) ELSE {}
  BY DEF GetInstance, ToInstance
<1>2. ASSUME d.owned, d.life # "FAILED" PROVE \E s \in p.session : s.holds
  <2>1. d.holds /\ d.session # "NONE"
    BY <1>2 DEF OneMoment, Agrees, Held
  <2>2. p.session = {ToSession(d)} /\ ToSession(d).holds = d.holds
    BY <1>1, <1>2, <2>1 DEF ReadSessionRows, ToSession
  <2> QED
    BY <2>1, <2>2
<1> QED
  BY <1>1, <1>2

\* A session that begins shows no deadline any more, and its profiles seat the
\* players of its header.
LEMMA SessionAnswer ==
    ASSUME NEW d, OneMoment(d), NEW p, p = GetSession(d, d)
    PROVE  p = NoPayload \/ (p.page = "session" /\ SessionAdds(p))
<1>1. CASE ReadSessionRows(d) # {}
  <2>1. /\ p.page = "session" /\ p.session = ToSession(d) /\ p.tickets = d.tickets
        /\ p.deadline = ActiveSessionDeadline(d.session, d)
        /\ p.expected = Recommended(ActiveSizes(d.tickets))
        /\ p.connected = Recommended(ConnectedSizes(d.tickets))
    BY <1>1 DEF GetSession
  <2>2. /\ p.session.active = Total(ActiveSizes(d.tickets))
        /\ p.session.connected = Total(ConnectedSizes(d.tickets))
        /\ p.session.holds = d.holds /\ p.session.state = d.session
    BY <2>1 DEF ToSession
  <2>3. d.session = "STARTING" => ActiveSessionDeadline(d.session, d) = "none"
    BY DEF ActiveSessionDeadline
  <2>4. d.tickets \in Seq(TicketRow) /\ Seats(d.tickets)
    BY DEF OneMoment, Columns
  <2>5. /\ Total(Recommended(ActiveSizes(d.tickets))) = Total(ActiveSizes(d.tickets))
        /\ Total(Recommended(ConnectedSizes(d.tickets))) = Total(ConnectedSizes(d.tickets))
    BY <2>4, SeatsShown
  <2>6. d.holds \/ NobodyMoving(d.tickets)
    BY DEF OneMoment, Agrees
  <2> QED
    BY <2>1, <2>2, <2>3, <2>5, <2>6 DEF SessionAdds, NobodyMoving
<1> QED
  BY <1>1 DEF GetSession

-----------------------------------------------------------------------------
(* Alerts                                                                  *)

\* A set of instants with something in it has a latest one.
LEMMA LatestExists ==
    ASSUME NEW S, S \subseteq Instants, S # {}
    PROVE  \E b \in S : \A c \in S : c <= b
<1> DEFINE D == { MaxTime - b : b \in S }
<1>1. ASSUME NEW b \in S PROVE b \in Nat /\ MaxTime - b \in Nat
  BY ConsoleAssumption DEF Instants
<1>2. D \subseteq Nat /\ D # {}
  BY <1>1
<1> HIDE DEF D
<1>3. PICK d \in D : \A e \in D : <<e, d>> \notin OpToRel(<, Nat)
  BY <1>2, NatLessThanWellFounded, WFMin
<1>4. PICK b \in S : d = MaxTime - b
  BY DEF D
<1>5. ASSUME NEW c \in S PROVE c <= b
  <2>1. MaxTime - c \in D
    BY DEF D
  <2>2. ~ (MaxTime - c < d)
    BY <1>2, <1>3, <2>1 DEF OpToRel
  <2> QED
    BY <1>1, <1>4, <2>2, ConsoleAssumption
<1> QED
  BY <1>5

\* The bucket of an alert is one that has not been pruned: what it holds is what
\* was reported.
LEMMA SummaryAnswer ==
    ASSUME now \in Nat, SamplesInv, NEW p, p = GetSummary(db)
    PROVE  /\ p.page = "alerts" /\ p.at = now /\ p.alerts \subseteq Instants
           /\ \A b \in p.alerts : recorded[b].sum < Threshold * recorded[b].count
<1> DEFINE recent == { b \in Instants : b >= now - Stale /\ db.metrics[b].count > 0 }
           latest == CHOOSE b \in recent : \A c \in recent : c =< b
           alerting == { b \in {latest} :
                            db.metrics[b].sum < Threshold * db.metrics[b].count }
<1>1. p = [page |-> "alerts", at |-> now,
           alerts |-> IF recent = {} THEN {} ELSE alerting]
  BY DEF GetSummary
<1>2. ASSUME recent # {} PROVE latest \in recent
  <2>1. \E b \in recent : \A c \in recent : c <= b
    BY <1>2, LatestExists
  <2> QED
    BY <2>1
<1>3. \A b \in recent : b \in Instants /\ db.metrics[b] = recorded[b]
  <2>1. NoSamples.count = 0
    BY DEF NoSamples
  <2> QED
    BY <2>1 DEF SamplesInv
<1> HIDE DEF recent, latest
<1>4. \A b \in p.alerts : /\ b \in Instants /\ db.metrics[b] = recorded[b]
                          /\ db.metrics[b].sum < Threshold * db.metrics[b].count
  BY <1>1, <1>2, <1>3
<1> QED
  BY <1>1, <1>4

-----------------------------------------------------------------------------
(* Series                                                                  *)

LEMMA BucketsFinite ==
    ASSUME NEW at, NEW q, NEW time
    PROVE  /\ IsFiniteSet(Instants) /\ Buckets(at, q) \subseteq Instants
           /\ IsFiniteSet(Buckets(at, q)) /\ Over(at, q, time) \in SUBSET Buckets(at, q)
           /\ IsFiniteSet(Over(at, q, time))
<1>1. IsFiniteSet(Instants)
  <2>1. 0 \in Int /\ MaxTime \in Int
    BY ConsoleAssumption
  <2> QED
    BY <2>1, FS_Interval DEF Instants
<1>2. Buckets(at, q) \in SUBSET Instants /\ Over(at, q, time) \in SUBSET Buckets(at, q)
  BY DEF Buckets, Over, InRange
<1>3. IsFiniteSet(Buckets(at, q))
  BY <1>1, <1>2, FS_Subset
<1>4. IsFiniteSet(Over(at, q, time))
  BY <1>2, <1>3, FS_Subset
<1> QED
  BY <1>1, <1>2, <1>3, <1>4

\* SumOver counts what the proofs sum.
LEMMA SumOverCount ==
    ASSUME NEW samples, \A b \in Instants : samples[b].count \in Nat,
           NEW S \in SUBSET Instants, IsFiniteSet(S)
    PROVE  SumOver(samples, S).count = SumOf(Counts(samples), S)
<1> DEFINE w == Counts(samples)
           pick == [T \in SUBSET S |-> CHOOSE x \in T : TRUE]
           It(iter) == iter = [T \in SUBSET S |-> IF T = {} THEN 0
                ELSE iter[T \ {CHOOSE x \in T : TRUE}] + samples[CHOOSE x \in T : TRUE].count]
<1>1. Weights(w, S)
  BY DEF Weights, Counts
<1>2. Picks(pick, S)
  BY DEF Picks
<1>3. SumOver(samples, S).count = (CHOOSE iter : It(iter))[S]
  BY DEF SumOver, FoldSet, MapThenFoldSet
<1>4. ASSUME NEW T \in SUBSET S, T # {}
      PROVE  /\ pick[T] = CHOOSE x \in T : TRUE
             /\ w[pick[T]] = samples[CHOOSE x \in T : TRUE].count
  <2>1. (CHOOSE x \in T : TRUE) \in T
    BY <1>4
  <2> QED
    BY <2>1 DEF Counts
<1>5. ASSUME NEW iter PROVE It(iter) <=> Folded(iter, w, S, pick)
  <2> HIDE DEF w, pick
  <2>1. [T \in SUBSET S |-> IF T = {} THEN 0
            ELSE iter[T \ {CHOOSE x \in T : TRUE}] + samples[CHOOSE x \in T : TRUE].count]
        = [T \in SUBSET S |-> IF T = {} THEN 0 ELSE iter[T \ {pick[T]}] + w[pick[T]]]
    BY <1>4
  <2> QED
    BY <2>1 DEF Folded
<1>6. (CHOOSE iter : It(iter)) = CHOOSE iter : Folded(iter, w, S, pick)
  <2> HIDE DEF It
  <2> QED BY <1>5
<1> HIDE DEF It, w, pick
<1>7. (CHOOSE iter : Folded(iter, w, S, pick))[S] = SumOf(w, S)
  BY <1>1, <1>2, ChosenFold
<1> QED
  BY <1>3, <1>6, <1>7 DEF w

LEMMA CountsNat ==
    ASSUME NEW samples, \A b \in Instants : samples[b].count \in Nat,
           NEW S \in SUBSET Instants
    PROVE  /\ \A b \in S : Counts(samples)[b] \in Nat /\ Counts(samples)[b] = samples[b].count
           /\ Weights(Counts(samples), S)
BY DEF Counts, Weights

\* What samples of two moments have in common, of which the first is at an instant:
\* nothing is taken away and what is over is not changed any more.
Later(old, samples, time) ==
    \A b \in Instants :
        /\ old[b].count \in Nat /\ samples[b].count \in Nat
        /\ old[b].count =< samples[b].count
        /\ b < time => samples[b] = old[b]

\* The points of a series are counted from buckets none of which is pruned while its
\* unit is kept.
LEMMA SeriesAnswer ==
    ASSUME now \in Nat, SamplesInv, NEW at \in 0..now, NEW p, p = GetGroupSeries(at, db)
    PROVE  p.page = "monitoring" /\ SeriesOf(p, recorded, now)
<1>1. /\ p.page = "monitoring" /\ p.at = at
      /\ \A q \in DOMAIN p.points : p.points[q] = SumOver(db.metrics, Buckets(at, q))
  BY DEF GetGroupSeries, Buckets
<1>2. /\ \A b \in Instants : recorded[b].count \in Nat /\ db.metrics[b].count \in Nat
      /\ \A b \in Instants : db.metrics[b].count =< recorded[b].count
      /\ \A b \in Instants : b >= now - Retention => db.metrics[b] = recorded[b]
  <2>1. NoSamples.count = 0
    BY DEF NoSamples
  <2>2. \A b \in Instants : b \in Nat
    BY ConsoleAssumption DEF Instants
  <2> QED
    BY <2>1, <2>2 DEF SamplesInv, Retention
<1>3. ASSUME NEW q \in DOMAIN p.points
      PROVE  /\ p.points[q].count \in Nat
             /\ SumOf(Counts(recorded), Over(at, q, now)) =< p.points[q].count
             /\ p.points[q].count =< SumOf(Counts(recorded), Buckets(at, q))
  <2>1. PICK S : S = Buckets(at, q)
    OBVIOUS
  <2>2. PICK R : R = Over(at, q, now)
    OBVIOUS
  <2>3. /\ S \in SUBSET Instants /\ IsFiniteSet(S)
        /\ R \in SUBSET S /\ R \in SUBSET Instants /\ IsFiniteSet(R)
    BY <2>1, <2>2, BucketsFinite
  <2>4. PICK v : v = Counts(db.metrics)
    OBVIOUS
  <2>5. PICK w : w = Counts(recorded)
    OBVIOUS
  <2>6. p.points[q].count = SumOf(v, S)
    BY <1>1, <1>2, <2>1, <2>3, <2>4, SumOverCount
  <2>7. /\ \A b \in S : v[b] \in Nat /\ v[b] = db.metrics[b].count
        /\ Weights(v, S) /\ Weights(v, R)
    BY <1>2, <2>3, <2>4, CountsNat
  <2>8. /\ \A b \in S : w[b] \in Nat /\ w[b] = recorded[b].count
        /\ Weights(w, S) /\ Weights(w, R)
    BY <1>2, <2>3, <2>5, CountsNat
  <2>9. \A b \in S : v[b] =< w[b]
    BY <1>2, <2>3, <2>7, <2>8
  <2>10. SumOf(v, S) =< SumOf(w, S)
    BY <2>3, <2>7, <2>8, <2>9, SumMono
  <2>11. \A b \in R : v[b] = w[b]
    BY <1>2, <2>2, <2>3, <2>7, <2>8 DEF Over
  <2>12. SumOf(v, R) = SumOf(w, R)
    BY <2>3, <2>7, <2>11, SumSame
  <2>13. SumOf(v, R) =< SumOf(v, S)
    BY <2>3, <2>7, SumPart
  <2>14. SumOf(v, S) \in Nat
    BY <2>3, <2>7, SumNat
  <2> QED
    BY <2>1, <2>2, <2>5, <2>6, <2>10, <2>12, <2>13, <2>14
<1> QED
  BY <1>1, <1>3 DEF SeriesOf

\* The bounds of a series stay what they are as more samples are reported, and
\* fewer of the buckets are kept.
LEMMA SeriesKept ==
    ASSUME NEW p, NEW old, NEW time \in Nat, SeriesOf(p, old, time),
           NEW samples, NEW later \in Nat, time =< later, Later(old, samples, time)
    PROVE  SeriesOf(p, samples, later)
<1>1. p.at \in 0..time /\ p.at \in 0..later
  BY DEF SeriesOf
<1>2. PICK at \in 0..time : at = p.at
  BY <1>1
<1>3. \A b \in Instants : b \in Nat
  BY ConsoleAssumption DEF Instants
<1>4. /\ \A b \in Instants : old[b].count \in Nat /\ samples[b].count \in Nat
      /\ \A b \in Instants : old[b].count =< samples[b].count
      /\ \A b \in Instants : b < time => samples[b] = old[b]
  BY DEF Later
<1>5. ASSUME NEW q \in DOMAIN p.points
      PROVE  /\ p.points[q].count \in Nat
             /\ SumOf(Counts(samples), Over(at, q, later)) =< p.points[q].count
             /\ p.points[q].count =< SumOf(Counts(samples), Buckets(at, q))
  <2>1. PICK n : n = p.points[q].count
    OBVIOUS
  <2>2. PICK S : S = Buckets(at, q)
    OBVIOUS
  <2>3. PICK R : R = Over(at, q, time)
    OBVIOUS
  <2>4. PICK Q : Q = Over(at, q, later)
    OBVIOUS
  <2>5. /\ S \in SUBSET Instants /\ IsFiniteSet(S)
        /\ R \in SUBSET S /\ R \in SUBSET Instants /\ IsFiniteSet(R)
        /\ Q \in SUBSET S /\ Q \in SUBSET Instants /\ IsFiniteSet(Q)
    BY <2>2, <2>3, <2>4, BucketsFinite
  <2>6. PICK v : v = Counts(old)
    OBVIOUS
  <2>7. PICK w : w = Counts(samples)
    OBVIOUS
  <2>8. n \in Nat /\ SumOf(v, R) =< n /\ n =< SumOf(v, S)
    BY <1>2, <2>1, <2>2, <2>3, <2>6 DEF SeriesOf
  <2>9. /\ \A b \in S : v[b] \in Nat /\ v[b] = old[b].count
        /\ Weights(v, S) /\ Weights(v, R) /\ Weights(v, Q)
    BY <1>4, <2>5, <2>6, CountsNat
  <2>10. /\ \A b \in S : w[b] \in Nat /\ w[b] = samples[b].count
         /\ Weights(w, S) /\ Weights(w, R) /\ Weights(w, Q)
    BY <1>4, <2>5, <2>7, CountsNat
  <2>11. \A b \in S : v[b] =< w[b]
    BY <1>4, <2>5, <2>9, <2>10
  <2>12. SumOf(v, S) =< SumOf(w, S)
    BY <2>5, <2>9, <2>10, <2>11, SumMono
  <2>13. Q \in SUBSET R
    BY <1>3, <2>3, <2>4, <2>5 DEF Over, Retention
  <2>14. \A b \in Q : v[b] = w[b]
    <3>1. \A b \in Q : b < time
      BY <1>3, <2>4, <2>5 DEF Over
    <3> QED
      BY <1>4, <2>5, <2>9, <2>10, <3>1
  <2>15. SumOf(v, Q) = SumOf(w, Q)
    BY <2>5, <2>9, <2>14, SumSame
  <2>16. SumOf(v, Q) =< SumOf(v, R)
    <3>1. \A b \in R : v[b] \in Nat
      BY <2>5, <2>9
    <3> QED
      BY <2>5, <2>13, <3>1, SumPart
  <2>17. SumOf(v, Q) \in Int /\ SumOf(v, R) \in Int /\ SumOf(v, S) \in Int
         /\ SumOf(w, S) \in Int
    BY <2>5, <2>9, <2>10, SumType
  <2> QED
    BY <2>1, <2>2, <2>4, <2>7, <2>8, <2>12, <2>15, <2>16, <2>17
<1> QED
  BY <1>1, <1>2, <1>5 DEF SeriesOf

-----------------------------------------------------------------------------
(* Every answer adds up                                                    *)

LEMMA NothingAdds == ASSUME NEW samples, NEW time PROVE PageAdds(NoPayload, samples, time)
BY DEF PageAdds, NoPayload, Pages

LEMMA RespondAdds ==
    ASSUME FetchInv, PagesInv, fetches["live"].phase = "reading", NEW p,
           p = Answer(fetches["live"].at, fetches["live"].rows, LaterRows("live"))
    PROVE  PageAdds(p, recorded, now)
<1> DEFINE d == fetches["live"].rows
<1>1. now \in Nat /\ page \in Pages /\ (page \notin Metrics => OneMoment(d))
  BY DEF FetchInv, PagesInv, ReadInv
<1>2. LaterRows("live") = d
  BY DEF LaterRows
<1> HIDE DEF d
<1>3. CASE page \in {"cluster", "overview"}
  <2>1. OneMoment(d) /\ p = GetCluster(d, d)
    BY <1>1, <1>2, <1>3 DEF Answer, Metrics, d
  <2>2. p.page = page /\ ClusterAdds(p)
    BY <1>3, <2>1, ClusterAnswer
  <2> QED
    BY <1>3, <2>2 DEF PageAdds, Pages
<1>4. CASE page = "queue"
  <2>1. OneMoment(d) /\ p = GetQueue(d, d)
    BY <1>1, <1>2, <1>4 DEF Answer, Metrics, d
  <2>2. p.page = "queue" /\ QueueAdds(p)
    BY <2>1, QueueAnswer
  <2> QED
    BY <2>2 DEF PageAdds, Pages
<1>5. CASE page = "variants"
  <2>1. OneMoment(d) /\ p = GetVariants(d, d)
    BY <1>1, <1>2, <1>5 DEF Answer, Metrics, d
  <2>2. p.page = "variants" /\ p.layers = p.variant.revision
    BY <2>1, VariantsAnswer
  <2> QED
    BY <2>2 DEF PageAdds, Pages
<1>6. CASE page = "instance"
  <2>1. OneMoment(d) /\ p = GetInstance(d, d)
    BY <1>1, <1>2, <1>6 DEF Answer, Metrics, d
  <2>2. /\ p.page = "instance"
        /\ p.instance.owned /\ p.instance.life # "FAILED" => \E s \in p.session : s.holds
    BY <2>1, InstanceAnswer
  <2> QED
    BY <2>2 DEF PageAdds, Pages
<1>7. CASE page = "session"
  <2>1. OneMoment(d) /\ p = GetSession(d, d)
    BY <1>1, <1>2, <1>7 DEF Answer, Metrics, d
  <2>2. p = NoPayload \/ (p.page = "session" /\ SessionAdds(p))
    BY <2>1, SessionAnswer
  <2> QED
    BY <2>2, NothingAdds DEF PageAdds, Pages
<1>8. CASE page = "monitoring"
  <2>1. fetches["live"].at \in 0..now
    BY ReadingPast DEF Slots
  <2>2. p = GetGroupSeries(fetches["live"].at, db)
    BY <1>8 DEF Answer
  <2>3. p.page = "monitoring" /\ SeriesOf(p, recorded, now)
    BY <1>1, <2>1, <2>2, SeriesAnswer DEF PagesInv
  <2> QED
    BY <2>3 DEF PageAdds, Pages
<1>9. CASE page = "alerts"
  <2>1. p = GetSummary(db)
    BY <1>9 DEF Answer
  <2>2. /\ p.page = "alerts" /\ p.at = now /\ p.alerts \subseteq Instants
        /\ \A b \in p.alerts : recorded[b].sum < Threshold * recorded[b].count
    BY <1>1, <2>1, SummaryAnswer DEF PagesInv
  <2> QED
    BY <1>1, <2>2 DEF PageAdds, Pages
<1> QED
  BY <1>1, <1>3, <1>4, <1>5, <1>6, <1>7, <1>8, <1>9 DEF Pages

-----------------------------------------------------------------------------
(* Samples                                                                 *)

SameSamples == "metrics" \in DOMAIN db' /\ db'.metrics = db.metrics

LEMMA MatchmakingSamples ==
    ASSUME OneMoment(db),
           \/ \E n \in 1..Group.teamSize : Enqueue(n)
           \/ AttachTicket \/ AssignWaiting
           \/ \E k \in DOMAIN db.tickets :
                PlayerJoined(k) \/ PlayerLeft(k) \/ ExpireTransfers(k)
           \/ CloseTransfer \/ GameStarting \/ GameFinished
    PROVE  SameSamples
<1>0. "metrics" \in DOMAIN db
  BY DEF OneMoment, Columns
<1>1. CASE \E n \in 1..Group.teamSize : Enqueue(n)
  BY <1>0, <1>1 DEF Enqueue, Commit, SameSamples
<1>2. CASE AttachTicket
  BY <1>0, <1>2 DEF AttachTicket, StartSessionTransfers, Commit, SameSamples
<1>3. CASE AssignWaiting
  BY <1>0, <1>3 DEF AssignWaiting, StartSessionTransfers, Commit, SameSamples
<1>4. CASE \E k \in DOMAIN db.tickets :
                PlayerJoined(k) \/ PlayerLeft(k) \/ ExpireTransfers(k)
  BY <1>0, <1>4 DEF PlayerJoined, PlayerLeft, ExpireTransfers, Commit, SameSamples
<1>5. CASE CloseTransfer
  BY <1>0, <1>5 DEF CloseTransfer, Commit, SameSamples
<1>6. CASE GameStarting
  BY <1>0, <1>6 DEF GameStarting, Commit, SameSamples
<1>7. CASE GameFinished
  BY <1>0, <1>7 DEF GameFinished, Commit, SameSamples
<1> QED
  BY <1>1, <1>2, <1>3, <1>4, <1>5, <1>6, <1>7

LEMMA OtherSamples ==
    ASSUME OneMoment(db),
           \/ NextLife \/ FailInstance \/ CancelForInstance \/ RecoverSession \/ FailSession
           \/ SynchronizeVariant \/ BlockRevision
           \/ \E r \in Revisions : CompleteReset(r)
           \/ \E r \in posts : RequestReset(r)
    PROVE  SameSamples
<1>0. "metrics" \in DOMAIN db
  BY DEF OneMoment, Columns
<1>1. CASE NextLife \/ FailInstance
  BY <1>0, <1>1 DEF NextLife, FailInstance, Commit, SameSamples
<1>2. CASE CancelForInstance \/ RecoverSession \/ FailSession
  BY <1>0, <1>2 DEF CancelForInstance, RecoverSession, FailSession, Commit, SameSamples
<1>3. CASE SynchronizeVariant
  BY <1>0, <1>3 DEF SynchronizeVariant, Commit, SameSamples
<1>4. CASE BlockRevision \/ \E r \in Revisions : CompleteReset(r)
  BY <1>0, <1>4 DEF BlockRevision, CompleteReset, Commit, SameSamples
<1>5. CASE \E r \in posts : RequestReset(r)
  BY <1>0, <1>5 DEF RequestReset, ResetRequested, SameSamples
<1> QED
  BY <1>1, <1>2, <1>3, <1>4, <1>5

PastStands == now' \in Nat /\ now <= now' /\ Later(recorded, recorded', now)

LEMMA RecordedSamples ==
    ASSUME now \in Nat, SamplesInv, NEW tps \in Tps, RecordTps(tps)
    PROVE  SamplesInv' /\ PastStands
<1>1. /\ recorded' = [b \in Instants |->
                        IF b = now THEN AddSample(recorded[b], tps) ELSE recorded[b]]
      /\ now' = now
  BY DEF RecordTps, SamplesInv
<1>2. /\ "metrics" \in DOMAIN db'
      /\ db'.metrics = [b \in Instants |->
                        IF b = now THEN AddSample(db.metrics[b], tps) ELSE db.metrics[b]]
  <2>1. db' = [db EXCEPT !.metrics = [db.metrics EXCEPT
                            ![now] = AddSample(db.metrics[now], tps)]]
    BY DEF RecordTps, Contribution
  <2>2. [db.metrics EXCEPT ![now] = AddSample(db.metrics[now], tps)] =
            [b \in Instants |->
                IF b = now THEN AddSample(db.metrics[b], tps) ELSE db.metrics[b]]
    BY DEF SamplesInv
  <2> QED
    BY <2>1, <2>2 DEF SamplesInv
<1>3. ASSUME NEW b \in Instants
      PROVE  \/ db'.metrics[b] = recorded'[b]
             \/ b < now - Retention /\ db'.metrics[b] = NoSamples
  <2>1. CASE b = now
    <3>1. db.metrics[b] = recorded[b]
      BY <2>1 DEF SamplesInv, Retention
    <3> QED
      BY <1>1, <1>2, <2>1, <3>1
  <2>2. CASE b # now
    BY <1>1, <1>2, <2>2 DEF SamplesInv
  <2> QED
    BY <2>1, <2>2
<1>4. ASSUME NEW b \in Instants
      PROVE  /\ recorded'[b].count \in Nat /\ recorded[b].count =< recorded'[b].count
             /\ recorded[b].count \in Nat
             /\ b < now => recorded'[b] = recorded[b]
  <2>1. recorded[b].count \in Nat
    BY DEF SamplesInv
  <2>2. CASE b = now
    <3>1. recorded'[b].count = recorded[b].count + 1
      BY <1>1, <2>2 DEF AddSample
    <3> QED
      BY <2>1, <2>2, <3>1
  <2>3. CASE b # now
    <3>1. recorded'[b] = recorded[b]
      BY <1>1, <2>3
    <3> QED
      BY <2>1, <3>1
  <2> QED
    BY <2>2, <2>3
<1>5. Later(recorded, recorded', now)
  BY <1>4 DEF Later
<1>6. SamplesInv'
  BY <1>1, <1>2, <1>3, <1>4 DEF SamplesInv
<1> QED
  BY <1>1, <1>5, <1>6 DEF PastStands

LEMMA SamplesStand ==
    ASSUME SamplesInv, UNCHANGED recorded PROVE Later(recorded, recorded', now)
<1>1. \A b \in Instants : recorded[b].count \in Nat /\ recorded[b].count =< recorded[b].count
  BY DEF SamplesInv
<1> QED
  BY <1>1 DEF Later

LEMMA PrunedSamples ==
    ASSUME now \in Nat, SamplesInv, Prune PROVE SamplesInv' /\ PastStands
<1>1. /\ "metrics" \in DOMAIN db' /\ UNCHANGED <<now, recorded>>
      /\ db'.metrics = [b \in Instants |->
                            IF b < now - Retention THEN NoSamples ELSE db.metrics[b]]
  BY DEF Prune, Commit, SamplesInv
<1> QED
  BY <1>1, SamplesStand DEF SamplesInv, PastStands

LEMMA SamplesStep ==
    ASSUME FetchInv, OneMoment(db), SamplesInv, [Next]_vars
    PROVE  SamplesInv' /\ PastStands
<1>1. CASE SameSamples /\ UNCHANGED <<now, recorded>>
  BY <1>1, SamplesStand DEF SameSamples, SamplesInv, PastStands, FetchInv
<1>2. CASE TimePasses
  <2>1. now' = now + 1 /\ UNCHANGED <<db, recorded>>
    BY <1>2 DEF TimePasses
  <2>2. \A b \in Instants : b < now - Retention => b < now' - Retention
    BY <2>1, ConsoleAssumption DEF FetchInv, Instants, Retention
  <2> QED
    BY <2>1, <2>2, SamplesStand DEF SamplesInv, PastStands, FetchInv
<1>3. CASE (\E tps \in Tps : RecordTps(tps)) \/ Prune
  BY <1>3, RecordedSamples, PrunedSamples DEF FetchInv
<1>4. CASE Commits
  <2>1. CASE ~ ((\E tps \in Tps : RecordTps(tps)) \/ Prune)
    <3>1. SameSamples
      BY <1>4, <2>1, MatchmakingSamples, OtherSamples DEF Commits
    <3>2. UNCHANGED <<now, recorded>>
      BY <1>4, <2>1 DEF Commits, Commit, Enqueue, AttachTicket, AssignWaiting,
            PlayerJoined, PlayerLeft, ExpireTransfers, CloseTransfer, GameStarting,
            GameFinished, NextLife, FailInstance, CancelForInstance, RecoverSession,
            FailSession, SynchronizeVariant, BlockRevision, CompleteReset
    <3> QED
      BY <1>1, <3>1, <3>2
  <2> QED
    BY <1>3, <2>1
<1>5. CASE Browser
  <2>1. UNCHANGED <<now, recorded>>
    BY <1>5 DEF Browser, Poll, Refresh, BeginRead, Respond, FetchFails, Deliver, Tick,
                ConfirmRetry, RequestReset
  <2>2. (\E r \in posts : RequestReset(r)) \/ UNCHANGED db
    BY <1>5 DEF Browser, Poll, Refresh, BeginRead, Respond, FetchFails, Deliver, Tick,
                ConfirmRetry
  <2>3. SameSamples
    BY <2>2, OtherSamples DEF SameSamples, OneMoment, Columns
  <2> QED
    BY <1>1, <2>1, <2>3
<1>6. CASE UNCHANGED vars
  BY <1>1, <1>6 DEF vars, SameSamples, SamplesInv
<1> QED
  BY <1>2, <1>4, <1>5, <1>6 DEF Next

-----------------------------------------------------------------------------
(* Requests and payloads                                                   *)

\* Payloads stay true while time passes and samples are reported.
LEMMA KeptAdds ==
    ASSUME NEW p, NEW old, NEW time \in Nat, PageAdds(p, old, time),
           NEW samples, NEW later \in Nat, time <= later, Later(old, samples, time)
    PROVE  PageAdds(p, samples, later)
<1>1. CASE p.page = "alerts"
  <2>1. /\ p.at \in 0..time /\ p.alerts \subseteq Instants
        /\ \A b \in p.alerts : b < p.at => old[b].sum < Threshold * old[b].count
    BY <1>1 DEF PageAdds
  <2>2. p.at \in 0..later
    BY <2>1
  <2>3. \A b \in p.alerts : b < p.at => samples[b] = old[b]
    BY <2>1, ConsoleAssumption DEF Instants, Later
  <2> QED
    BY <1>1, <2>1, <2>2, <2>3 DEF PageAdds
<1>2. CASE p.page = "monitoring"
  BY <1>2, SeriesKept DEF PageAdds
<1>3. CASE p.page \notin {"alerts", "monitoring"}
  BY <1>3 DEF PageAdds
<1> QED
  BY <1>1, <1>2, <1>3

\* A request after a step: the same, one without rows or payload, one that has
\* read the rows of one moment, or one whose payload adds up.
Sound(s) ==
    \/ fetches'[s] = fetches[s]
    \/ fetches'[s] \in {NoFetch, Sent}
    \/ /\ fetches'[s].phase = "reading"
       /\ s = "live" /\ page \notin Metrics => OneMoment(fetches'[s].rows)
    \/ /\ fetches'[s].phase = "answered"
       /\ PageAdds(fetches'[s].payload, recorded, now)

LEMMA SoundStep ==
    ASSUME FetchInv, PagesInv, PastStands, page' = page, \A s \in Slots : Sound(s)
    PROVE  ReadInv' /\ AnsweredInv'
<1>1. ReadInv'
  <2>1. "live" \in Slots
    BY DEF Slots
  <2> QED
    BY <2>1 DEF Sound, PagesInv, ReadInv, NoFetch, Sent
<1>2. ASSUME NEW s \in Slots, fetches'[s].phase = "answered"
      PROVE  PageAdds(fetches'[s].payload, recorded', now')
  <2>1. PageAdds(fetches'[s].payload, recorded, now)
    BY <1>2 DEF Sound, PagesInv, AnsweredInv, NoFetch, Sent
  <2> QED
    BY <2>1, KeptAdds DEF FetchInv, PastStands
<1> QED
  BY <1>1, <1>2 DEF AnsweredInv

\* A request that is given up keeps neither rows nor payload.
LEMMA GivenUpSound ==
    ASSUME NEW f, FetchPast(f)
    PROVE  \/ GivenUp(f) \in {NoFetch, Sent}
           \/ GivenUp(f).phase = "reading"
           \/ GivenUp(f).phase = "answered" /\ GivenUp(f).payload = NoPayload
<1>1. CASE f \in {NoFetch, Sent}
  BY <1>1 DEF GivenUp, NoFetch, Sent
<1>2. CASE f = [phase |-> "reading", at |-> f.at, rows |-> f.rows]
  <2>1. GivenUp(f) = [phase |-> "reading", at |-> f.at, rows |-> NoPayload]
    BY <1>2 DEF GivenUp
  <2> QED
    BY <2>1
<1>3. CASE f = [phase |-> "answered", at |-> f.at, payload |-> f.payload]
  <2>1. GivenUp(f) = [phase |-> "answered", at |-> f.at, payload |-> NoPayload]
    BY <1>3 DEF GivenUp
  <2> QED
    BY <2>1
<1> QED
  BY <1>1, <1>2, <1>3 DEF FetchPast

LEMMA RefreshSound ==
    ASSUME FetchInv, Refresh PROVE \A s \in Slots : Sound(s)
<1>1. fetches'["live"] = Sent /\ fetches'["dropped"] = GivenUp(fetches["live"])
  BY DEF Refresh
<1>2. \/ fetches'["dropped"] \in {NoFetch, Sent}
      \/ fetches'["dropped"].phase = "reading"
      \/ fetches'["dropped"].phase = "answered" /\ fetches'["dropped"].payload = NoPayload
  <2>1. FetchPast(fetches["live"])
    BY DEF FetchInv, Slots
  <2> QED
    BY <1>1, <2>1, GivenUpSound
<1> QED
  BY <1>1, <1>2, NothingAdds DEF Slots, Sound

LEMMA BeginReadSound ==
    ASSUME FetchInv, PagesInv, NEW t \in Slots, BeginRead(t)
    PROVE  \A s \in Slots : Sound(s)
<1> DEFINE rows == IF page \in Metrics \/ t = "dropped" THEN NoPayload ELSE db
<1>1. fetches' = [s \in Slots |->
            IF s = t THEN [phase |-> "reading", at |-> now, rows |-> rows] ELSE fetches[s]]
  BY DEF BeginRead, FetchInv
<1>2. t = "live" /\ page \notin Metrics => OneMoment(rows)
  BY DEF PagesInv
<1> HIDE DEF rows
<1> QED
  BY <1>1, <1>2 DEF Sound

LEMMA RespondSound ==
    ASSUME FetchInv, PagesInv, NEW t \in Slots, Respond(t)
    PROVE  \A s \in Slots : Sound(s)
<1> DEFINE payload ==
        IF t = "dropped" THEN NoPayload
        ELSE Answer(fetches[t].at, fetches[t].rows, LaterRows(t))
<1>1. PICK at : fetches' = [s \in Slots |->
            IF s = t THEN [phase |-> "answered", at |-> at, payload |-> payload]
            ELSE fetches[s]]
  BY DEF Respond, FetchInv
<1>2. PageAdds(payload, recorded, now)
  <2>1. CASE t = "dropped"
    BY <2>1, NothingAdds
  <2>2. CASE t = "live"
    BY <2>2, RespondAdds DEF Respond
  <2> QED
    BY <2>1, <2>2 DEF Slots
<1> HIDE DEF payload
<1> QED
  BY <1>1, <1>2 DEF Sound

LEMMA NextSound ==
    ASSUME FetchInv, PagesInv, [Next]_vars PROVE page' = page /\ \A s \in Slots : Sound(s)
<1>1. CASE Commits
  BY <1>1, CommitFrame DEF Sound, Commits, Commit, Enqueue, AttachTicket, AssignWaiting,
     PlayerJoined, PlayerLeft, ExpireTransfers, CloseTransfer, GameStarting, GameFinished,
     NextLife, FailInstance, CancelForInstance, RecoverSession, FailSession,
     SynchronizeVariant, BlockRevision, CompleteReset, RecordTps, Prune
<1>2. CASE Browser
  <2>1. page' = page
    BY <1>2 DEF Browser, Poll, Refresh, BeginRead, Respond, FetchFails, Deliver, Tick,
                ConfirmRetry, RequestReset
  <2>2. CASE Poll
    BY <2>2 DEF Poll, Sound, FetchInv
  <2>3. ASSUME NEW t \in Slots, FetchFails(t) \/ Deliver(t) PROVE \A s \in Slots : Sound(s)
    BY <2>3 DEF FetchFails, Deliver, Sound, FetchInv
  <2>4. CASE Tick \/ ConfirmRetry \/ \E r \in posts : RequestReset(r)
    BY <2>4 DEF Tick, ConfirmRetry, RequestReset, Sound
  <2> QED
    BY <1>2, <2>1, <2>2, <2>3, <2>4, RefreshSound, BeginReadSound, RespondSound DEF Browser
<1>3. CASE TimePasses \/ UNCHANGED vars
  BY <1>3 DEF TimePasses, browserVars, vars, Sound
<1> QED
  BY <1>1, <1>2, <1>3 DEF Next

\* The tables are of one moment after every step.
LEMMA MomentStep ==
    ASSUME OneMoment(db), [Next]_vars PROVE OneMoment(db')
<1>1. CASE Browser
  BY <1>1, VariantMoment DEF Browser, Poll, Refresh, BeginRead, Respond, FetchFails,
                              Deliver, Tick, ConfirmRetry
<1> QED
  BY <1>1, CommitMoment DEF Next, TimePasses, vars

LEMMA InitPages == Init => PagesInv
<1> SUFFICES ASSUME Init PROVE PagesInv
  OBVIOUS
<1>1. Columns(db)
  BY DEF Init, Columns
<1>2. Agrees(db)
  BY DEF Init, Agrees, Held, NobodyMoving
<1>s. Seats(db.tickets)
  <2>1. db.tickets = <<>>
    BY DEF Init
  <2> QED
    BY <2>1, NoTickets
<1>3. SamplesInv
  BY DEF Init, SamplesInv, NoSamples
<1>4. ReadInv /\ AnsweredInv
  BY DEF Init, ReadInv, AnsweredInv, NoFetch, Slots
<1> QED
  BY <1>1, <1>2, <1>s, <1>3, <1>4 DEF Init, PagesInv, OneMoment

LEMMA NextPages == Inv /\ PagesInv /\ [Next]_vars => PagesInv'
<1> SUFFICES ASSUME FetchInv, PagesInv, [Next]_vars PROVE PagesInv'
  BY DEF Inv
<1>1. SamplesInv' /\ PastStands /\ OneMoment(db')
  BY SamplesStep, MomentStep DEF PagesInv
<1>2. page' = page /\ ReadInv' /\ AnsweredInv'
  BY <1>1, NextSound, SoundStep
<1> QED
  BY <1>1, <1>2 DEF PagesInv

\* The series a page shows keeps to its bounds, with the sums of the program.
LEMMA SeriesSummed ==
    ASSUME SamplesInv, NEW p, SeriesOf(p, recorded, now)
    PROVE  SeriesAdds(p)
<1>1. \A b \in Instants : recorded[b].count \in Nat
  BY DEF SamplesInv
<1>2. ASSUME NEW q \in DOMAIN p.points
      PROVE  /\ p.points[q].count >= SumOver(recorded, Over(p.at, q, now)).count
             /\ p.points[q].count =< SumOver(recorded, Buckets(p.at, q)).count
  <2>1. PICK S : S = Buckets(p.at, q)
    OBVIOUS
  <2>2. PICK R : R = Over(p.at, q, now)
    OBVIOUS
  <2>3. /\ S \in SUBSET Instants /\ IsFiniteSet(S)
        /\ R \in SUBSET Instants /\ IsFiniteSet(R)
    BY <2>1, <2>2, BucketsFinite
  <2>4. /\ SumOver(recorded, S).count = SumOf(Counts(recorded), S)
        /\ SumOver(recorded, R).count = SumOf(Counts(recorded), R)
    BY <1>1, <2>3, SumOverCount
  <2>5. /\ p.points[q].count \in Nat
        /\ SumOf(Counts(recorded), R) =< p.points[q].count
        /\ p.points[q].count =< SumOf(Counts(recorded), S)
    BY <2>1, <2>2 DEF SeriesOf
  <2>6. SumOf(Counts(recorded), R) \in Int
    <3>1. Weights(Counts(recorded), R)
      BY <1>1, <2>3, CountsNat
    <3> QED
      BY <2>3, <3>1, SumType
  <2> QED
    BY <2>1, <2>2, <2>4, <2>5, <2>6
<1> QED
  BY <1>2 DEF SeriesAdds, Buckets, Over

LEMMA PagesAdd == PagesInv => PayloadsAdd
<1> SUFFICES ASSUME PagesInv, NEW s \in Slots, fetches[s].phase = "answered",
                    NEW p, p = fetches[s].payload
             PROVE  CASE p.page \in {"cluster", "overview"} -> ClusterAdds(p)
                      [] p.page = "queue" -> QueueAdds(p)
                      [] p.page = "variants" -> p.layers = p.variant.revision
                      [] p.page = "session" -> SessionAdds(p)
                      [] p.page = "instance" ->
                            p.instance.owned /\ p.instance.life # "FAILED" =>
                                \E r \in p.session : r.holds
                      [] p.page = "monitoring" -> SeriesAdds(p)
                      [] p.page = "alerts" ->
                            \A b \in p.alerts : b < p.at =>
                                recorded[b].sum < Threshold * recorded[b].count
                      [] p.page = "none" -> TRUE
  BY DEF PayloadsAdd, Payloads
<1>1. PageAdds(p, recorded, now)
  BY DEF PagesInv, AnsweredInv
<1>2. CASE p.page \in {"cluster", "overview"}
  BY <1>1, <1>2 DEF PageAdds
<1>3. CASE p.page = "queue"
  BY <1>1, <1>3 DEF PageAdds
<1>4. CASE p.page = "variants"
  BY <1>1, <1>4 DEF PageAdds
<1>5. CASE p.page = "session"
  BY <1>1, <1>5 DEF PageAdds
<1>6. CASE p.page = "instance"
  BY <1>1, <1>6 DEF PageAdds
<1>7. CASE p.page = "monitoring"
  <2>1. SeriesAdds(p)
    BY <1>1, <1>7, SeriesSummed DEF PageAdds, PagesInv
  <2> QED
    BY <1>7, <2>1
<1>8. CASE p.page = "alerts"
  BY <1>1, <1>8 DEF PageAdds
<1>9. CASE p.page = "none"
  BY <1>9
<1> QED
  BY <1>1, <1>2, <1>3, <1>4, <1>5, <1>6, <1>7, <1>8, <1>9 DEF PageAdds, Pages

\* Whatever services commit between the statements of an answer, and while it is
\* under way, a page shows one moment: the queue with its total, a session with its
\* header, deadline and profiles, an instance with its session, the cluster with its
\* capacity, a variant with its layers, a series with every sample of a minute that
\* is over, and no alert for a bucket that was fast enough (DashboardService,
\* MonitoringService).
THEOREM PagesShowOneMoment == Spec => []PayloadsAdd
<1> QED
  BY PagesAdd, InitInv, NextInv, InitPages, NextPages, PTL DEF Spec
=============================================================================
