--------------------------- MODULE PortfolioProofs ---------------------------
(***************************************************************************)
(* What the operators of Portfolio do, whoever uses them: the sums they    *)
(* take, and the books of accounts and positions, which funding an         *)
(* account, placing a bet and settling a map keep balanced.                *)
(***************************************************************************)
EXTENDS Portfolio, FiniteSetTheorems, TLAPS

(* The sums that settle_map takes over the positions of an account.  What    *)
(* SumOver computes is found by the smallest set for which it would not be   *)
(* so: there is always one, the subsets of a finite set being well founded.  *)

(* The recursive function whose value at S is the total.                     *)
Summed(f, S, g) == g = [T \in SUBSET S |-> IF T = {} THEN 0
                          ELSE f[CHOOSE x \in T : TRUE] + g[T \ {CHOOSE x \in T : TRUE}]]

(* Two such functions agree wherever both are defined.                       *)
LEMMA SumsAgree ==
    ASSUME NEW f, NEW S, NEW S1, NEW S2, NEW g1, NEW g2, IsFiniteSet(S), S1 \subseteq S, S2 \subseteq S,
           Summed(f, S1, g1), Summed(f, S2, g2), NEW T, T \subseteq S1, T \subseteq S2
    PROVE  g1[T] = g2[T]
<1> DEFINE Wrong == {U \in SUBSET S : U \subseteq S1 /\ U \subseteq S2 /\ g1[U] # g2[U]}
<1>1. Wrong = {}
  <2> SUFFICES ASSUME Wrong # {} PROVE FALSE
    OBVIOUS
  <2>1. IsWellFoundedOn(StrictSubsetOrdering(S), SUBSET S)
    BY FS_FiniteSubsetsOfFinite, FS_StrictSubsetOrderingWellFounded
  <2> HIDE DEF Wrong
  <2>2. Wrong \subseteq SUBSET S
    BY DEF Wrong
  <2>3. PICK U \in Wrong : \A V \in Wrong : <<V, U>> \notin StrictSubsetOrdering(S)
    BY <2>1, <2>2, WFMin
  <2>4. U \subseteq S /\ U \subseteq S1 /\ U \subseteq S2 /\ g1[U] # g2[U]
    BY <2>3 DEF Wrong
  <2>5. U # {}
    BY <2>4 DEF Summed
  <2> DEFINE x == CHOOSE x \in U : TRUE
             V == U \ {x}
  <2>6. x \in U
    BY <2>5
  <2>7. /\ g1[U] = f[x] + g1[V] /\ g2[U] = f[x] + g2[V]
    BY <2>4, <2>5 DEF Summed
  <2> HIDE DEF x
  <2>8. <<V, U>> \in StrictSubsetOrdering(S)
    BY <2>4, <2>6 DEF StrictSubsetOrdering
  <2>9. V \in Wrong
    BY <2>4, <2>7 DEF Wrong
  <2> QED
    BY <2>3, <2>8, <2>9
<1> QED
  BY <1>1

(* There is such a function on the subsets of every finite set.              *)
LEMMA SumsExist ==
    ASSUME NEW f, NEW S, IsFiniteSet(S)
    PROVE  \E g : Summed(f, S, g)
<1> DEFINE Without == {T \in SUBSET S : ~ \E g : Summed(f, T, g)}
<1>1. Without = {}
  <2> SUFFICES ASSUME Without # {} PROVE FALSE
    OBVIOUS
  <2>1. IsWellFoundedOn(StrictSubsetOrdering(S), SUBSET S)
    BY FS_FiniteSubsetsOfFinite, FS_StrictSubsetOrderingWellFounded
  <2> HIDE DEF Without
  <2>2. Without \subseteq SUBSET S
    BY DEF Without
  <2>3. PICK T \in Without : \A V \in Without : <<V, T>> \notin StrictSubsetOrdering(S)
    BY <2>1, <2>2, WFMin
  <2>4. T \subseteq S
    BY <2>2, <2>3
  <2> DEFINE h(V) == CHOOSE g : Summed(f, V, g)
             c(V) == CHOOSE x \in V : TRUE
             below == [V \in SUBSET T |-> IF V = T THEN 0 ELSE h(V)[V]]
             sum == [V \in SUBSET T |-> IF V = {} THEN 0 ELSE f[c(V)] + below[V \ {c(V)}]]
  <2>5. ASSUME NEW V \in SUBSET T, V # T PROVE Summed(f, V, h(V))
    <3>1. V \notin Without
      BY <2>3, <2>4, <2>5 DEF StrictSubsetOrdering
    <3>2. \E g : Summed(f, V, g)
      BY <2>4, <3>1 DEF Without
    <3> HIDE DEF Summed
    <3> QED
      BY <3>2
  <2> HIDE DEF h
  <2>6. ASSUME NEW V \in SUBSET T, V # T PROVE sum[V] = h(V)[V]
    <3>1. CASE V = {}
      BY <2>5, <2>6, <3>1 DEF Summed
    <3>2. CASE V # {}
      <4> DEFINE W == V \ {c(V)}
      <4>1. c(V) \in V
        BY <3>2
      <4>2. W \in SUBSET T /\ W # T /\ W \subseteq V
        BY <4>1
      <4>3. h(V)[V] = f[c(V)] + h(V)[W]
        BY <2>5, <2>6, <3>2 DEF Summed
      <4>4. Summed(f, V, h(V)) /\ Summed(f, W, h(W))
        BY <2>5, <2>6, <4>2
      <4>5. h(V)[W] = h(W)[W]
        BY <2>4, <4>2, <4>4, SumsAgree
      <4> QED
        BY <3>2, <4>2, <4>3, <4>5
    <3> QED
      BY <3>1, <3>2
  <2>7. Summed(f, T, sum)
    <3>1. ASSUME NEW V \in SUBSET T, V # {} PROVE below[V \ {c(V)}] = sum[V \ {c(V)}]
      <4>1. V \ {c(V)} \in SUBSET T /\ V \ {c(V)} # T
        BY <3>1
      <4> QED
        BY <2>6, <4>1
    <3>2. ASSUME NEW V \in SUBSET T
          PROVE  sum[V] = IF V = {} THEN 0 ELSE f[c(V)] + sum[V \ {c(V)}]
      <4>1. CASE V = {}
        BY <4>1
      <4>2. CASE V # {}
        <5>1. sum[V] = f[c(V)] + below[V \ {c(V)}]
          BY <4>2
        <5>2. below[V \ {c(V)}] = sum[V \ {c(V)}]
          BY <3>1, <4>2
        <5> HIDE DEF sum, below, c
        <5> QED
          BY <4>2, <5>1, <5>2
      <4> QED
        BY <4>1, <4>2
    <3>3. sum = [V \in SUBSET T |-> sum[V]]
      OBVIOUS
    <3> HIDE DEF sum
    <3> QED
      BY <3>2, <3>3 DEF Summed
  <2> HIDE DEF sum
  <2> QED
    BY <2>3, <2>7 DEF Without
<1> QED
  BY <1>1

(* What MapThenSumSet returns is the value of any such function.             *)
LEMMA SumUnfolds ==
    ASSUME NEW f, NEW S, IsFiniteSet(S), NEW g, Summed(f, S, g)
    PROVE  SumOver(f, S) = g[S]
<1> DEFINE iter == CHOOSE h : Summed(f, S, h)
<1>1. Summed(f, S, iter)
  <2> HIDE DEF Summed
  <2> QED
    BY SumsExist
<1>2. SumOver(f, S) = iter[S]
  BY Zenon DEF SumOver, MapThenSumSet, MapThenFoldSet, Summed
<1> HIDE DEF iter
<1> QED
  BY <1>1, <1>2, SumsAgree

(* A sum of nothing is zero.  *)
LEMMA SumOfNothing == ASSUME NEW f PROVE SumOver(f, {}) = 0
<1>1. PICK g : Summed(f, {}, g)
  BY SumsExist, FS_EmptySet
<1>2. g[{}] = 0
  BY <1>1 DEF Summed
<1> QED
  BY <1>1, <1>2, SumUnfolds, FS_EmptySet

(* One recursion step: the total of a set is that of an element the set      *)
(* chooses and of the others.                                                *)
LEMMA SumOfOthers ==
    ASSUME NEW f, NEW S, IsFiniteSet(S), S # {}
    PROVE  \E x \in S : SumOver(f, S) = f[x] + SumOver(f, S \ {x})
<1> DEFINE x == CHOOSE x \in S : TRUE
<1>1. x \in S
  OBVIOUS
<1>2. IsFiniteSet(S \ {x})
  BY FS_RemoveElement
<1>3. PICK g : Summed(f, S, g)
  BY SumsExist
<1>4. PICK h : Summed(f, S \ {x}, h)
  BY <1>2, SumsExist
<1>5. g[S] = f[x] + g[S \ {x}]
  BY <1>3 DEF Summed
<1>6. g[S \ {x}] = h[S \ {x}]
  <2> DEFINE R == S \ {x}
  <2> HIDE DEF x
  <2>1. R \subseteq S /\ Summed(f, R, h)
    BY <1>4
  <2> HIDE DEF R
  <2>2. g[R] = h[R]
    BY <1>3, <2>1, SumsAgree
  <2> QED
    BY <2>2 DEF R
<1>7. SumOver(f, S) = g[S] /\ SumOver(f, S \ {x}) = h[S \ {x}]
  <2> HIDE DEF x
  <2> QED
    BY <1>2, <1>3, <1>4, SumUnfolds
<1> HIDE DEF x
<1> QED
  BY <1>1, <1>5, <1>6, <1>7

(* No chain of ever smaller sets of finitely many elements goes on for ever.  *)
LEMMA SubsetsWellFounded ==
    ASSUME NEW S, IsFiniteSet(S)
    PROVE  IsWellFoundedOn(StrictSubsetOrdering(S), SUBSET S)
BY FS_FiniteSubsetsOfFinite, FS_StrictSubsetOrderingWellFounded

(* What holds of the empty set, and of a set when it holds of the sets with   *)
(* one element less, holds of every finite set.                              *)
LEMMA SubsetsInduct ==
    ASSUME NEW S, IsFiniteSet(S), NEW Good, {} \in Good,
           \A T \in SUBSET S : T # {} /\ (\A x \in T : T \ {x} \in Good) => T \in Good
    PROVE  S \in Good
<1> DEFINE Bad == (SUBSET S) \ Good
<1>1. Bad = {}
  <2> SUFFICES ASSUME Bad # {} PROVE FALSE
    OBVIOUS
  <2>1. IsWellFoundedOn(StrictSubsetOrdering(S), SUBSET S)
    BY SubsetsWellFounded
  <2> HIDE DEF Bad
  <2>2. Bad \subseteq SUBSET S
    BY DEF Bad
  <2>3. PICK T \in Bad : \A V \in Bad : <<V, T>> \notin StrictSubsetOrdering(S)
    BY <2>1, <2>2, WFMin
  <2>4. T \subseteq S /\ T \notin Good /\ T # {}
    BY <2>2, <2>3 DEF Bad
  <2>5. ASSUME NEW x \in T PROVE T \ {x} \in Good
    <3>1. <<T \ {x}, T>> \in StrictSubsetOrdering(S)
      BY <2>4 DEF StrictSubsetOrdering
    <3> QED
      BY <2>3, <2>4, <3>1 DEF Bad
  <2> QED
    BY <2>4, <2>5
<1> QED
  BY <1>1

(* The total of whole numbers is one.                                        *)
LEMMA SumIsWhole ==
    ASSUME NEW S, IsFiniteSet(S), NEW f, \A x \in S : f[x] \in Int
    PROVE  SumOver(f, S) \in Int
<1> DEFINE Good == {T \in SUBSET S : SumOver(f, T) \in Int}
<1>1. {} \in Good
  BY SumOfNothing
<1>2. ASSUME NEW T \in SUBSET S, T # {}, \A x \in T : T \ {x} \in Good PROVE T \in Good
  <2>1. PICK x \in T : SumOver(f, T) = f[x] + SumOver(f, T \ {x})
    BY <1>2, FS_Subset, SumOfOthers
  <2> QED
    BY <1>2, <2>1
<1> HIDE DEF Good
<1>3. S \in Good
  BY <1>1, <1>2, SubsetsInduct
<1> QED
  BY <1>3 DEF Good

(* The total of counts is one.                                               *)
LEMMA SumIsCount ==
    ASSUME NEW S, IsFiniteSet(S), NEW f, \A x \in S : f[x] \in Nat
    PROVE  SumOver(f, S) \in Nat
<1> DEFINE Good == {T \in SUBSET S : SumOver(f, T) \in Nat}
<1>1. {} \in Good
  BY SumOfNothing
<1>2. ASSUME NEW T \in SUBSET S, T # {}, \A x \in T : T \ {x} \in Good PROVE T \in Good
  <2>1. PICK x \in T : SumOver(f, T) = f[x] + SumOver(f, T \ {x})
    BY <1>2, FS_Subset, SumOfOthers
  <2> QED
    BY <1>2, <2>1
<1> HIDE DEF Good
<1>3. S \in Good
  BY <1>1, <1>2, SubsetsInduct
<1> QED
  BY <1>3 DEF Good

(* Which element is taken first makes no difference.                         *)
LEMMA SumWithout ==
    ASSUME NEW S, IsFiniteSet(S), NEW f, \A y \in S : f[y] \in Int, NEW x \in S
    PROVE  SumOver(f, S) = f[x] + SumOver(f, S \ {x})
<1> DEFINE Good == {T \in SUBSET S : \A y \in T : SumOver(f, T) = f[y] + SumOver(f, T \ {y})}
<1>1. {} \in Good
  OBVIOUS
<1>2. ASSUME NEW T \in SUBSET S, T # {}, \A z \in T : T \ {z} \in Good PROVE T \in Good
  <2> SUFFICES ASSUME NEW y \in T PROVE SumOver(f, T) = f[y] + SumOver(f, T \ {y})
    OBVIOUS
  <2>1. PICK z \in T : SumOver(f, T) = f[z] + SumOver(f, T \ {z})
    BY <1>2, FS_Subset, SumOfOthers
  <2>2. CASE y = z
    BY <2>1, <2>2
  <2>3. CASE y # z
    <3> DEFINE U == T \ {z}
               V == T \ {y}
               R == T \ {y, z}
    <3>1. U \in Good /\ V \in Good /\ y \in U /\ z \in V
      BY <1>2, <2>3
    <3>2. U \ {y} = R /\ V \ {z} = R
      OBVIOUS
    <3>3. R \subseteq S /\ IsFiniteSet(R)
      BY FS_Subset
    <3>4. SumOver(f, T) = f[z] + SumOver(f, U)
      BY <2>1
    <3> HIDE DEF U, V, R
    <3>5. SumOver(f, U) = f[y] + SumOver(f, R) /\ SumOver(f, V) = f[z] + SumOver(f, R)
      BY <3>1, <3>2
    <3>6. f[y] \in Int /\ f[z] \in Int /\ SumOver(f, R) \in Int
      BY <3>3, SumIsWhole
    <3>7. SumOver(f, T) = f[y] + SumOver(f, V)
      BY <3>4, <3>5, <3>6
    <3> QED
      BY <3>7 DEF V
  <2> QED
    BY <2>2, <2>3
<1> HIDE DEF Good
<1>3. S \in Good
  BY <1>1, <1>2, SubsetsInduct
<1> QED
  BY <1>3 DEF Good

(* Only the numbers of the elements count.                                   *)
LEMMA SumsAlike ==
    ASSUME NEW S, IsFiniteSet(S), NEW f, NEW g, \A x \in S : f[x] \in Int /\ f[x] = g[x]
    PROVE  SumOver(f, S) = SumOver(g, S)
<1> DEFINE Good == {T \in SUBSET S : SumOver(f, T) = SumOver(g, T)}
<1>1. {} \in Good
  BY SumOfNothing
<1>2. ASSUME NEW T \in SUBSET S, T # {}, \A x \in T : T \ {x} \in Good PROVE T \in Good
  <2>1. PICK x \in T : TRUE
    BY <1>2
  <2>2. SumOver(f, T) = f[x] + SumOver(f, T \ {x}) /\ SumOver(g, T) = g[x] + SumOver(g, T \ {x})
    BY FS_Subset, SumWithout
  <2> QED
    BY <1>2, <2>2
<1> HIDE DEF Good
<1>3. S \in Good
  BY <1>1, <1>2, SubsetsInduct
<1> QED
  BY <1>3 DEF Good

(* A sum splits into those of a part and of the rest.                        *)
LEMMA SumSplits ==
    ASSUME NEW S, IsFiniteSet(S), NEW f, \A y \in S : f[y] \in Int, NEW P, P \subseteq S
    PROVE  SumOver(f, S) = SumOver(f, P) + SumOver(f, S \ P)
<1> DEFINE Good == {T \in SUBSET P : SumOver(f, S) = SumOver(f, T) + SumOver(f, S \ T)}
<1>1. {} \in Good
  <2>1. SumOver(f, S) \in Int /\ S \ {} = S
    BY SumIsWhole
  <2> QED
    BY <2>1, SumOfNothing
<1>2. ASSUME NEW T \in SUBSET P, T # {}, \A x \in T : T \ {x} \in Good PROVE T \in Good
  <2>1. PICK x \in T : TRUE
    BY <1>2
  <2> DEFINE U == T \ {x}
             R == S \ T
             Q == S \ U
  <2>2. SumOver(f, S) = SumOver(f, U) + SumOver(f, Q)
    BY <1>2
  <2>3. /\ x \in Q /\ Q \ {x} = R /\ Q \subseteq S /\ R \subseteq S /\ T \subseteq S /\ U \subseteq S
        /\ IsFiniteSet(Q) /\ IsFiniteSet(R) /\ IsFiniteSet(T) /\ IsFiniteSet(U) /\ T \ {x} = U
    BY FS_Subset
  <2> HIDE DEF U, R, Q
  <2>4. SumOver(f, Q) = f[x] + SumOver(f, R)
    BY <2>3, SumWithout
  <2>5. SumOver(f, T) = f[x] + SumOver(f, U)
    BY <2>3, SumWithout
  <2>6. f[x] \in Int /\ SumOver(f, U) \in Int /\ SumOver(f, R) \in Int
    BY <2>3, SumIsWhole
  <2>7. SumOver(f, S) = SumOver(f, T) + SumOver(f, R)
    BY <2>2, <2>4, <2>5, <2>6
  <2> QED
    BY <2>7 DEF R
<1>3. IsFiniteSet(P)
  BY FS_Subset
<1> HIDE DEF Good
<1>4. P \in Good
  BY <1>1, <1>2, <1>3, SubsetsInduct
<1> QED
  BY <1>4 DEF Good

(* Two sums over one set are the sum of both.                                *)
LEMMA SumAdds ==
    ASSUME NEW S, IsFiniteSet(S), NEW f, NEW g, NEW h,
           \A x \in S : f[x] \in Int /\ g[x] \in Int /\ h[x] = f[x] + g[x]
    PROVE  SumOver(h, S) = SumOver(f, S) + SumOver(g, S)
<1> DEFINE Good == {T \in SUBSET S : SumOver(h, T) = SumOver(f, T) + SumOver(g, T)}
<1>1. {} \in Good
  BY SumOfNothing
<1>2. ASSUME NEW T \in SUBSET S, T # {}, \A x \in T : T \ {x} \in Good PROVE T \in Good
  <2>1. PICK x \in T : TRUE
    BY <1>2
  <2>2. IsFiniteSet(T) /\ IsFiniteSet(T \ {x})
    BY FS_Subset
  <2>3. /\ SumOver(f, T) = f[x] + SumOver(f, T \ {x}) /\ SumOver(g, T) = g[x] + SumOver(g, T \ {x})
        /\ SumOver(h, T) = h[x] + SumOver(h, T \ {x})
    BY <2>2, SumWithout
  <2>4. SumOver(f, T \ {x}) \in Int /\ SumOver(g, T \ {x}) \in Int
    BY <2>2, SumIsWhole
  <2> QED
    BY <1>2, <2>3, <2>4
<1> HIDE DEF Good
<1>3. S \in Good
  BY <1>1, <1>2, SubsetsInduct
<1> QED
  BY <1>3 DEF Good

(* Elements that count for nothing may be left out.                          *)
LEMMA SumLeavesOut ==
    ASSUME NEW S, IsFiniteSet(S), NEW f, NEW P, P \subseteq S, \A x \in S \ P : f[x] = 0,
           \A x \in P : f[x] \in Int
    PROVE  SumOver(f, S) = SumOver(f, P)
<1> DEFINE Q == S \ P
           Good == {T \in SUBSET Q : SumOver(f, T) = 0}
<1>1. {} \in Good
  BY SumOfNothing
<1>2. ASSUME NEW T \in SUBSET Q, T # {}, \A x \in T : T \ {x} \in Good PROVE T \in Good
  <2>1. PICK x \in T : SumOver(f, T) = f[x] + SumOver(f, T \ {x})
    BY <1>2, FS_Subset, SumOfOthers
  <2> QED
    BY <1>2, <2>1
<1>3. IsFiniteSet(Q) /\ IsFiniteSet(P) /\ \A x \in S : f[x] \in Int
  BY FS_Subset
<1> HIDE DEF Good
<1>4. Q \in Good
  <2> HIDE DEF Q
  <2> QED
    BY <1>1, <1>2, <1>3, SubsetsInduct
<1>5. SumOver(f, Q) = 0
  BY <1>4 DEF Good
<1>6. SumOver(f, S) = SumOver(f, P) + SumOver(f, S \ P) /\ SumOver(f, P) \in Int
  BY <1>3, SumSplits, SumIsWhole
<1> QED
  BY <1>5, <1>6

(* No total of losses is a gain.                                             *)
LEMMA SumOfLosses ==
    ASSUME NEW S, IsFiniteSet(S), NEW f, \A x \in S : f[x] \in Int /\ f[x] <= 0
    PROVE  SumOver(f, S) <= 0
<1> DEFINE Good == {T \in SUBSET S : SumOver(f, T) \in Int /\ SumOver(f, T) <= 0}
<1>1. {} \in Good
  BY SumOfNothing
<1>2. ASSUME NEW T \in SUBSET S, T # {}, \A x \in T : T \ {x} \in Good PROVE T \in Good
  <2>1. PICK x \in T : SumOver(f, T) = f[x] + SumOver(f, T \ {x})
    BY <1>2, FS_Subset, SumOfOthers
  <2> QED
    BY <1>2, <2>1
<1> HIDE DEF Good
<1>3. S \in Good
  BY <1>1, <1>2, SubsetsInduct
<1> QED
  BY <1>3 DEF Good

(* The total of one number is so many times that number.                     *)
LEMMA SumOfEquals ==
    ASSUME NEW S, IsFiniteSet(S), NEW f, NEW n \in Int, \A x \in S : f[x] = n
    PROVE  SumOver(f, S) = Cardinality(S) * n
<1> DEFINE Good == {T \in SUBSET S : SumOver(f, T) = Cardinality(T) * n}
<1>1. {} \in Good
  BY SumOfNothing, FS_EmptySet
<1>2. ASSUME NEW T \in SUBSET S, T # {}, \A x \in T : T \ {x} \in Good PROVE T \in Good
  <2>1. PICK x \in T : SumOver(f, T) = f[x] + SumOver(f, T \ {x})
    BY <1>2, FS_Subset, SumOfOthers
  <2>2. IsFiniteSet(T)
    BY FS_Subset
  <2>3. Cardinality(T \ {x}) = Cardinality(T) - 1 /\ Cardinality(T) \in Nat
    BY <2>2, FS_RemoveElement, FS_CardinalityType
  <2>4. PICK k \in Int : k = Cardinality(T) - 1
    BY <2>3
  <2>5. SumOver(f, T \ {x}) = k * n
    BY <1>2, <2>3, <2>4
  <2>6. SumOver(f, T) = n + k * n
    BY <2>1, <2>5
  <2>7. n + k * n = (k + 1) * n
    BY <2>4
  <2>8. Cardinality(T) = k + 1
    BY <2>3, <2>4
  <2> QED
    BY <2>6, <2>7, <2>8
<1> HIDE DEF Good
<1>3. S \in Good
  BY <1>1, <1>2, SubsetsInduct
<1> QED
  BY <1>3 DEF Good

(* What finitely many elements stand for is finite.                          *)
LEMMA ImageIsFinite ==
    ASSUME NEW S, IsFiniteSet(S), NEW G
    PROVE  IsFiniteSet({G[x] : x \in S})
<1> DEFINE Image(T) == {G[x] : x \in T}
           Good == {T \in SUBSET S : IsFiniteSet(Image(T))}
<1>1. {} \in Good
  <2>1. Image({}) = {}
    OBVIOUS
  <2> HIDE DEF Image
  <2> QED
    BY <2>1, FS_EmptySet
<1>2. ASSUME NEW T \in SUBSET S, T # {}, \A x \in T : T \ {x} \in Good PROVE T \in Good
  <2>1. PICK x \in T : TRUE
    BY <1>2
  <2>2. IsFiniteSet(Image(T \ {x}))
    BY <1>2
  <2>3. Image(T) = Image(T \ {x}) \cup {G[x]}
    OBVIOUS
  <2> HIDE DEF Image
  <2>4. IsFiniteSet(Image(T \ {x}) \cup {G[x]})
    BY <2>2, FS_AddElement
  <2> QED
    BY <2>3, <2>4
<1>3. S \in Good
  <2> HIDE DEF Good
  <2> QED
    BY <1>1, <1>2, SubsetsInduct
<1> QED
  BY <1>3

(* A sum over what some elements stand for, one each, is one over these.      *)
LEMMA SumReindexed ==
    ASSUME NEW S, IsFiniteSet(S), NEW G, \A x, y \in S : G[x] = G[y] => x = y, NEW f, NEW h,
           \A x \in S : h[x] \in Int /\ f[G[x]] = h[x]
    PROVE  SumOver(f, {G[x] : x \in S}) = SumOver(h, S)
<1> DEFINE Image(T) == {G[x] : x \in T}
           Good == {T \in SUBSET S : SumOver(f, Image(T)) = SumOver(h, T)}
<1>1. {} \in Good
  <2>1. Image({}) = {}
    OBVIOUS
  <2> HIDE DEF Image
  <2> QED
    BY <2>1, SumOfNothing
<1>2. ASSUME NEW T \in SUBSET S, T # {}, \A x \in T : T \ {x} \in Good PROVE T \in Good
  <2>1. PICK x \in T : TRUE
    BY <1>2
  <2>2. IsFiniteSet(T) /\ IsFiniteSet(Image(T))
    BY FS_Subset, ImageIsFinite
  <2>3. Image(T \ {x}) = Image(T) \ {G[x]} /\ G[x] \in Image(T) /\ \A z \in Image(T) : f[z] \in Int
    OBVIOUS
  <2>4. SumOver(f, Image(T \ {x})) = SumOver(h, T \ {x})
    BY <1>2
  <2> HIDE DEF Image
  <2>5. SumOver(f, Image(T)) = f[G[x]] + SumOver(f, Image(T) \ {G[x]})
    BY <2>2, <2>3, SumWithout
  <2>6. SumOver(h, T) = h[x] + SumOver(h, T \ {x})
    BY <2>2, SumWithout
  <2> QED
    BY <2>3, <2>4, <2>5, <2>6
<1>3. S \in Good
  <2> HIDE DEF Good
  <2> QED
    BY <1>1, <1>2, SubsetsInduct
<1> QED
  BY <1>3

(* What belongs to one of several owners is counted once, with its owner's.   *)
OwnedBy(S, owner, e) == {x \in S : owner[x] = e}
LEMMA SumOfSums ==
    ASSUME NEW E, IsFiniteSet(E), NEW S, IsFiniteSet(S), NEW owner, \A x \in S : owner[x] \in E,
           NEW f, \A x \in S : f[x] \in Int,
           NEW total, \A e \in E : total[e] = SumOver(f, OwnedBy(S, owner, e))
    PROVE  SumOver(total, E) = SumOver(f, S)
<1> DEFINE Of(D) == {x \in S : owner[x] \in D}
           Good == {D \in SUBSET E : SumOver(total, D) = SumOver(f, Of(D))}
<1>1. {} \in Good
  <2>1. Of({}) = {}
    OBVIOUS
  <2> HIDE DEF Of
  <2> QED
    BY <2>1, SumOfNothing
<1>2. ASSUME NEW D \in SUBSET E, D # {}, \A e \in D : D \ {e} \in Good PROVE D \in Good
  <2>1. PICK e \in D : SumOver(total, D) = total[e] + SumOver(total, D \ {e})
    BY <1>2, FS_Subset, SumOfOthers
  <2> DEFINE P == {x \in S : owner[x] = e}
  <2>2. P \subseteq Of(D) /\ Of(D) \ P = Of(D \ {e}) /\ Of(D) \subseteq S
    OBVIOUS
  <2>3. IsFiniteSet(Of(D)) /\ \A x \in Of(D) : f[x] \in Int
    BY FS_Subset
  <2>4. SumOver(total, D \ {e}) = SumOver(f, Of(D \ {e})) /\ total[e] = SumOver(f, P)
    BY <1>2 DEF OwnedBy
  <2> HIDE DEF Of, P
  <2>5. SumOver(f, Of(D)) = SumOver(f, P) + SumOver(f, Of(D) \ P)
    BY <2>2, <2>3, SumSplits
  <2> QED
    BY <2>1, <2>2, <2>4, <2>5
<1>3. E \in Good
  <2> HIDE DEF Good
  <2> QED
    BY <1>1, <1>2, SubsetsInduct
<1>4. Of(E) = S
  OBVIOUS
<1> QED
  BY <1>3, <1>4

-----------------------------------------------------------------------------
(* The books of accounts and positions.                                     *)
OpenBets(pos, e) == {s \in Snapshots : pos[<<s, e>>].status = "OPEN"}

BooksBalance(acc, pos) ==
    \A e \in Experiments :
        /\ acc[e].status = "ABSENT" => OpenBets(pos, e) = {}
        /\ acc[e].status # "ABSENT" =>
               /\ acc[e].cash + acc[e].locked = InitialBankroll + acc[e].pnl
               /\ acc[e].locked = SumOver(Stakes(pos, e), OpenBets(pos, e))
               /\ acc[e].status = "BANKRUPT" <=> acc[e].cash + acc[e].locked = 0

(* A decision is a snapshot and an experiment.                              *)
LEMMA DecisionIsPair ==
    /\ \A s \in Snapshots, e \in Experiments : <<s, e>> \in Decisions
    /\ \A d \in Decisions : d[1] \in Snapshots /\ d[2] \in Experiments /\ d = <<d[1], d[2]>>
BY DEF Decisions

(* The books, for any accounts and positions: funding an account, placing a  *)
(* bet and settling a map keep them balanced.                                *)
TablesOK(acc, pos) == acc \in [Experiments -> Account] /\ pos \in [Decisions -> Position]

(* _money of an amount is a number of cents.                                 *)
LEMMA RoundedIsCount == ASSUME NEW a \in Nat, NEW b \in Nat PROVE Rounded(a * b) \in Nat
<1>1. PICK c : c = a * b
  OBVIOUS
<1>2. c \in Nat
  BY <1>1
<1>3. (c + 50) \div 100 \in Nat
  BY <1>2
<1> QED
  BY <1>1, <1>3 DEF Rounded

(* The sums of settle_map are over finitely many numbers of cents.           *)
LEMMA BetsAreFinite ==
    ASSUME NEW acc, NEW pos, TablesOK(acc, pos), NEW e \in Experiments, NEW outcome
    PROVE  /\ IsFiniteSet(OpenBets(pos, e))
           /\ \A s \in Snapshots : Stakes(pos, e)[s] = pos[<<s, e>>].stake
           /\ \A s \in Snapshots : Stakes(pos, e)[s] \in Nat
           /\ \A s \in Snapshots : Payouts(pos, e, outcome)[s] \in Nat
<1>1. IsFiniteSet(OpenBets(pos, e))
  BY PortfolioAssumption, FS_Subset DEF OpenBets
<1>2. ASSUME NEW s \in Snapshots
      PROVE  /\ Stakes(pos, e)[s] = pos[<<s, e>>].stake /\ Stakes(pos, e)[s] \in Nat
             /\ Payouts(pos, e, outcome)[s] \in Nat
  <2>1. pos[<<s, e>>] \in Position
    BY DecisionIsPair DEF TablesOK
  <2>2. pos[<<s, e>>].stake \in Nat
    BY <2>1 DEF Position
  <2>3. Stakes(pos, e)[s] = pos[<<s, e>>].stake
    BY DEF Stakes
  <2>4. Payouts(pos, e, outcome)[s] = Payout(<<s, e>>, pos[<<s, e>>], outcome)
    BY DEF Payouts
  <2>5. Rounded(pos[<<s, e>>].stake * Odds[s]) \in Nat
    BY <2>2, PortfolioAssumption, RoundedIsCount
  <2>6. Payout(<<s, e>>, pos[<<s, e>>], outcome) \in Nat
    BY <2>2, <2>5 DEF Payout
  <2> QED
    BY <2>2, <2>3, <2>4, <2>6
<1> QED
  BY <1>1, <1>2

(* _ensure_account opens balanced books.                                     *)
LEMMA FundingKeepsBooks ==
    ASSUME NEW acc, NEW pos, TablesOK(acc, pos), BooksBalance(acc, pos), NEW e \in Experiments,
           NEW new, new = [f \in Experiments |-> IF f = e THEN Funded(acc[e]) ELSE acc[f]]
    PROVE  /\ TablesOK(new, pos) /\ BooksBalance(new, pos)
           /\ \A f \in Experiments \ {e} : new[f] = acc[f]
           /\ new[e] = Funded(acc[e]) /\ new[e].status # "ABSENT"
           /\ acc[e].status # "ABSENT" => new[e] = acc[e]
<1>1. new[e] = Funded(acc[e]) /\ \A f \in Experiments \ {e} : new[f] = acc[f]
  OBVIOUS
<1>2. acc[e] \in Account
  BY DEF TablesOK
<1>3. new[e] \in Account /\ new[e].status # "ABSENT" /\ (acc[e].status # "ABSENT" => new[e] = acc[e])
  BY <1>1, <1>2, PortfolioAssumption DEF Funded, Account
<1>4. TablesOK(new, pos)
  BY <1>1, <1>3 DEF TablesOK
<1>5. BooksBalance(new, pos)
  <2> SUFFICES ASSUME NEW f \in Experiments
               PROVE  /\ new[f].status = "ABSENT" => OpenBets(pos, f) = {}
                      /\ new[f].status # "ABSENT" =>
                             /\ new[f].cash + new[f].locked = InitialBankroll + new[f].pnl
                             /\ new[f].locked = SumOver(Stakes(pos, f), OpenBets(pos, f))
                             /\ new[f].status = "BANKRUPT" <=> new[f].cash + new[f].locked = 0
    BY DEF BooksBalance
  <2>1. CASE f # e \/ acc[e].status # "ABSENT"
    BY <1>1, <1>3, <2>1 DEF BooksBalance
  <2>2. CASE f = e /\ acc[e].status = "ABSENT"
    <3>1. new[e] = [status |-> "ACTIVE", cash |-> InitialBankroll, locked |-> 0, pnl |-> 0]
      BY <1>1, <2>2 DEF Funded
    <3>2. SumOver(Stakes(pos, e), OpenBets(pos, e)) = 0
      BY <2>2, SumOfNothing DEF BooksBalance
    <3> QED
      BY <2>2, <3>1, <3>2, PortfolioAssumption
  <2> QED
    BY <2>1, <2>2
<1> QED
  BY <1>1, <1>3, <1>4, <1>5

Rewritten(pos, new, s, e, bet) ==
    /\ new \in [Decisions -> Position] /\ new[<<s, e>>] = bet
    /\ \A d \in Decisions : d # <<s, e>> => new[d] = pos[d]

(* record_decision_position: a refused stake leaves the books alone; an      *)
(* accepted one moves from the cash to what is locked.                       *)
LEMMA BetsOfOthers ==
    ASSUME NEW acc, NEW pos, TablesOK(acc, pos), NEW s \in Snapshots, NEW e \in Experiments,
           NEW bet \in Position, pos[<<s, e>>].status # "OPEN", NEW new,
           Rewritten(pos, new, s, e, bet)
    PROVE  /\ TablesOK(acc, new) /\ new[<<s, e>>] = bet
           /\ \A f \in Experiments \ {e} :
                  OpenBets(new, f) = OpenBets(pos, f) /\ Stakes(new, f) = Stakes(pos, f)
           /\ OpenBets(new, e) = OpenBets(pos, e) \cup (IF bet.status = "OPEN" THEN {s} ELSE {})
           /\ s \notin OpenBets(pos, e)
           /\ SumOver(Stakes(new, e), OpenBets(pos, e)) = SumOver(Stakes(pos, e), OpenBets(pos, e))
<1> DEFINE d == <<s, e>>
<1>1. d \in Decisions
  BY DecisionIsPair
<1>2. new[d] = bet /\ new \in [Decisions -> Position] /\ \A q \in Decisions \ {d} : new[q] = pos[q]
  BY <1>1 DEF TablesOK, Rewritten
<1>3. \A r \in Snapshots, f \in Experiments : r # s \/ f # e => new[<<r, f>>] = pos[<<r, f>>]
  <2> SUFFICES ASSUME NEW r \in Snapshots, NEW f \in Experiments, r # s \/ f # e
               PROVE  new[<<r, f>>] = pos[<<r, f>>]
    OBVIOUS
  <2>1. <<r, f>> \in Decisions \ {d}
    BY DecisionIsPair
  <2> HIDE DEF d
  <2> QED
    BY <1>2, <2>1
<1> HIDE DEF d
<1>4. ASSUME NEW f \in Experiments \ {e}
      PROVE  OpenBets(new, f) = OpenBets(pos, f) /\ Stakes(new, f) = Stakes(pos, f)
  BY <1>3 DEF OpenBets, Stakes
<1>5. new[<<s, e>>] = bet
  BY <1>2 DEF d
<1>6. OpenBets(new, e) = OpenBets(pos, e) \cup (IF bet.status = "OPEN" THEN {s} ELSE {})
  <2>1. \A r \in Snapshots : r # s => (new[<<r, e>>].status = "OPEN" <=> pos[<<r, e>>].status = "OPEN")
    BY <1>3
  <2> QED
    BY <1>5, <2>1 DEF OpenBets
<1>7. s \notin OpenBets(pos, e)
  BY DEF OpenBets
<1>8. TablesOK(acc, new)
  BY <1>2 DEF TablesOK
<1>9. SumOver(Stakes(new, e), OpenBets(pos, e)) = SumOver(Stakes(pos, e), OpenBets(pos, e))
  <2>1. \A r \in OpenBets(pos, e) : new[<<r, e>>] = pos[<<r, e>>] /\ r \in Snapshots
    BY <1>3, <1>7 DEF OpenBets
  <2>2. \A r \in OpenBets(pos, e) : Stakes(pos, e)[r] \in Nat /\ Stakes(pos, e)[r] = Stakes(new, e)[r]
    <3>1. \A r \in Snapshots : Stakes(pos, e)[r] = pos[<<r, e>>].stake /\ Stakes(pos, e)[r] \in Nat
      BY BetsAreFinite
    <3>2. \A r \in Snapshots : Stakes(new, e)[r] = new[<<r, e>>].stake
      BY DEF Stakes
    <3> QED
      BY <2>1, <3>1, <3>2
  <2>3. IsFiniteSet(OpenBets(pos, e))
    BY BetsAreFinite
  <2> QED
    BY <2>2, <2>3, SumsAlike
<1> QED
  BY <1>4, <1>5, <1>6, <1>7, <1>8, <1>9

(* A refused position changes no balance.                                    *)
LEMMA RefusalKeepsBooks ==
    ASSUME NEW acc, NEW pos, TablesOK(acc, pos), BooksBalance(acc, pos),
           NEW s \in Snapshots, NEW e \in Experiments, NEW bet \in Position,
           pos[<<s, e>>].status # "OPEN", bet.status # "OPEN", NEW new,
           Rewritten(pos, new, s, e, bet)
    PROVE  TablesOK(acc, new) /\ BooksBalance(acc, new)
<1>1. TablesOK(acc, new)
  BY BetsOfOthers
<1>2. ASSUME NEW f \in Experiments
      PROVE  /\ OpenBets(new, f) = OpenBets(pos, f)
             /\ SumOver(Stakes(new, f), OpenBets(pos, f)) = SumOver(Stakes(pos, f), OpenBets(pos, f))
  <2>1. OpenBets(new, e) = OpenBets(pos, e)
    <3>1. OpenBets(new, e) = OpenBets(pos, e) \cup (IF bet.status = "OPEN" THEN {s} ELSE {})
      BY BetsOfOthers
    <3> QED
      BY <3>1
  <2>2. SumOver(Stakes(new, e), OpenBets(pos, e)) = SumOver(Stakes(pos, e), OpenBets(pos, e))
    BY BetsOfOthers
  <2>3. CASE f # e
    <3>1. OpenBets(new, f) = OpenBets(pos, f) /\ Stakes(new, f) = Stakes(pos, f)
      BY <2>3, BetsOfOthers
    <3> QED
      BY <3>1
  <2> QED
    BY <2>1, <2>2, <2>3
<1> QED
  BY <1>1, <1>2 DEF BooksBalance

(* BET_PLACED moves the stake from the cash to what is locked.               *)
LEMMA BetKeepsBooks ==
    ASSUME NEW acc, NEW pos, TablesOK(acc, pos), BooksBalance(acc, pos),
           NEW s \in Snapshots, NEW e \in Experiments, NEW bet \in Position,
           pos[<<s, e>>].status # "OPEN", bet.status = "OPEN", acc[e].status # "ABSENT",
           bet.stake <= acc[e].cash, NEW new, Rewritten(pos, new, s, e, bet),
           NEW paid, paid = [acc EXCEPT ![e] = Reserved(@, bet)]
    PROVE  TablesOK(paid, new) /\ BooksBalance(paid, new)
<1>1. acc[e] \in Account /\ bet.stake \in Nat
  BY DEF TablesOK, Position
<1>2. /\ paid[e].cash = acc[e].cash - bet.stake /\ paid[e].locked = acc[e].locked + bet.stake
      /\ paid[e].status = acc[e].status /\ paid[e].pnl = acc[e].pnl /\ paid[e] \in Account
      /\ \A f \in Experiments \ {e} : paid[f] = acc[f]
  <2>1. paid[e] = Reserved(acc[e], bet) /\ \A f \in Experiments \ {e} : paid[f] = acc[f]
    BY DEF TablesOK
  <2>2. acc[e].cash - bet.stake \in Nat /\ acc[e].locked + bet.stake \in Nat
    BY <1>1 DEF Account
  <2>3. paid[e] = [acc[e] EXCEPT !.cash = acc[e].cash - bet.stake,
                                 !.locked = acc[e].locked + bet.stake]
    BY <2>1 DEF Reserved
  <2>4. PICK cash \in Nat, locked \in Nat :
            cash = acc[e].cash - bet.stake /\ locked = acc[e].locked + bet.stake
    BY <2>2
  <2>5. paid[e] = [acc[e] EXCEPT !.cash = cash, !.locked = locked]
    BY <2>3, <2>4
  <2>6. /\ paid[e].cash = cash /\ paid[e].locked = locked /\ paid[e].status = acc[e].status
        /\ paid[e].pnl = acc[e].pnl /\ paid[e] \in Account
    <3>1. PICK a : a = [acc[e] EXCEPT !.cash = cash]
      OBVIOUS
    <3>2. a \in Account /\ a.cash = cash /\ a.status = acc[e].status /\ a.pnl = acc[e].pnl
      BY <1>1, <3>1 DEF Account
    <3>3. paid[e] = [a EXCEPT !.locked = locked]
      BY <2>5, <3>1
    <3> QED
      BY <3>2, <3>3 DEF Account
  <2> QED
    BY <2>1, <2>4, <2>6
<1>3. TablesOK(paid, new)
  <2>1. TablesOK(acc, new)
    BY BetsOfOthers
  <2> QED
    BY <1>2, <2>1 DEF TablesOK
<1>4. BooksBalance(paid, new)
  <2> SUFFICES ASSUME NEW f \in Experiments
               PROVE  /\ paid[f].status = "ABSENT" => OpenBets(new, f) = {}
                      /\ paid[f].status # "ABSENT" =>
                             /\ paid[f].cash + paid[f].locked = InitialBankroll + paid[f].pnl
                             /\ paid[f].locked = SumOver(Stakes(new, f), OpenBets(new, f))
                             /\ paid[f].status = "BANKRUPT" <=> paid[f].cash + paid[f].locked = 0
    BY DEF BooksBalance
  <2>1. CASE f # e
    BY <1>2, <2>1, BetsOfOthers DEF BooksBalance
  <2>2. CASE f = e
    <3> DEFINE open == OpenBets(pos, e)
               all == OpenBets(new, e)
               stakes == Stakes(new, e)
    <3>1. all = open \cup {s} /\ s \notin open /\ new[<<s, e>>] = bet
      BY BetsOfOthers
    <3>2. SumOver(stakes, open) = acc[e].locked
      BY BetsOfOthers DEF BooksBalance
    <3>3. /\ IsFiniteSet(all) /\ stakes[s] = bet.stake
          /\ \A r \in all : stakes[r] \in Nat
      <4>1. IsFiniteSet(all) /\ \A r \in Snapshots : stakes[r] = new[<<r, e>>].stake /\ stakes[r] \in Nat
        BY <1>3, BetsAreFinite
      <4> QED
        BY <3>1, <4>1 DEF OpenBets
    <3> HIDE DEF open, all, stakes
    <3>4. SumOver(stakes, all) = stakes[s] + SumOver(stakes, all \ {s})
      BY <3>1, <3>3, SumWithout
    <3>5. all \ {s} = open
      BY <3>1
    <3>6. SumOver(stakes, all) = bet.stake + acc[e].locked
      BY <3>2, <3>3, <3>4, <3>5
    <3>7. /\ acc[e].cash + acc[e].locked = InitialBankroll + acc[e].pnl
          /\ acc[e].status = "BANKRUPT" <=> acc[e].cash + acc[e].locked = 0
      BY DEF BooksBalance
    <3>8. acc[e].cash \in Nat /\ acc[e].locked \in Nat /\ acc[e].pnl \in Int
      BY <1>1 DEF Account
    <3>9. paid[e].cash + paid[e].locked = acc[e].cash + acc[e].locked
      BY <1>1, <1>2, <3>8
    <3>10. paid[e].locked = SumOver(stakes, all)
      BY <1>1, <1>2, <3>6, <3>8
    <3> QED
      BY <1>2, <2>2, <3>7, <3>9, <3>10 DEF stakes, all
  <2> QED
    BY <2>1, <2>2
<1> QED
  BY <1>3, <1>4

(* settle_map: each account it found is credited for every open position it  *)
(* has on the map, nothing else changes, and nobody loses cash.              *)
LEMMA PositionsSettled ==
    ASSUME NEW acc, NEW pos, TablesOK(acc, pos), NEW m, NEW outcome, NEW found,
           NEW s \in Snapshots, NEW e \in Experiments, NEW new,
           new = SettledPositions(pos, m, outcome, found)
    PROVE  /\ new[<<s, e>>] \in Position /\ new[<<s, e>>].stake = pos[<<s, e>>].stake
           /\ new[<<s, e>>].reason = pos[<<s, e>>].reason
           /\ new[<<s, e>>].cash_before = pos[<<s, e>>].cash_before
           /\ new[<<s, e>>].status = "OPEN" <=>
                  pos[<<s, e>>].status = "OPEN" /\ ~ (e \in found /\ MapOf[s] = m)
           /\ pos[<<s, e>>].status = "ABSENT" <=> new[<<s, e>>].status = "ABSENT"
           /\ pos[<<s, e>>].status # "OPEN" => new[<<s, e>>] = pos[<<s, e>>]
<1> DEFINE d == <<s, e>>
           verdict == Verdict(pos[d], outcome)
<1>1. d \in Decisions /\ d[1] = s /\ d[2] = e
  BY DecisionIsPair
<1>2. pos[d] \in Position
  BY <1>1 DEF TablesOK
<1>3. verdict \in {"VOID", "WON", "LOST"}
  BY DEF Verdict
<1>4. new[d] = IF pos[d].status = "OPEN" /\ MapOf[s] = m /\ e \in found
               THEN [pos[d] EXCEPT !.status = verdict] ELSE pos[d]
  <2>1. d \in OpenOn(pos, m) <=> pos[d].status = "OPEN" /\ MapOf[s] = m
    BY <1>1 DEF OpenOn
  <2> QED
    BY <1>1, <2>1 DEF SettledPositions
<1>5. PICK p : p = pos[d]
  OBVIOUS
<1> HIDE DEF verdict
<1>6. PICK q : q = [p EXCEPT !.status = verdict]
  OBVIOUS
<1>7. /\ q \in Position /\ q.status = verdict /\ q.stake = p.stake /\ q.reason = p.reason
      /\ q.cash_before = p.cash_before
  BY <1>2, <1>3, <1>5, <1>6 DEF Position
<1>8. new[d] = IF p.status = "OPEN" /\ MapOf[s] = m /\ e \in found THEN q ELSE p
  BY <1>4, <1>5, <1>6
<1> HIDE DEF d
<1>9. /\ new[d] \in Position /\ new[d].stake = p.stake /\ new[d].reason = p.reason
      /\ new[d].cash_before = p.cash_before
      /\ new[d].status = "OPEN" <=> p.status = "OPEN" /\ ~ (e \in found /\ MapOf[s] = m)
      /\ p.status = "ABSENT" <=> new[d].status = "ABSENT"
      /\ p.status # "OPEN" => new[d] = p
  BY <1>2, <1>3, <1>5, <1>7, <1>8
<1> QED
  BY <1>5, <1>9 DEF d

(* settle_map releases the stakes of what it settles, and pays for it.       *)
LEMMA SettlingKeepsBooks ==
    ASSUME NEW acc, NEW pos, TablesOK(acc, pos), BooksBalance(acc, pos), NEW m, NEW outcome, NEW found,
           NEW new, new = SettledPositions(pos, m, outcome, found),
           NEW paid, paid = SettledAccounts(acc, pos, m, outcome, found)
    PROVE  /\ TablesOK(paid, new) /\ BooksBalance(paid, new)
           /\ \A e \in Experiments : /\ paid[e].cash >= acc[e].cash
                                     /\ acc[e].status # "ABSENT" => paid[e].status # "ABSENT"
<1>1. new \in [Decisions -> Position]
  <2>1. new = [d \in Decisions |-> new[d]]
    BY DEF SettledPositions
  <2>2. \A d \in Decisions : new[d] \in Position
    BY PositionsSettled, DecisionIsPair
  <2> QED
    BY <2>1, <2>2
<1>2. ASSUME NEW e \in Experiments
      PROVE  /\ paid[e] \in Account /\ paid[e].cash >= acc[e].cash
             /\ acc[e].status # "ABSENT" => paid[e].status # "ABSENT"
             /\ paid[e].status = "ABSENT" => OpenBets(new, e) = {}
             /\ paid[e].status # "ABSENT" =>
                    /\ paid[e].cash + paid[e].locked = InitialBankroll + paid[e].pnl
                    /\ paid[e].locked = SumOver(Stakes(new, e), OpenBets(new, e))
                    /\ paid[e].status = "BANKRUPT" <=> paid[e].cash + paid[e].locked = 0
  <2> DEFINE a == acc[e]
             open == OpenBets(pos, e)
             mine == {s \in Snapshots : <<s, e>> \in OpenOn(pos, m)}
             stakes == Stakes(pos, e)
             payouts == Payouts(pos, e, outcome)
             won == SumOver(payouts, mine)
             staked == SumOver(stakes, mine)
  <2>1. a \in Account
    BY DEF TablesOK
  <2>2. mine = {s \in Snapshots : pos[<<s, e>>].status = "OPEN" /\ MapOf[s] = m} /\ mine \subseteq open
    BY DecisionIsPair DEF OpenOn, OpenBets
  <2>3. IsFiniteSet(open) /\ IsFiniteSet(mine)
    BY <2>2, BetsAreFinite, FS_Subset
  <2>4. Stakes(new, e) = stakes
    BY PositionsSettled DEF Stakes
  <2>5. OpenBets(new, e) = IF e \in found THEN open \ mine ELSE open
    BY <2>2, PositionsSettled DEF OpenBets
  <2>6. paid[e] = IF e \in found /\ mine # {}
                  THEN [status |-> IF a.cash + won <= 0 /\ a.locked - staked <= 0
                                   THEN "BANKRUPT" ELSE "ACTIVE",
                        cash |-> a.cash + won, locked |-> a.locked - staked,
                        pnl |-> a.pnl + won - staked]
                  ELSE a
    BY DEF SettledAccounts
  <2>7. /\ a.status = "ABSENT" => open = {}
        /\ a.status # "ABSENT" =>
               /\ a.cash + a.locked = InitialBankroll + a.pnl
               /\ a.locked = SumOver(stakes, open)
               /\ a.status = "BANKRUPT" <=> a.cash + a.locked = 0
    BY DEF BooksBalance
  <2>8. won \in Nat /\ staked \in Nat /\ SumOver(stakes, open \ mine) \in Nat
        /\ SumOver(stakes, open) = staked + SumOver(stakes, open \ mine)
    <3>1. \A s \in open : stakes[s] \in Nat /\ payouts[s] \in Nat /\ s \in Snapshots
      BY BetsAreFinite DEF OpenBets
    <3>2. IsFiniteSet(open \ mine)
      BY <2>3, FS_Subset
    <3> HIDE DEF open, mine, stakes, payouts
    <3>3. won \in Nat
      BY <2>2, <2>3, <3>1, SumIsCount
    <3>4. staked \in Nat
      BY <2>2, <2>3, <3>1, SumIsCount
    <3>5. SumOver(stakes, open \ mine) \in Nat
      BY <2>2, <3>1, <3>2, SumIsCount
    <3>6. SumOver(stakes, open) = staked + SumOver(stakes, open \ mine)
      <4>1. \A s \in open : stakes[s] \in Nat
        BY <3>1
      <4>2. mine \subseteq open
        BY <2>2
      <4> QED
        BY <2>3, <4>1, <4>2, SumSplits DEF staked
    <3> QED
      BY <3>3, <3>4, <3>5, <3>6
  <2>9. PICK rest : rest = SumOver(stakes, open \ mine)
    OBVIOUS
  <2>10. a.cash \in Nat /\ a.locked \in Nat /\ a.pnl \in Int /\ InitialBankroll \in Nat
         /\ a.status \in {"ABSENT", "ACTIVE", "BANKRUPT"}
    BY <2>1, PortfolioAssumption DEF Account
  <2> HIDE DEF a, open, mine, stakes, payouts, won, staked
  <2>11. CASE e \in found /\ mine # {}
    <3>1. a.status # "ABSENT"
      BY <2>2, <2>7, <2>11
    <3>2. a.locked - staked = rest /\ rest \in Nat
      BY <2>7, <2>8, <2>9, <2>10, <3>1
    <3>3. paid[e] = [status |-> IF a.cash + won <= 0 /\ rest <= 0 THEN "BANKRUPT" ELSE "ACTIVE",
                     cash |-> a.cash + won, locked |-> rest, pnl |-> a.pnl + won - staked]
      BY <2>6, <2>11, <3>2
    <3>4. a.cash + won \in Nat /\ a.pnl + won - staked \in Int /\ a.cash + won >= a.cash
      BY <2>8, <2>10
    <3>5. a.cash + won + rest = InitialBankroll + (a.pnl + won - staked)
      <4>1. a.cash + a.locked = InitialBankroll + a.pnl
        BY <2>7, <3>1
      <4>2. PICK cash \in Nat, locked \in Nat, pnl \in Int, base \in Nat, w \in Nat, st \in Nat, left \in Nat :
                /\ cash = a.cash /\ locked = a.locked /\ pnl = a.pnl /\ base = InitialBankroll
                /\ w = won /\ st = staked /\ left = rest
        BY <2>8, <2>10, <3>2
      <4>3. cash + locked = base + pnl /\ locked - st = left
        BY <3>2, <4>1, <4>2
      <4>4. cash + w + left = base + (pnl + w - st)
        BY <4>3
      <4> QED
        BY <4>2, <4>4
    <3>6. /\ paid[e].cash = a.cash + won /\ paid[e].locked = rest
          /\ paid[e].pnl = a.pnl + won - staked /\ paid[e] \in Account
          /\ paid[e].status = IF a.cash + won <= 0 /\ rest <= 0 THEN "BANKRUPT" ELSE "ACTIVE"
      BY <3>2, <3>3, <3>4 DEF Account
    <3>7. paid[e].status = "BANKRUPT" <=> a.cash + won + rest = 0
      BY <3>2, <3>4, <3>6
    <3>8. paid[e].status # "ABSENT"
      BY <3>6
    <3>9. SumOver(Stakes(new, e), OpenBets(new, e)) = rest
      BY <2>4, <2>5, <2>9, <2>11
    <3> QED
      BY <3>4, <3>5, <3>6, <3>7, <3>8, <3>9 DEF a
  <2>12. CASE ~ (e \in found /\ mine # {})
    <3>1. paid[e] = a
      BY <2>6, <2>12
    <3>2. OpenBets(new, e) = open
      BY <2>5, <2>12
    <3> QED
      BY <2>1, <2>4, <2>7, <2>10, <3>1, <3>2 DEF a
  <2> QED
    BY <2>11, <2>12
<1>3. paid = [e \in Experiments |-> paid[e]]
  BY DEF SettledAccounts
<1>4. paid \in [Experiments -> Account]
  BY <1>2, <1>3
<1> QED
  BY <1>1, <1>2, <1>4 DEF TablesOK, BooksBalance

(* The stake of a BUY that validate_ai_decision let through: at most half a  *)
(* cent is asked for above what the account holds.                           *)
LEMMA NewBet ==
    ASSUME NEW s \in Snapshots, NEW side \in Sides, NEW bankroll \in Nat,
           NEW halves \in 1..(2 * bankroll + 1), NEW cash \in Nat, bankroll <= cash,
           NEW outcome, NEW late, NEW bet, bet = NewPosition(s, side, halves, cash, outcome, late)
    PROVE  /\ bet \in Position /\ bet.status \in {"OPEN", "REJECTED"}
           /\ bet.status = "OPEN" => bet.stake <= cash
           /\ bet.reason = "INSUFFICIENT_CASH" => bet.stake = bet.cash_before + 1
<1>1. PICK stake : stake = Cents(halves)
  OBVIOUS
<1>2. stake \in Nat /\ stake <= cash + 1
  <2>1. (halves + 1) \div 2 \in Nat /\ (halves + 1) \div 2 <= bankroll + 1
    OBVIOUS
  <2> QED
    BY <1>1, <2>1 DEF Cents
<1> DEFINE why == CASE outcome # "NONE" /\ late -> "MAP_ALREADY_SETTLED"
                    [] s \notin Executable -> "NOT_EXECUTABLE"
                    [] stake > cash -> "INSUFFICIENT_CASH"
                    [] OTHER -> "NONE"
<1>3. bet = [status |-> IF why = "NONE" THEN "OPEN" ELSE "REJECTED", side |-> side,
             stake |-> stake, cash_before |-> cash, reason |-> why]
  BY <1>1 DEF NewPosition
<1>4. /\ why \in {"NONE", "MAP_ALREADY_SETTLED", "NOT_EXECUTABLE", "INSUFFICIENT_CASH"}
      /\ why = "NONE" => ~ (stake > cash)
      /\ why = "INSUFFICIENT_CASH" => stake > cash
  OBVIOUS
<1> HIDE DEF why
<1>5. bet \in Position
  BY <1>2, <1>3, <1>4 DEF Position
<1>6. /\ bet.status = IF why = "NONE" THEN "OPEN" ELSE "REJECTED"
      /\ bet.stake = stake /\ bet.cash_before = cash /\ bet.reason = why
  BY <1>3
<1> QED
  BY <1>2, <1>4, <1>5, <1>6
=============================================================================
