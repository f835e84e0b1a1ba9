---------------------------- MODULE SetInduction ----------------------------
(***************************************************************************)
(* Induction over the natural numbers, stated with sets: to show a formula *)
(* of all k, show that {k : ...} holds 0 and is closed under + 1.  With it *)
(* the recursive functions of the models are reasoned about: what such a   *)
(* function computes is shown from its equation, and that it satisfies its *)
(* equation from FunctionBySteps.                                          *)
(***************************************************************************)
EXTENDS Naturals, Sequences, WellFoundedInduction, TLAPS

\* A set of natural numbers has a least element.
LEMMA LeastElement ==
    ASSUME NEW T \in SUBSET Nat, T # {}
    PROVE  \E x \in T : \A y \in T : x <= y
<1>1. PICK x \in T : \A y \in T : <<y, x>> \notin OpToRel(<, Nat)
    BY NatLessThanWellFounded, WFMin
<1>2. \A y \in T : ~(y < x)
    BY <1>1 DEF OpToRel
<1> QED BY <1>2

\* A set that holds 0, and with each number below n the next one, holds all
\* numbers up to n.
LEMMA UpToInduction ==
    ASSUME NEW n \in Nat, NEW T, 0 \in T,
           \A k \in 0..n : k \in T /\ k < n => k + 1 \in T
    PROVE  0..n \subseteq T
<1> SUFFICES ASSUME NEW m \in 0..n, m \notin T PROVE FALSE
    OBVIOUS
<1> DEFINE U == {k \in 0..n : k \notin T}
<1>1. U \in SUBSET Nat /\ U # {}
    OBVIOUS
<1>2. PICK x \in U : \A y \in U : x <= y
    BY <1>1, LeastElement
<1>3. x \in 0..n /\ x # 0 /\ x \notin T
    BY <1>2
<1>4. x - 1 \in 0..n /\ x - 1 < n /\ ~(x <= x - 1) /\ (x - 1) + 1 = x
    BY <1>3
<1>5. x - 1 \in T
    BY <1>2, <1>4
<1> QED BY <1>3, <1>4, <1>5

(***************************************************************************)
(* A function given by its value at 0 and, from the number and the value   *)
(* before it, at every other number up to n exists; F holds the steps.     *)
(***************************************************************************)
Follows(f, n, b, F) == f[0] = b /\ \A k \in 1..n : f[k] = F[<<k, f[k - 1]>>]

LEMMA FunctionBySteps ==
    ASSUME NEW n \in Nat, NEW S, NEW b \in S, NEW F \in [(1..n) \X S -> S]
    PROVE  \E f \in [0..n -> S] : Follows(f, n, b, F)
<1> DEFINE Steps(m, f) == f[0] = b /\ \A k \in 1..m : f[k] = F[<<k, f[k - 1]>>]
           T == {m \in 0..n : \E f \in [0..m -> S] : Steps(m, f)}
<1>1. 0 \in T
    <2> DEFINE f == [k \in 0..0 |-> b]
    <2>1. f \in [0..0 -> S] /\ f[0] = b
        OBVIOUS
    <2>2. 1..0 = {}
        OBVIOUS
    <2> HIDE DEF f
    <2>3. Steps(0, f)
        BY <2>1, <2>2
    <2> QED BY <2>1, <2>3
<1>2. ASSUME NEW m \in 0..n, m \in T, m < n
      PROVE  m + 1 \in T
    <2>1. PICK f \in [0..m -> S] : Steps(m, f)
        BY <1>2
    <2> DEFINE g == [k \in 0..(m + 1) |-> IF k = m + 1 THEN F[<<m + 1, f[m]>>] ELSE f[k]]
    <2>2. m + 1 \in 1..n /\ f[m] \in S
        BY <1>2
    <2>3. F[<<m + 1, f[m]>>] \in S
        BY <2>2
    <2>4. g \in [0..(m + 1) -> S]
        BY <2>1, <2>3
    <2>5. \A k \in 0..m : g[k] = f[k]
        OBVIOUS
    <2>6. g[m + 1] = F[<<m + 1, f[m]>>]
        OBVIOUS
    <2> HIDE DEF g
    <2>7. g[0] = b
        BY <2>1, <2>5
    <2>8. ASSUME NEW k \in 1..(m + 1) PROVE g[k] = F[<<k, g[k - 1]>>]
        <3>1. CASE k = m + 1
            <4>1. k - 1 = m /\ m \in 0..m
                BY <3>1
            <4> QED BY <3>1, <4>1, <2>5, <2>6
        <3>2. CASE k \in 1..m
            <4>1. k - 1 \in 0..m /\ k \in 0..m
                BY <3>2
            <4> QED BY <3>2, <4>1, <2>1, <2>5
        <3> QED BY <3>1, <3>2
    <2> QED BY <1>2, <2>4, <2>7, <2>8
<1> HIDE DEF T
<1>3. 0..n \subseteq T
    BY <1>1, <1>2, UpToInduction
<1>4. n \in T
    BY <1>3
<1>5. PICK f \in [0..n -> S] : Steps(n, f)
    BY <1>4 DEF T
<1> QED BY <1>5 DEF Follows
=============================================================================
