------------------------- MODULE RocLoweringProofs -------------------------
(***************************************************************************)
(* Theorems about RocLowering, for every set of programs: what ToMIRVisitor *)
(* pushes and pops, and what SmartTypeCaster puts around the arguments.    *)
(***************************************************************************)
EXTENDS RocLowering, RocResolversProofs

-----------------------------------------------------------------------------
(* The loop of SmartTypeCaster.                                             *)

\* The first k arguments all differ from their parameters.
AllDiffer(given, expected, k) == \A j \in 1..k : given[j] # expected[j]

LoopStep(given, expected, k, s) ==
    IF s.ends # "no" THEN s
    ELSE IF s.i > Len(expected) THEN [s EXCEPT !.ends = "uncaught"]
    ELSE IF given[k] = "none" THEN [s EXCEPT !.ends = "crashed"]
    ELSE IF given[k] = expected[s.i] THEN s
    ELSE [s EXCEPT !.to[s.i] = Coercion(given[k], expected[s.i]), !.i = @ + 1]

Loop(g, given, expected) ==
    g = [k \in 0..Len(given) |->
            IF k = 0 THEN [i |-> 1, to |-> [j \in DOMAIN given |-> Uncast], ends |-> "no"]
            ELSE LoopStep(given, expected, k, g[k - 1])]

LEMMA LoopExists ==
    ASSUME NEW given, Len(given) \in Nat, NEW expected
    PROVE  \E g : Loop(g, given, expected)
<1> DEFINE n == Len(given)
           first == [i |-> 1, to |-> [j \in DOMAIN given |-> Uncast], ends |-> "no"]
           Step(k, s) == LoopStep(given, expected, k, s)
           W(m, g) == g = [k \in 0..m |-> IF k = 0 THEN first ELSE Step(k, g[k - 1])]
           T == {m \in 0..n : \E g : W(m, g)}
<1> HIDE DEF Step, first
<1>1. n \in Nat
    OBVIOUS
<1>2. 0 \in T
    <2> DEFINE g == [k \in 0..0 |-> first]
    <2>1. \A k \in 0..0 : k = 0 /\ g[k] = first
        OBVIOUS
    <2>2. g = [k \in 0..0 |-> g[k]]
        OBVIOUS
    <2> HIDE DEF g
    <2>3. W(0, g)
        BY <2>1, <2>2
    <2> QED BY <2>3, <1>1
<1>3. ASSUME NEW m \in 0..n, m \in T, m < n PROVE m + 1 \in T
    <2>1. PICK g : W(m, g)
        BY <1>3
    <2> DEFINE h == [k \in 0..(m + 1) |-> IF k = m + 1 THEN Step(m + 1, g[m]) ELSE g[k]]
    <2>2. \A k \in 0..m : h[k] = g[k] /\ k # m + 1
        BY <1>1
    <2>3. h[m + 1] = Step(m + 1, g[m])
        OBVIOUS
    <2>4. h = [k \in 0..(m + 1) |-> h[k]]
        OBVIOUS
    <2> HIDE DEF h
    <2>5. ASSUME NEW k \in 0..(m + 1)
          PROVE  h[k] = IF k = 0 THEN first ELSE Step(k, h[k - 1])
        <3>1. CASE k = 0
            BY <3>1, <2>1, <2>2
        <3>2. CASE k \in 1..m
            <4>1. k \in 0..m /\ k - 1 \in 0..m /\ k # 0
                BY <3>2
            <4>2. g[k] = Step(k, g[k - 1])
                BY <4>1, <2>1
            <4> QED BY <4>1, <4>2, <2>2
        <3>3. CASE k = m + 1
            <4>1. k - 1 = m /\ m \in 0..m /\ k # 0
                BY <3>3
            <4> QED BY <4>1, <3>3, <2>2, <2>3
        <3> QED BY <3>1, <3>2, <3>3
    <2>6. W(m + 1, h)
        BY <2>4, <2>5
    <2>7. m + 1 \in 0..n
        BY <1>1, <1>3
    <2> QED BY <2>6, <2>7
<1> HIDE DEF T
<1>4. 0..n \subseteq T
    BY <1>1, <1>2, <1>3, UpToInduction
<1>5. n \in T
    BY <1>1, <1>4
<1>6. PICK g : W(n, g)
    BY <1>5 DEF T
<1>7. Loop(g, given, expected)
    BY <1>6 DEF Loop, Step, first
<1> QED BY <1>7

LEMMA CastLoopIs ==
    ASSUME NEW given, Len(given) \in Nat, NEW expected
    PROVE  \E g : Loop(g, given, expected) /\ CastLoop(given, expected) = g[Len(given)]
<1> DEFINE after == CHOOSE g : Loop(g, given, expected)
<1>1. Loop(after, given, expected)
    BY LoopExists
<1>2. CastLoop(given, expected) = after[Len(given)]
    BY DEF CastLoop, Loop, LoopStep
<1> QED BY <1>1, <1>2

\* An argument that differs, as all before it did, is made to fit.
LoopFits(given, expected, to, k) ==
    \A m \in 1..k : AllDiffer(given, expected, m) => to[m] = Coercion(given[m], expected[m])

LoopRecord(s, n) ==
    /\ s = [i |-> s.i, to |-> s.to, ends |-> s.ends]
    /\ s.i \in Nat /\ s.to = [j \in 1..n |-> s.to[j]]

LoopInv(given, expected, s, k) ==
    /\ LoopRecord(s, Len(given))
    /\ s.ends = "no" =>
          /\ LoopFits(given, expected, s.to, k)
          /\ \A m \in 1..k : AllDiffer(given, expected, m) => m < s.i
          /\ AllDiffer(given, expected, k) => s.i = k + 1

LEMMA LoopStepInv ==
    ASSUME NEW given, Len(given) \in Nat, NEW expected, NEW s,
           NEW k \in 1..Len(given), LoopInv(given, expected, s, k - 1)
    PROVE  LoopInv(given, expected, LoopStep(given, expected, k, s), k)
<1> DEFINE t == LoopStep(given, expected, k, s)
           n == Len(given)
<1>1. LoopRecord(s, n)
    BY DEF LoopInv
<1>2. CASE s.ends # "no"
    BY <1>2 DEF LoopStep, LoopInv
<1>3. CASE s.ends = "no" /\ s.i > Len(expected)
    <2>1. t = [s EXCEPT !.ends = "uncaught"]
        BY <1>3 DEF LoopStep
    <2>2. t = [i |-> s.i, to |-> s.to, ends |-> "uncaught"]
        BY <1>1, <2>1 DEF LoopRecord
    <2> QED BY <1>1, <2>2 DEF LoopInv, LoopRecord
<1>4. CASE s.ends = "no" /\ ~(s.i > Len(expected)) /\ given[k] = "none"
    <2>1. t = [s EXCEPT !.ends = "crashed"]
        BY <1>4 DEF LoopStep
    <2>2. t = [i |-> s.i, to |-> s.to, ends |-> "crashed"]
        BY <1>1, <2>1 DEF LoopRecord
    <2> QED BY <1>1, <2>2 DEF LoopInv, LoopRecord
<1> DEFINE D(m) == AllDiffer(given, expected, m)
<1>5. /\ \A m \in 1..k : D(m) /\ m = k => D(k - 1) /\ given[k] # expected[k]
      /\ k - 1 \in Nat /\ k \in Nat /\ n \in Nat
    BY DEF AllDiffer
<1>6. ASSUME s.ends = "no"
      PROVE  /\ \A m \in 1..(k - 1) : D(m) => s.to[m] = Coercion(given[m], expected[m]) /\ m < s.i
             /\ D(k - 1) => s.i = k
    BY <1>5, <1>6 DEF LoopInv, LoopFits
<1> HIDE DEF D
<1>7. CASE s.ends = "no" /\ ~(s.i > Len(expected)) /\ given[k] # "none" /\ given[k] = expected[s.i]
    <2>1. t = s
        BY <1>7 DEF LoopStep
    <2>2. ~D(k)
        BY <1>5, <1>6, <1>7
    <2>3. \A m \in 1..k : D(m) => m \in 1..(k - 1)
        BY <2>2, <1>5
    <2>4. LoopFits(given, expected, s.to, k)
        BY <2>3, <1>6, <1>7 DEF LoopFits, D
    <2>5. \A m \in 1..k : D(m) => m < s.i
        BY <2>3, <1>6, <1>7
    <2>6. LoopInv(given, expected, s, k)
        BY <2>2, <2>4, <2>5, <1>1 DEF LoopInv, D
    <2> QED BY <2>1, <2>6
<1>8. CASE s.ends = "no" /\ ~(s.i > Len(expected)) /\ given[k] # "none" /\ given[k] # expected[s.i]
    <2> DEFINE c == Coercion(given[k], expected[s.i])
    <2>1. t = [s EXCEPT !.to[s.i] = c, !.i = @ + 1]
        BY <1>8 DEF LoopStep
    <2>2. t = [i |-> s.i + 1, to |-> [s.to EXCEPT ![s.i] = c], ends |-> "no"]
        <3> HIDE DEF c
        <3> QED BY <1>1, <1>8, <2>1 DEF LoopRecord
    <2> HIDE DEF c, t
    <2>3. t.i = s.i + 1 /\ t.ends = "no" /\ t.to = [s.to EXCEPT ![s.i] = c]
        BY <2>2
    <2>4. t.to = [j \in 1..n |-> IF j = s.i THEN c ELSE s.to[j]]
        BY <2>3, <1>1 DEF LoopRecord
    <2>5. LoopRecord(t, n)
        <3>1. t = [i |-> t.i, to |-> t.to, ends |-> t.ends]
            BY <2>2, <2>3
        <3>2. t.i \in Nat
            BY <2>3, <1>1 DEF LoopRecord
        <3>3. t.to = [j \in 1..n |-> t.to[j]]
            BY <2>4
        <3> QED BY <3>1, <3>2, <3>3 DEF LoopRecord
    <2>6. \A m \in 1..k : m \in 1..n
        BY <1>5
    <2>7. ASSUME NEW m \in 1..k, D(m)
          PROVE  t.to[m] = Coercion(given[m], expected[m]) /\ m < t.i
        <3>1. CASE m = k
            <4>1. s.i = k
                BY <1>5, <1>6, <1>8, <2>7, <3>1
            <4>2. c = Coercion(given[m], expected[m])
                BY <4>1, <3>1 DEF c
            <4> QED BY <4>1, <4>2, <3>1, <2>3, <2>4, <2>6, <1>5
        <3>2. CASE m \in 1..(k - 1)
            <4>1. s.to[m] = Coercion(given[m], expected[m]) /\ m < s.i
                BY <3>2, <2>7, <1>6, <1>8
            <4>2. m # s.i /\ m < s.i + 1
                BY <4>1, <3>2, <1>1 DEF LoopRecord
            <4> QED BY <4>1, <4>2, <2>3, <2>4, <2>6
        <3> QED BY <3>1, <3>2, <1>5
    <2>8. D(k) => t.i = k + 1
        BY <1>5, <1>6, <1>8, <2>3
    <2>9. LoopFits(given, expected, t.to, k)
        BY <2>7 DEF LoopFits, D
    <2> QED BY <2>5, <2>7, <2>8, <2>9 DEF LoopInv, D, t
<1> QED BY <1>2, <1>3, <1>4, <1>7, <1>8

LEMMA CastLoopFits ==
    ASSUME NEW given, Len(given) \in Nat, DOMAIN given = 1..Len(given), NEW expected,
           CastLoop(given, expected).ends = "no"
    PROVE  LET to == CastLoop(given, expected).to
           IN to = [j \in 1..Len(given) |-> to[j]] /\ LoopFits(given, expected, to, Len(given))
<1> DEFINE n == Len(given)
<1>1. PICK g : Loop(g, given, expected) /\ CastLoop(given, expected) = g[n]
    BY CastLoopIs
<1> DEFINE T == {k \in 0..n : LoopInv(given, expected, g[k], k)}
<1>2. n \in Nat
    OBVIOUS
<1>3. 0 \in T
    <2>1. g[0] = [i |-> 1, to |-> [j \in 1..n |-> Uncast], ends |-> "no"]
        BY <1>1, <1>2 DEF Loop
    <2>2. g[0].i = 1 /\ g[0].ends = "no" /\ g[0].to = [j \in 1..n |-> Uncast]
        BY <2>1
    <2>3. LoopRecord(g[0], n)
        BY <2>1, <2>2 DEF LoopRecord
    <2>4. 1..0 = {}
        OBVIOUS
    <2>5. LoopFits(given, expected, g[0].to, 0)
        BY <2>4 DEF LoopFits
    <2>6. LoopInv(given, expected, g[0], 0)
        BY <2>2, <2>3, <2>4, <2>5 DEF LoopInv
    <2> QED BY <1>2, <2>6
<1>4. ASSUME NEW k \in 0..n, k \in T, k < n PROVE k + 1 \in T
    <2>1. k + 1 \in 1..n /\ k + 1 \in 0..n /\ k + 1 # 0 /\ (k + 1) - 1 = k
        BY <1>2, <1>4
    <2>2. g[k + 1] = LoopStep(given, expected, k + 1, g[k])
        BY <1>1, <2>1 DEF Loop
    <2>3. LoopInv(given, expected, g[k], k)
        BY <1>4
    <2>4. LoopInv(given, expected, LoopStep(given, expected, k + 1, g[k]), k + 1)
        BY <2>1, <2>3, LoopStepInv
    <2> QED BY <2>1, <2>2, <2>4
<1> HIDE DEF T
<1>5. 0..n \subseteq T
    BY <1>2, <1>3, <1>4, UpToInduction
<1>6. LoopInv(given, expected, g[n], n)
    BY <1>2, <1>5 DEF T
<1> QED BY <1>1, <1>6 DEF LoopInv, LoopRecord
-----------------------------------------------------------------------------
(* Sequences.                                                               *)

LEMMA SeqGrows ==
    ASSUME NEW S, NEW T, S \subseteq T
    PROVE  Seq(S) \subseteq Seq(T)
OBVIOUS

\* What was pushed last is what is popped, and what was below it is left.
LEMMA LastOfStackIs ==
    ASSUME NEW S, NEW s \in Seq(S), NEW t \in Seq(S)
    PROVE  /\ LastOfStack(s \o t, Len(t)) = t /\ Without(s \o t, Len(t)) = s
           /\ s \o t \in Seq(S) /\ Len(s \o t) = Len(s) + Len(t)
<1> DEFINE u == s \o t
           a == LastOfStack(u, Len(t))
           b == Without(u, Len(t))
<1>1. /\ u \in Seq(S) /\ Len(u) = Len(s) + Len(t) /\ Len(s) \in Nat /\ Len(t) \in Nat
      /\ \A i \in 1..Len(s) : u[i] = s[i]
      /\ \A i \in 1..Len(t) : u[i + Len(s)] = t[i]
    OBVIOUS
<1>2. s = [i \in 1..Len(s) |-> s[i]] /\ t = [i \in 1..Len(t) |-> t[i]]
    OBVIOUS
<1> HIDE DEF u
<1>3. a = [i \in 1..Len(t) |-> u[i + Len(s)]]
    <2>1. a = SubSeq(u, Len(s) + 1, Len(s) + Len(t))
        BY <1>1 DEF LastOfStack
    <2> QED BY <2>1, <1>1
<1>4. a = t
    BY <1>1, <1>2, <1>3
<1>5. b = [i \in 1..Len(s) |-> u[i]]
    <2>1. b = SubSeq(u, 1, Len(s))
        BY <1>1 DEF Without
    <2> QED BY <2>1, <1>1
<1>6. b = s
    BY <1>1, <1>2, <1>5
<1> QED BY <1>1, <1>4, <1>6 DEF u

LEMMA ConcatNothing ==
    ASSUME NEW S, NEW s \in Seq(S)
    PROVE  s \o <<>> = s /\ <<>> \o s = s
OBVIOUS

LEMMA ConcatOne ==
    ASSUME NEW S, NEW s \in Seq(S), NEW x \in S
    PROVE  /\ s \o <<x>> = Append(s, x) /\ Append(s, x) \in Seq(S)
           /\ Len(Append(s, x)) = Len(s) + 1 /\ Append(s, x) # <<>>
           /\ Last(Append(s, x)) = x /\ Front(Append(s, x)) = s
<1>1. s \o <<x>> = Append(s, x) /\ Append(s, x) \in Seq(S) /\ Len(Append(s, x)) = Len(s) + 1
    OBVIOUS
<1>2. Append(s, x) # <<>> /\ Last(Append(s, x)) = x
    BY DEF Last
<1>3. Front(Append(s, x)) = s
    BY DEF Front
<1> QED BY <1>1, <1>2, <1>3

\* A beginning of v, and the next element.
Beginning(v, k) == [i \in 1..k |-> v[i]]

LEMMA BeginningIs ==
    ASSUME NEW S, NEW v \in Seq(S)
    PROVE  /\ Beginning(v, 0) = <<>> /\ Beginning(v, Len(v)) = v
           /\ \A k \in 0..Len(v) : Beginning(v, k) \in Seq(S) /\ Len(Beginning(v, k)) = k
           /\ \A k \in 1..Len(v) : Beginning(v, k) = Append(Beginning(v, k - 1), v[k])
<1>1. Beginning(v, 0) = <<>> /\ Beginning(v, Len(v)) = v
    BY DEF Beginning
<1>2. ASSUME NEW k \in 0..Len(v)
      PROVE  Beginning(v, k) \in Seq(S) /\ Len(Beginning(v, k)) = k
    BY DEF Beginning
<1>3. ASSUME NEW k \in 1..Len(v) PROVE Beginning(v, k) = Append(Beginning(v, k - 1), v[k])
    <2> DEFINE a == Beginning(v, k)
               b == Append(Beginning(v, k - 1), v[k])
    <2>1. k \in Nat /\ k - 1 \in Nat /\ (k - 1) + 1 = k
        OBVIOUS
    <2>2. b = [i \in 1..k |-> IF i = k THEN v[k] ELSE v[i]]
        BY <2>1 DEF Beginning
    <2>3. a = [i \in 1..k |-> v[i]]
        BY DEF Beginning
    <2> QED BY <2>2, <2>3
<1> QED BY <1>1, <1>2, <1>3

LEMMA ConcatNext ==
    ASSUME NEW S, NEW s \in Seq(S), NEW v \in Seq(S), NEW k \in 1..Len(v)
    PROVE  /\ (s \o Beginning(v, k - 1)) \o <<v[k]>> = s \o Beginning(v, k)
           /\ Append(s \o Beginning(v, k - 1), v[k]) = s \o Beginning(v, k)
<1> DEFINE b == Beginning(v, k - 1)
<1>1. v[k] \in S /\ k - 1 \in 0..Len(v)
    OBVIOUS
<1>2. b \in Seq(S) /\ Beginning(v, k) = Append(b, v[k])
    BY <1>1, BeginningIs
<1> HIDE DEF b
<1> DEFINE x == v[k]
           l == Append(s \o b, x)
           r == s \o Append(b, x)
           n == Len(s) + Len(b)
<1> HIDE DEF x
<1>3. n \in Nat /\ x \in S
    BY <1>1, <1>2 DEF x
<1>4. l \in Seq(S) /\ r \in Seq(S) /\ Len(l) = n + 1 /\ Len(r) = n + 1
    BY <1>2, <1>3
<1>5. \A i \in 1..(n + 1) : l[i] = r[i]
    BY <1>2, <1>3
<1>6. (s \o b) \o <<x>> = l
    BY <1>2, <1>3, ConcatOne
<1> HIDE DEF l, r, n
<1>7. l = [i \in 1..(n + 1) |-> l[i]] /\ r = [i \in 1..(n + 1) |-> r[i]]
    BY <1>4
<1>8. l = r
    BY <1>5, <1>7
<1> QED BY <1>2, <1>6, <1>8 DEF b, l, r, x

-----------------------------------------------------------------------------
(* The children of a node.                                                  *)

FirstKid(q) == CASE Kind(q) = "fun" -> 4 [] Kind(q) = "call" -> 2 [] OTHER -> 1

LEMMA ChildrenFrom ==
    ASSUME Rooted, NEW q, IsExpression(q)
    PROVE  /\ q \in Seq(Nat) /\ FirstKid(q) \in Nat \ {0}
           /\ Len(Children(q)) \in Nat /\ DOMAIN Children(q) = 1..Len(Children(q))
           /\ Children(q) = [c \in 1..Len(Children(q)) |-> Kid(q, c + FirstKid(q) - 1)]
<1> DEFINE m == Len(At(q).kids)
<1>1. q \in Seq(Nat) /\ At(q) \in Nodes /\ m \in Nat
    <2>1. q \in Seq(Nat) /\ At(q) \in Nodes
        BY ExpressionNode
    <2> QED BY <2>1, NodesAre
<1>2. Kind(q) = "call" => m >= 1
    BY <1>1, NodesAre DEF Kind
<1>3. CASE Kind(q) = "fun"
    <2>1. FirstKid(q) = 4
        BY <1>3 DEF FirstKid
    <2>2. Children(q) = <<Kid(q, 4)>>
        BY <1>3 DEF Children, Body
    <2>3. Children(q) = [c \in 1..1 |-> Kid(q, c + FirstKid(q) - 1)]
        BY <2>1, <2>2
    <2> QED BY <1>1, <2>1, <2>2, <2>3
<1> HIDE DEF m
<1>4. CASE Kind(q) = "call"
    <2>1. FirstKid(q) = 2
        BY <1>4 DEF FirstKid
    <2>2. Children(q) = [k \in 1..(m - 2 + 1) |-> Kid(q, 2 + k - 1)]
        BY <1>4 DEF Children, Arguments, Kids, m
    <2>3. m - 2 + 1 \in Nat
        BY <1>1, <1>2, <1>4
    <2>4. \A k \in 1..(m - 2 + 1) : 2 + k - 1 = k + FirstKid(q) - 1
        BY <2>1, <2>3
    <2>5. Len(Children(q)) = m - 2 + 1 /\ DOMAIN Children(q) = 1..(m - 2 + 1)
        BY <2>2, <2>3
    <2> QED BY <1>1, <2>1, <2>2, <2>3, <2>4, <2>5
<1>5. CASE Kind(q) \notin {"fun", "call"}
    <2>1. FirstKid(q) = 1
        BY <1>5 DEF FirstKid
    <2>2. CASE Kind(q) \in Names \union Numbers \union {"string"}
        <3>1. Children(q) = <<>>
            BY <1>5, <2>2 DEF Children
        <3>2. Len(Children(q)) = 0 /\ DOMAIN Children(q) = 1..0
            BY <3>1
        <3>3. Children(q) = [c \in 1..0 |-> Kid(q, c + FirstKid(q) - 1)]
            BY <3>1
        <3> QED BY <1>1, <2>1, <3>2, <3>3
    <2>3. CASE Kind(q) \notin Names \union Numbers \union {"string"}
        <3>1. Children(q) = [k \in 1..(m - 1 + 1) |-> Kid(q, 1 + k - 1)]
            BY <1>5, <2>3 DEF Children, Kids, m
        <3>2. m - 1 + 1 = m /\ \A k \in 1..m : 1 + k - 1 = k + FirstKid(q) - 1
            BY <1>1, <2>1
        <3>3. Children(q) = [k \in 1..m |-> Kid(q, k + FirstKid(q) - 1)]
            BY <3>1, <3>2
        <3>4. Len(Children(q)) = m /\ DOMAIN Children(q) = 1..m
            BY <1>1, <3>3
        <3> QED BY <1>1, <2>1, <3>3, <3>4
    <2> QED BY <2>2, <2>3
<1> QED BY <1>3, <1>4, <1>5

LEMMA KidPath ==
    ASSUME NEW q \in Seq(Nat), NEW i \in Nat
    PROVE  /\ Parent(Kid(q, i)) = q /\ Last(Kid(q, i)) = i /\ Kid(q, i) \in Seq(Nat)
           /\ Kid(q, i) # <<>> /\ Len(Kid(q, i)) = Len(q) + 1
           /\ q # <<>> => Kid(q, i)[1] = q[1]
BY DEF Parent, Front, Last, Kid

LEMMA ValuesAre ==
    ASSUME Rooted, NEW q, IsExpression(q)
    PROVE  /\ ValuesOf(Children(q)) \in Seq(Seq(Nat))
           /\ Len(ValuesOf(Children(q))) = Len(Children(q)) /\ ValueOf(q) \in Seq(Nat)
           /\ \A c \in 1..Len(Children(q)) : ValuesOf(Children(q))[c] = ValueOf(Children(q)[c])
<1>1. \A p : IsExpression(p) => ValueOf(p) \in Seq(Nat)
    <2>1. \A p : IsExpression(p) => p \in Seq(Nat)
        BY DEF IsExpression
    <2>2. \A p \in Seq(Nat) : Kid(p, 2) \in Seq(Nat)
        BY DEF Kid
    <2> QED BY <2>1, <2>2 DEF ValueOf
<1> DEFINE n == Len(Children(q))
<1>2. n \in Nat /\ DOMAIN Children(q) = 1..n
    BY ChildrenFrom
<1>3. \A c \in 1..n : ValueOf(Children(q)[c]) \in Seq(Nat)
    BY <1>1, <1>2, ChildrenAreExpressions
<1>4. ValuesOf(Children(q)) = [c \in 1..n |-> ValueOf(Children(q)[c])]
    BY <1>2 DEF ValuesOf
<1> HIDE DEF n
<1>5. ValuesOf(Children(q)) \in Seq(Seq(Nat)) /\ Len(ValuesOf(Children(q))) = n
    BY <1>2, <1>3, <1>4
<1> QED BY <1>1, <1>4, <1>5 DEF n
-----------------------------------------------------------------------------
(* The stack discipline of ToMIRVisitor, node by node.                      *)

\* The values of the children of these are popped one by one, and held.
Holding(p) == Kind(p) \in {"block", "if"}

\* The values of the siblings visited before p that are not popped yet.
Earlier(p) ==
    LET q == Parent(p)
    IN IF Kind(q) = "module" THEN <<>>
       ELSE [k \in 1..(Last(p) - FirstKid(q)) |-> ValueOf(Kid(q, k + FirstKid(q) - 1))]

\* valueStack, and what is held, when the visit of p begins: below the
\* module both are empty, and each step down adds what the siblings left.
Bottom == [values |-> <<>>, held |-> <<>>]
Deeper(s, p) ==
    IF Holding(Parent(p)) THEN [values |-> s.values, held |-> s.held \o Earlier(p)]
                          ELSE [values |-> s.values \o Earlier(p), held |-> s.held]
Found(p) ==
    LET found[k \in 0..Len(p)] ==
            IF k = 0 THEN Bottom ELSE Deeper(found[k - 1], SubSeq(p, 1, k))
    IN found[Len(p)]
Stack(p) == Found(p).values
Held(p) == Found(p).held

Way(g, p) ==
    g = [k \in 0..Len(p) |-> IF k = 0 THEN Bottom ELSE Deeper(g[k - 1], SubSeq(p, 1, k))]

LEMMA WayExists ==
    ASSUME NEW p \in Seq(Nat)
    PROVE  \E g : Way(g, p)
<1> DEFINE n == Len(p)
           Step(k, s) == Deeper(s, SubSeq(p, 1, k))
           W(m, g) == g = [k \in 0..m |-> IF k = 0 THEN Bottom ELSE Step(k, g[k - 1])]
           T == {m \in 0..n : \E g : W(m, g)}
<1> HIDE DEF Step
<1>1. n \in Nat
    OBVIOUS
<1>2. 0 \in T
    <2> DEFINE g == [k \in 0..0 |-> Bottom]
    <2>1. \A k \in 0..0 : k = 0 /\ g[k] = Bottom
        OBVIOUS
    <2>2. g = [k \in 0..0 |-> g[k]]
        OBVIOUS
    <2> HIDE DEF g
    <2>3. W(0, g)
        BY <2>1, <2>2
    <2> QED BY <2>3, <1>1
<1>3. ASSUME NEW m \in 0..n, m \in T, m < n PROVE m + 1 \in T
    <2>1. PICK g : W(m, g)
        BY <1>3
    <2> DEFINE h == [k \in 0..(m + 1) |-> IF k = m + 1 THEN Step(m + 1, g[m]) ELSE g[k]]
    <2>2. \A k \in 0..m : h[k] = g[k] /\ k # m + 1
        BY <1>1
    <2>3. h[m + 1] = Step(m + 1, g[m])
        OBVIOUS
    <2>4. h = [k \in 0..(m + 1) |-> h[k]]
        OBVIOUS
    <2> HIDE DEF h
    <2>5. ASSUME NEW k \in 0..(m + 1)
          PROVE  h[k] = IF k = 0 THEN Bottom ELSE Step(k, h[k - 1])
        <3>1. CASE k = 0
            BY <3>1, <2>1, <2>2
        <3>2. CASE k \in 1..m
            <4>1. k \in 0..m /\ k - 1 \in 0..m /\ k # 0
                BY <3>2
            <4>2. g[k] = Step(k, g[k - 1])
                BY <4>1, <2>1
            <4> QED BY <4>1, <4>2, <2>2
        <3>3. CASE k = m + 1
            <4>1. k - 1 = m /\ m \in 0..m /\ k # 0
                BY <3>3
            <4> QED BY <4>1, <3>3, <2>2, <2>3
        <3> QED BY <3>1, <3>2, <3>3
    <2>6. W(m + 1, h)
        BY <2>4, <2>5
    <2>7. m + 1 \in 0..n
        BY <1>1, <1>3
    <2> QED BY <2>6, <2>7
<1> HIDE DEF T
<1>4. 0..n \subseteq T
    BY <1>1, <1>2, <1>3, UpToInduction
<1>5. n \in T
    BY <1>1, <1>4
<1>6. PICK g : W(n, g)
    BY <1>5 DEF T
<1>7. Way(g, p)
    BY <1>6 DEF Way, Step
<1> QED BY <1>7

LEMMA FoundWay ==
    ASSUME NEW p \in Seq(Nat)
    PROVE  \E g : Way(g, p) /\ Found(p) = g[Len(p)]
<1> DEFINE found == CHOOSE g : Way(g, p)
<1>1. Way(found, p)
    BY WayExists
<1>2. Found(p) = found[Len(p)]
    BY DEF Found, Way
<1> QED BY <1>1, <1>2

LEMMA FoundModule == Stack(<<>>) = <<>> /\ Held(<<>>) = <<>>
<1>1. <<>> \in Seq(Nat) /\ Len(<<>>) = 0
    OBVIOUS
<1>2. PICK g : Way(g, <<>>) /\ Found(<<>>) = g[Len(<<>>)]
    BY <1>1, FoundWay
<1>3. Found(<<>>) = Bottom
    BY <1>1, <1>2 DEF Way
<1> QED BY <1>3 DEF Stack, Held, Bottom

\* One step down.
LEMMA FoundKid ==
    ASSUME NEW p \in Seq(Nat), NEW i \in Nat
    PROVE  Found(Kid(p, i)) = Deeper(Found(p), Kid(p, i))
<1> DEFINE q == Kid(p, i)
           n == Len(p)
<1>1. q \in Seq(Nat) /\ Len(q) = n + 1 /\ n \in Nat
      /\ \A k \in 1..n : SubSeq(q, 1, k) = SubSeq(p, 1, k)
      /\ SubSeq(q, 1, n + 1) = q
    BY DEF Kid
<1> HIDE DEF q
<1>2. PICK g : Way(g, p) /\ Found(p) = g[n]
    BY FoundWay
<1>3. PICK h : Way(h, q) /\ Found(q) = h[Len(q)]
    BY <1>1, FoundWay
<1> DEFINE T == {m \in 0..n : g[m] = h[m]}
<1> HIDE DEF n
<1>4. \A k \in 0..n : g[k] = IF k = 0 THEN Bottom ELSE Deeper(g[k - 1], SubSeq(p, 1, k))
    BY <1>2 DEF Way, n
<1>5. \A k \in 0..(n + 1) : h[k] = IF k = 0 THEN Bottom ELSE Deeper(h[k - 1], SubSeq(q, 1, k))
    BY <1>1, <1>3 DEF Way
<1>6. 0 \in T
    BY <1>1, <1>4, <1>5
<1>7. ASSUME NEW m \in 0..n, m \in T, m < n PROVE m + 1 \in T
    <2>1. m + 1 \in 0..n /\ m + 1 \in 0..(n + 1) /\ m + 1 # 0 /\ (m + 1) - 1 = m /\ m + 1 \in 1..n
        BY <1>1, <1>7
    <2>2. g[m + 1] = Deeper(g[m], SubSeq(p, 1, m + 1))
        BY <2>1, <1>4
    <2>3. h[m + 1] = Deeper(h[m], SubSeq(q, 1, m + 1))
        BY <2>1, <1>5
    <2>4. SubSeq(q, 1, m + 1) = SubSeq(p, 1, m + 1) /\ g[m] = h[m]
        BY <2>1, <1>1, <1>7
    <2> QED BY <2>1, <2>2, <2>3, <2>4
<1> HIDE DEF T
<1>8. 0..n \subseteq T
    BY <1>1, <1>6, <1>7, UpToInduction
<1>9. g[n] = h[n]
    BY <1>1, <1>8 DEF T
<1>10. n + 1 \in 0..(n + 1) /\ n + 1 # 0 /\ (n + 1) - 1 = n
    BY <1>1
<1>11. h[n + 1] = Deeper(h[n], q)
    <2>1. h[n + 1] = Deeper(h[(n + 1) - 1], SubSeq(q, 1, n + 1))
        BY <1>5, <1>10
    <2>2. SubSeq(q, 1, n + 1) = q
        BY <1>1
    <2>3. (n + 1) - 1 = n
        BY <1>10
    <2>4. h[n + 1] = Deeper(h[n], SubSeq(q, 1, n + 1))
        BY <2>1, <2>3
    <2> QED BY <2>2, <2>4
<1> QED BY <1>1, <1>2, <1>3, <1>9, <1>11 DEF q

\* What the siblings before the c-th child left.
LEMMA EarlierIs ==
    ASSUME Rooted, NEW q, IsExpression(q), Kind(q) # "module", NEW c \in 1..Len(Children(q))
    PROVE  Earlier(Children(q)[c]) = Beginning(ValuesOf(Children(q)), c - 1)
<1> DEFINE n == Len(Children(q))
           f == FirstKid(q)
           d == Children(q)[c]
<1>1. /\ q \in Seq(Nat) /\ f \in Nat \ {0} /\ n \in Nat /\ DOMAIN Children(q) = 1..n
      /\ \A k \in 1..n : Children(q)[k] = Kid(q, k + f - 1)
    BY ChildrenFrom
<1> HIDE DEF f, n
<1>2. c + f - 1 \in Nat /\ d = Kid(q, c + f - 1)
    BY <1>1 DEF n
<1>3. Parent(d) = q /\ Last(d) = c + f - 1
    BY <1>1, <1>2, KidPath
<1> HIDE DEF d
<1>4. Earlier(d) = [k \in 1..(c + f - 1 - f) |-> ValueOf(Kid(q, k + f - 1))]
    <2>1. Earlier(d) = [k \in 1..(Last(d) - FirstKid(Parent(d))) |->
                           ValueOf(Kid(Parent(d), k + FirstKid(Parent(d)) - 1))]
        BY <1>3 DEF Earlier
    <2>2. FirstKid(Parent(d)) = f
        BY <1>3 DEF f
    <2>3. Last(d) = c + f - 1
        BY <1>3
    <2>4. Earlier(d) = [k \in 1..(Last(d) - f) |-> ValueOf(Kid(q, k + f - 1))]
        BY <2>1, <2>2, <1>3
    <2> QED BY <2>3, <2>4, <1>1
<1>5. c \in 1..n
    BY DEF n
<1>6. c + f - 1 - f = c - 1
    BY <1>1, <1>5
<1>7. \A k \in 1..(c - 1) : ValuesOf(Children(q))[k] = ValueOf(Kid(q, k + f - 1))
    <2>1. \A k \in 1..(c - 1) : k \in 1..n
        BY <1>1, <1>5
    <2> QED BY <2>1, <1>1 DEF ValuesOf
<1> QED BY <1>4, <1>6, <1>7 DEF Beginning, d

\* The stacks the visit of the c-th child finds.
LEMMA ChildFinds ==
    ASSUME Rooted, NEW q, IsExpression(q), NEW c \in 1..Len(Children(q))
    PROVE  LET d == Children(q)[c]
               before == Beginning(ValuesOf(Children(q)), c - 1)
           IN /\ Parent(d) = q
              /\ Kind(q) = "module" =>
                    Stack(d) = Stack(q) \o <<>> /\ Held(d) = Held(q)
              /\ Holding(q) => Stack(d) = Stack(q) /\ Held(d) = Held(q) \o before
              /\ ~Holding(q) /\ Kind(q) # "module" =>
                    Stack(d) = Stack(q) \o before /\ Held(d) = Held(q)
<1> DEFINE d == Children(q)[c]
           i == c + FirstKid(q) - 1
<1>1. q \in Seq(Nat) /\ i \in Nat /\ d = Kid(q, i)
    BY ChildrenFrom
<1> HIDE DEF i, d
<1>2. Parent(d) = q
    BY <1>1, KidPath
<1>3. Found(d) = Deeper(Found(q), d)
    BY <1>1, FoundKid
<1>4. Kind(q) = "module" => Earlier(d) = <<>> /\ ~Holding(q)
    BY <1>2 DEF Earlier, Holding
<1>5. Kind(q) # "module" => Earlier(d) = Beginning(ValuesOf(Children(q)), c - 1)
    BY EarlierIs DEF d
<1>6. Holding(q) => Stack(d) = Stack(q) /\ Held(d) = Held(q) \o Earlier(d)
    BY <1>2, <1>3 DEF Deeper, Stack, Held
<1>7. ~Holding(q) => Stack(d) = Stack(q) \o Earlier(d) /\ Held(d) = Held(q)
    BY <1>2, <1>3 DEF Deeper, Stack, Held
<1>8. Holding(q) => Kind(q) # "module"
    BY DEF Holding
<1> QED BY <1>2, <1>4, <1>5, <1>6, <1>7, <1>8 DEF d
-----------------------------------------------------------------------------
(* The kinds of nodes, and where they stand.                                *)

LEMMA KidIsChild ==
    ASSUME Rooted, NEW q, IsExpression(q), NEW i \in ExpressionKids(At(q))
    PROVE  \E c \in 1..Len(Children(q)) : Kid(q, i) = Children(q)[c]
<1>1. q \in Seq(Nat) /\ i \in Nat /\ IsExpression(Kid(q, i)) /\ Len(Kid(q, i)) = Len(q) + 1
    BY ExpressionNode, KidIsExpression
<1> DEFINE p == Kid(q, i)
<1>2. Above(q, p) /\ p # q /\ p \in Seq(Nat) /\ Len(q) \in Nat
    <2>1. p \in Seq(Nat) /\ Len(p) = Len(q) + 1 /\ Len(q) \in Nat /\ SubSeq(p, 1, Len(q)) = q
        BY <1>1 DEF Kid
    <2> HIDE DEF p
    <2>2. Len(q) <= Len(p) /\ Len(p) # Len(q)
        <3>1. \A n \in Nat : n <= n + 1 /\ n + 1 # n
            OBVIOUS
        <3> QED BY <2>1, <3>1, Zenon
    <2> QED BY <2>1, <2>2, <1>1 DEF Above
<1> HIDE DEF p
<1>3. PICK c \in DOMAIN Children(q) : Above(Children(q)[c], p)
    BY <1>1, <1>2, ChildrenCover DEF p
<1>4. PICK j \in ExpressionKids(At(q)) : j \in Nat /\ Children(q)[c] = Kid(q, j)
    BY ChildrenAreExpressions
<1>5. Len(Children(q)[c]) = Len(p)
    BY <1>1, <1>4, KidIsExpression DEF p
<1>6. Children(q)[c] = p
    <2>1. Children(q)[c] = SubSeq(p, 1, Len(p))
        BY <1>3, <1>5 DEF Above
    <2> QED BY <2>1, <1>2, PathIsItsOwn
<1>7. DOMAIN Children(q) = 1..Len(Children(q))
    BY ChildrenFrom
<1> QED BY <1>3, <1>6, <1>7 DEF p

\* Every other expression is a child of one.
LEMMA ParentOf ==
    ASSUME Rooted, NEW p, IsExpression(p), p # <<>>
    PROVE  /\ IsExpression(Parent(p)) /\ Last(p) \in ExpressionKids(At(Parent(p)))
           /\ p = Kid(Parent(p), Last(p))
           /\ \E c \in 1..Len(Children(Parent(p))) : p = Children(Parent(p))[c]
<1> DEFINE n == Len(p)
           q == SubSeq(p, 1, n - 1)
<1>1. p \in Seq(Nat) /\ n \in Nat /\ n \in 1..n /\ SubSeq(p, 1, n) = p
    BY DEF IsExpression
<1>2. Parent(p) = q /\ Last(p) = p[n]
    BY DEF Parent, Front, Last
<1>3. p = Kid(q, p[n]) /\ q \in Seq(Nat) /\ Len(q) = n - 1
    BY <1>1, KidOf
<1>4. p[n] \in ExpressionKids(At(q))
    BY <1>1 DEF IsExpression
<1>5. \A k \in 1..(n - 1) : q[k] = p[k] /\ SubSeq(q, 1, k - 1) = SubSeq(p, 1, k - 1) /\ k \in 1..n
    BY <1>1
<1> HIDE DEF q, n
<1>6. IsExpression(q)
    <2>1. \A k \in 1..n : p[k] \in ExpressionKids(At(SubSeq(p, 1, k - 1)))
        BY DEF IsExpression, n
    <2>2. ASSUME NEW k \in 1..Len(q) PROVE q[k] \in ExpressionKids(At(SubSeq(q, 1, k - 1)))
        <3>1. k \in 1..(n - 1)
            BY <1>3
        <3> QED BY <3>1, <2>1, <1>5
    <2> QED BY <2>2, <1>3 DEF IsExpression
<1> QED BY <1>2, <1>3, <1>4, <1>6, KidIsChild

\* A set that holds the module, and with each expression its children, holds
\* every expression.
LEMMA ExpressionInduction ==
    ASSUME Rooted, NEW T, <<>> \in T,
           \A q : IsExpression(q) /\ q \in T =>
               \A c \in 1..Len(Children(q)) : Children(q)[c] \in T,
           NEW p, IsExpression(p)
    PROVE  p \in T
<1> DEFINE n == Len(p)
           U == {m \in 0..n : IsExpression(SubSeq(p, 1, m)) /\ SubSeq(p, 1, m) \in T}
<1>1. p \in Seq(Nat) /\ n \in Nat /\ SubSeq(p, 1, n) = p /\ SubSeq(p, 1, 0) = <<>>
    BY DEF IsExpression
<1>2. 0 \in U
    <2>1. IsExpression(SubSeq(p, 1, 0)) /\ SubSeq(p, 1, 0) \in T
        BY <1>1, ModuleIsExpression, Zenon
    <2>2. 0 \in 0..n
        BY <1>1
    <2> QED BY <2>1, <2>2
<1>3. ASSUME NEW m \in 0..n, m \in U, m < n PROVE m + 1 \in U
    <2> DEFINE q == SubSeq(p, 1, m)
    <2>1. m + 1 \in 1..n /\ m + 1 \in 0..n /\ (m + 1) - 1 = m
        BY <1>1, <1>3
    <2>2. SubSeq(p, 1, m + 1) = Kid(q, p[m + 1])
        BY <1>1, <2>1, KidOf
    <2>3. p[m + 1] \in ExpressionKids(At(q))
        BY <2>1 DEF IsExpression
    <2>4. IsExpression(q) /\ q \in T
        BY <1>3
    <2> HIDE DEF q
    <2>5. IsExpression(Kid(q, p[m + 1])) /\ Kid(q, p[m + 1]) \in T
        BY <2>3, <2>4, KidIsExpression, KidIsChild
    <2> QED BY <2>1, <2>2, <2>5
<1> HIDE DEF U
<1>4. 0..n \subseteq U
    BY <1>1, <1>2, <1>3, UpToInduction
<1>5. n \in 0..n
    BY <1>1
<1>6. SubSeq(p, 1, n) \in T
    BY <1>4, <1>5 DEF U
<1> QED BY <1>1, <1>6, Zenon

LEMMA StacksTyped ==
    ASSUME Rooted, NEW p, IsExpression(p)
    PROVE  Stack(p) \in Seq(Seq(Nat)) /\ Held(p) \in Seq(Seq(Nat))
<1> DEFINE T == {q \in Expressions : Stack(q) \in Seq(Seq(Nat)) /\ Held(q) \in Seq(Seq(Nat))}
<1>1. <<>> \in T
    <2>1. <<>> \in Expressions
        BY ModuleIsExpression, AllExpressions
    <2>2. <<>> \in Seq(Seq(Nat))
        OBVIOUS
    <2>3. Stack(<<>>) \in Seq(Seq(Nat)) /\ Held(<<>>) \in Seq(Seq(Nat))
        BY <2>2, FoundModule, Zenon
    <2> QED BY <2>1, <2>3
<1>2. ASSUME NEW q, IsExpression(q), q \in T, NEW c \in 1..Len(Children(q))
      PROVE  Children(q)[c] \in T
    <2> DEFINE d == Children(q)[c]
               b == Beginning(ValuesOf(Children(q)), c - 1)
               S == Seq(Nat)
    <2>1. d \in Expressions
        <3>1. c \in DOMAIN Children(q)
            BY <1>2, ChildrenFrom
        <3> QED BY <1>2, <3>1, ChildrenAreExpressions, AllExpressions
    <2>2. b \in Seq(S)
        <3>1. ValuesOf(Children(q)) \in Seq(S) /\ Len(ValuesOf(Children(q))) = Len(Children(q))
            BY <1>2, ValuesAre
        <3>2. c - 1 \in 0..Len(Children(q))
            BY <1>2, ChildrenFrom
        <3> QED BY <3>1, <3>2, BeginningIs
    <2>3. Stack(q) \in Seq(S) /\ Held(q) \in Seq(S)
        BY <1>2
    <2>4. Stack(d) \in {Stack(q), Stack(q) \o <<>>, Stack(q) \o b} /\ Held(d) \in {Held(q), Held(q) \o b}
        <3>1. Kind(q) = "module" \/ Holding(q) \/ (~Holding(q) /\ Kind(q) # "module")
            OBVIOUS
        <3> QED BY <1>2, <3>1, ChildFinds
    <2> HIDE DEF b, S, d
    <2>5. \A s \in Seq(S) : s \o b \in Seq(S) /\ s \o <<>> \in Seq(S)
        BY <2>2
    <2>6. Stack(d) \in Seq(S) /\ Held(d) \in Seq(S)
        BY <2>3, <2>4, <2>5, Zenon
    <2> QED BY <2>1, <2>6 DEF d, S
<1> HIDE DEF T
<1>3. p \in T
    BY <1>1, <1>2, ExpressionInduction
<1> QED BY <1>3 DEF T

LEMMA ChildKinds ==
    ASSUME Rooted, NEW q, IsExpression(q), NEW c \in 1..Len(Children(q))
    PROVE  LET d == Children(q)[c]
           IN /\ IsExpression(d) /\ d \in Seq(Nat) /\ d # <<>> /\ Kind(d) # "module"
              /\ Kind(d) \in {"fun", "static"} => Kind(q) = "module"
              /\ Kind(d) = "body" <=> Kind(q) = "fun"
<1> DEFINE d == Children(q)[c]
<1>1. c \in DOMAIN Children(q)
    BY ChildrenFrom
<1>2. PICK i \in ExpressionKids(At(q)) : i \in Nat /\ d = Kid(q, i)
    BY <1>1, ChildrenAreExpressions
<1>3. IsExpression(d)
    BY <1>1, ChildrenAreExpressions
<1> HIDE DEF d
<1>4. q \in Seq(Nat) /\ At(q) \in Nodes
    BY ExpressionNode
<1>5. d \in Seq(Nat) /\ d # <<>> /\ At(d) = At(q).kids[i]
    BY <1>2, <1>4, AtKid, KidPath
<1>6. MayHold(Kind(q), Kind(d))
    BY <1>2, <1>4, <1>5, NodesAre DEF Kind
<1> QED BY <1>3, <1>5, <1>6 DEF MayHold, d

LEMMA TopKinds ==
    ASSUME Rooted
    PROVE  /\ Kind(<<>>) = "module" /\ Len(program.kids) \in Nat \ {0}
           /\ Len(Children(<<>>)) = Len(program.kids)
           /\ Children(<<>>) = [k \in 1..Len(program.kids) |-> <<k>>]
           /\ Kind(<<1>>) = "static"
           /\ \A k \in 2..Len(program.kids) : Kind(<<k>>) = "fun"
<1>1. PICK m \in Programs : program = Program(m)
    BY DEF Rooted
<1>2. program.op = "module" /\ program.kids = <<Node("static", m.statics)>> \o m.functions
    BY <1>1 DEF Program, Node
<1>3. At(<<>>) = program
    BY AtModule
<1>4. At(<<>>) \in Nodes
    BY RootNode
<1>5. program.kids \in Seq(Nodes)
    BY <1>3, <1>4, NodesAre
<1>6. Kind(<<>>) = "module"
    BY <1>2, <1>3 DEF Kind
<1>7. Len(program.kids) \in Nat
    BY <1>5
<1>8. Children(<<>>) = [k \in 1..(Len(program.kids) - 1 + 1) |-> Kid(<<>>, 1 + k - 1)]
    BY <1>3, <1>6, NamesAssumption DEF Children, Kids
<1>9. Len(program.kids) - 1 + 1 = Len(program.kids)
      /\ \A k \in 1..Len(program.kids) : Kid(<<>>, 1 + k - 1) = <<k>>
    BY <1>7 DEF Kid
<1>10. Children(<<>>) = [k \in 1..Len(program.kids) |-> <<k>>]
    BY <1>8, <1>9
<1>11. program.kids # <<>> /\ program.kids[1] = Node("static", m.statics)
    BY <1>2, <1>5
<1>12. Len(program.kids) # 0
    BY <1>5, <1>11
<1>13. Kind(<<1>>) = "static"
    <2>1. At(Kid(<<>>, 1)) = program.kids[1]
        <3>1. <<>> \in Seq(Nat) /\ 1 \in Nat
            OBVIOUS
        <3> QED BY <1>3, <3>1, AtKid
    <2>2. Kid(<<>>, 1) = <<1>>
        BY DEF Kid
    <2> QED BY <2>1, <2>2, <1>11 DEF Kind, Node
<1>14. ASSUME NEW k \in 2..Len(program.kids) PROVE Kind(<<k>>) = "fun"
    <2>1. <<k>> \in FunctionNodes
        BY DEF FunctionNodes
    <2> QED BY <2>1, FunctionsAre
<1> QED BY <1>6, <1>7, <1>10, <1>12, <1>13, <1>14

\* The module is alone, and its functions are its children.
LEMMA WhereKindsStand ==
    ASSUME Rooted, NEW p, IsExpression(p)
    PROVE  /\ Kind(p) = "module" <=> p = <<>>
           /\ Kind(p) \in {"static", "fun"} =>
                 \E k \in 1..Len(program.kids) : p = <<k>> /\ (Kind(p) = "static" <=> k = 1)
           /\ p # <<>> => p[1] \in Nat
<1>1. Kind(<<>>) = "module"
    BY TopKinds
<1>2. ASSUME p # <<>>
      PROVE  Kind(p) # "module" /\ (Kind(p) \in {"static", "fun"} => Kind(Parent(p)) = "module")
    <2>1. IsExpression(Parent(p))
        BY <1>2, ParentOf
    <2>2. PICK c \in 1..Len(Children(Parent(p))) : p = Children(Parent(p))[c]
        BY <1>2, ParentOf
    <2> QED BY <2>1, <2>2, ChildKinds
<1>3. ASSUME p # <<>>, Kind(Parent(p)) = "module"
      PROVE  Parent(p) = <<>>
    <2>1. IsExpression(Parent(p))
        BY <1>3, ParentOf
    <2>2. Parent(p) # <<>> => Kind(Parent(p)) # "module"
        BY <2>1, ParentOf, ChildKinds
    <2> QED BY <2>2, <1>3
<1>4. ASSUME Kind(p) \in {"static", "fun"}
      PROVE  \E k \in 1..Len(program.kids) : p = <<k>> /\ (Kind(p) = "static" <=> k = 1)
    <2>1. p # <<>>
        BY <1>1, <1>4
    <2>2. Parent(p) = <<>>
        BY <2>1, <1>2, <1>3, <1>4
    <2>3. PICK k \in 1..Len(Children(<<>>)) : p = Children(<<>>)[k]
        BY <2>1, <2>2, ParentOf
    <2>4. k \in 1..Len(program.kids) /\ p = <<k>>
        BY <2>3, TopKinds
    <2>5. k # 1 => k \in 2..Len(program.kids)
        BY <2>4, TopKinds
    <2>6. Kind(p) = "static" <=> k = 1
        BY <2>4, <2>5, TopKinds
    <2> QED BY <2>4, <2>6
<1>5. p # <<>> => p[1] \in Nat
    BY DEF IsExpression
<1> QED BY <1>1, <1>2, <1>4, <1>5
LEMMA ArityIs ==
    ASSUME Rooted, NEW q, IsExpression(q)
    PROVE  /\ Kind(q) \in {"if", "block", ".", "ret", "true", "false"} \union BinOps =>
                 /\ Len(Children(q)) = Len(At(q).kids)
                 /\ Children(q) = [c \in 1..Len(At(q).kids) |-> Kid(q, c)]
           /\ Len(At(q).kids) \in Arity(Kind(q))
           /\ Kind(q) = "fun" => Children(q) = <<Body(q)>>
           /\ Kind(q) \in Names \union Numbers \union {"string"} => Children(q) = <<>>
<1> DEFINE m == Len(At(q).kids)
<1>1. q \in Seq(Nat) /\ At(q) \in Nodes
    BY ExpressionNode
<1>2. m \in Nat /\ m \in Arity(Kind(q))
    BY <1>1, NodesAre DEF Kind
<1> HIDE DEF m
<1>3. ASSUME Kind(q) \in {"if", "block", ".", "ret", "true", "false"} \union BinOps
      PROVE  Len(Children(q)) = m /\ Children(q) = [c \in 1..m |-> Kid(q, c)]
    <2>1. Kind(q) \notin Names \union Numbers \union {"string"} /\ Kind(q) \notin {"fun", "call"}
        BY <1>3, NamesAssumption DEF BinOps
    <2>2. Children(q) = [k \in 1..(m - 1 + 1) |-> Kid(q, 1 + k - 1)]
        BY <2>1 DEF Children, Kids, m
    <2>3. m - 1 + 1 = m /\ \A k \in 1..m : 1 + k - 1 = k
        BY <1>2
    <2>4. Children(q) = [k \in 1..m |-> Kid(q, k)]
        BY <2>2, <2>3
    <2> QED BY <1>2, <2>4
<1>4. Kind(q) = "fun" => Children(q) = <<Body(q)>>
    BY DEF Children
<1>5. Kind(q) \in Names \union Numbers \union {"string"} => Children(q) = <<>>
    BY NamesAssumption DEF Children
<1> QED BY <1>2, <1>3, <1>4, <1>5 DEF m

LEMMA AritiesAre ==
    /\ Arity(".") = {2} /\ Arity("ret") = {1} /\ Arity("if") = {2, 3}
    /\ Arity("true") = {0} /\ Arity("false") = {0}
    /\ \A op \in BinOps \ {"!"} : Arity(op) = {1, 2}
<1>1. Arity(".") = {2} /\ Arity("ret") = {1} /\ Arity("if") = {2, 3}
    BY DEF Arity, BinOps
<1>2. Arity("true") = {0} /\ Arity("false") = {0}
    BY DEF Arity, BinOps
<1>3. ASSUME NEW op \in BinOps \ {"!"} PROVE Arity(op) = {1, 2}
    <2>1. op \notin {"true", "false", "ret", "!", ".", "if", "fun", "call"}
        BY DEF BinOps
    <2> QED BY <2>1 DEF Arity
<1> QED BY <1>1, <1>2, <1>3

-----------------------------------------------------------------------------
(* What the entries of the traversal find and leave.                        *)

Values(p) == ValuesOf(Children(p))

\* How many of them the visit of p pops and holds.
Popped(p) == IF Kind(p) = "if" THEN 2 ELSE Len(Children(p))

\* A method call takes its reference off the stack.
IsMethod(p) == Kind(p) = "call" /\ InDot(p) /\ Last(p) = 2
Base(p) == IF IsMethod(p) THEN Front(Stack(p)) ELSE Stack(p)

\* What the children of p have pushed when they were visited.
Pushed(p) ==
    CASE Kind(p) = "module"                    -> <<>>
      [] Kind(p) = "fun"                       -> Values(Body(p))
      [] Kind(p) = "." /\ IsMethod(Kid(p, 2))  -> <<Kid(p, 2)>>
      [] OTHER                                 -> Values(p)

\* What p itself leaves.
Result(p) ==
    CASE Kind(p) \in {"module", "fun", "static"} -> <<>>
      [] Kind(p) = "body"                        -> Values(p)
      [] OTHER                                   -> <<ValueOf(p)>>

\* The functions finished before p, and after it.
Done0(p) == IF p = <<>> THEN 0 ELSE p[1] - 1
Done1(p) == IF p = <<>> THEN Len(program.kids) ELSE IF Len(p) = 1 THEN p[1] ELSE p[1] - 1

State(vs, hs, n) == [values |-> vs, held |-> hs, count |-> n]

Before(e) ==
    CASE e.do = "visit" -> State(Stack(e.at), Held(e.at), Done0(e.at))
      [] e.do = "keep"  -> State(Append(Stack(e.at), ValueOf(e.at)), Held(e.at), Done0(e.at))
      [] e.do = "leave" ->
            IF Holding(e.at)
            THEN State(Stack(e.at), Held(e.at) \o Beginning(Values(e.at), Popped(e.at)), Done0(e.at))
            ELSE State(Stack(e.at) \o Pushed(e.at), Held(e.at),
                       IF e.at = <<>> THEN Len(program.kids) ELSE Done0(e.at))
After(e) ==
    IF e.do = "keep" THEN State(Stack(e.at), Append(Held(e.at), ValueOf(e.at)), Done0(e.at))
    ELSE State(Base(e.at) \o Result(e.at), Held(e.at), Done1(e.at))

\* Each entry finds what the one before it leaves.
Chained(w) == \A i \in 1..(Len(w) - 1) : After(w[i]) = Before(w[i + 1])

LEMMA BeforeIs ==
    ASSUME NEW p
    PROVE  /\ Before(Entry("visit", p)) = State(Stack(p), Held(p), Done0(p))
           /\ Before(Entry("keep", p)) = State(Append(Stack(p), ValueOf(p)), Held(p), Done0(p))
           /\ Holding(p) => Before(Entry("leave", p)) =
                 State(Stack(p), Held(p) \o Beginning(Values(p), Popped(p)), Done0(p))
           /\ ~Holding(p) => Before(Entry("leave", p)) =
                 State(Stack(p) \o Pushed(p), Held(p),
                       IF p = <<>> THEN Len(program.kids) ELSE Done0(p))
           /\ After(Entry("keep", p)) = State(Stack(p), Append(Held(p), ValueOf(p)), Done0(p))
           /\ \A do \in {"visit", "leave"} :
                 After(Entry(do, p)) = State(Base(p) \o Result(p), Held(p), Done1(p))
BY DEF Before, After, Entry

\* The children of a node that is neither the module nor a function.
Ordinary(q) == Kind(q) \notin {"module", "fun"}

LEMMA OrdinaryChild ==
    ASSUME Rooted, NEW q, IsExpression(q), Ordinary(q), NEW c \in 1..Len(Children(q))
    PROVE  LET d == Children(q)[c]
           IN /\ Done0(d) = Done0(q) /\ Done1(d) = Done0(q)
              /\ Result(d) = <<Values(q)[c]>>
              /\ Values(q)[c] = ValueOf(d) /\ Values(q)[c] \in Seq(Nat)
              /\ IsMethod(d) => Kind(q) = "." /\ c = 2 /\ d = Kid(q, 2)
<1> DEFINE d == Children(q)[c]
<1>1. /\ IsExpression(d) /\ d \in Seq(Nat) /\ d # <<>>
      /\ Kind(d) \notin {"module", "fun", "static", "body"}
    BY ChildKinds DEF Ordinary
<1>2. q \in Seq(Nat) /\ q # <<>>
    BY ChildrenFrom, TopKinds DEF Ordinary
<1>3. c \in DOMAIN Children(q)
    BY ChildrenFrom
<1>4. FirstKid(q) \in Nat \ {0} /\ d = Kid(q, c + FirstKid(q) - 1)
    BY ChildrenFrom
<1> HIDE DEF d
<1>5. c + FirstKid(q) - 1 \in Nat
    BY <1>4
<1>6. Len(d) = Len(q) + 1 /\ d[1] = q[1] /\ Parent(d) = q /\ Last(d) = c + FirstKid(q) - 1
    BY <1>2, <1>4, <1>5, KidPath
<1>7. Len(d) # 1
    BY <1>2, <1>6
<1>8. Done0(d) = Done0(q) /\ Done1(d) = Done0(q)
    BY <1>1, <1>2, <1>6, <1>7 DEF Done0, Done1
<1>9. Values(q)[c] = ValueOf(d) /\ ValueOf(d) \in Seq(Nat)
    BY <1>1, <1>3, ValuesAre DEF Values, d
<1>10. Result(d) = <<ValueOf(d)>>
    BY <1>1 DEF Result
<1>11. IsMethod(d) => Kind(q) = "." /\ c = 2 /\ d = Kid(q, 2)
    <2> SUFFICES ASSUME IsMethod(d) PROVE Kind(q) = "." /\ c = 2 /\ d = Kid(q, 2)
        OBVIOUS
    <2>1. Kind(q) = "." /\ Last(d) = 2
        BY <1>6 DEF IsMethod, InDot
    <2>2. FirstKid(q) = 1
        BY <2>1 DEF FirstKid
    <2>3. c = 2
        BY <2>1, <2>2, <1>6
    <2> QED BY <2>1, <2>2, <2>3, <1>4
<1> QED BY <1>8, <1>9, <1>10, <1>11 DEF d

\* The visit of the c-th child, where the stack is not held.
LEMMA ChildVisit ==
    ASSUME Rooted, NEW q, IsExpression(q), Ordinary(q), ~Holding(q), NEW c \in 1..Len(Children(q))
    PROVE  LET v == Entry("visit", Children(q)[c])
               at(k) == State(Stack(q) \o Beginning(Values(q), k), Held(q), Done0(q))
           IN /\ Before(v) = at(c - 1)
              /\ ~IsMethod(Children(q)[c]) => After(v) = at(c)
<1> DEFINE d == Children(q)[c]
           v == Entry("visit", d)
           b == Beginning(Values(q), c - 1)
           S == Seq(Nat)
<1>1. Stack(d) = Stack(q) \o b /\ Held(d) = Held(q)
    BY ChildFinds DEF Ordinary, Values
<1>2. Done0(d) = Done0(q) /\ Done1(d) = Done0(q) /\ Result(d) = <<Values(q)[c]>>
    BY OrdinaryChild
<1>3. Stack(q) \in Seq(S) /\ Values(q) \in Seq(S) /\ c \in 1..Len(Values(q))
    BY StacksTyped, ValuesAre DEF Values
<1>4. (Stack(q) \o b) \o <<Values(q)[c]>> = Stack(q) \o Beginning(Values(q), c)
    BY <1>3, ConcatNext
<1>5. Before(v) = State(Stack(d), Held(d), Done0(d))
    BY BeforeIs
<1>6. After(v) = State(Base(d) \o Result(d), Held(d), Done1(d))
    BY BeforeIs
<1>7. ~IsMethod(d) => Base(d) = Stack(d)
    BY DEF Base
<1> HIDE DEF d, v, b
<1>8. Before(v) = State(Stack(q) \o b, Held(q), Done0(q))
    BY <1>1, <1>2, <1>5
<1>9. ~IsMethod(d) => After(v) = State((Stack(q) \o b) \o <<Values(q)[c]>>, Held(q), Done0(q))
    BY <1>1, <1>2, <1>6, <1>7
<1> QED BY <1>4, <1>8, <1>9 DEF d, v, b

\* What a node that holds nothing finds when its children were visited.
LEMMA ChainOfVisits ==
    ASSUME Rooted, NEW q, IsExpression(q), ~Holding(q)
    PROVE  LET n == Len(Children(q))
               v(c) == Entry("visit", Children(q)[c])
           IN /\ n = 0 => Before(Entry("visit", q)) = Before(Entry("leave", q))
              /\ n > 0 => Before(Entry("visit", q)) = Before(v(1))
              /\ n > 0 => After(v(n)) = Before(Entry("leave", q))
              /\ \A c \in 1..(n - 1) : After(v(c)) = Before(v(c + 1))
<1> DEFINE n == Len(Children(q))
           v(c) == Entry("visit", Children(q)[c])
           l == Entry("leave", q)
           S == Seq(Nat)
<1>1. n \in Nat /\ n = Len(Children(q)) /\ q \in Seq(Nat)
    BY ChildrenFrom
<1>2. Stack(q) \in Seq(S) /\ Held(q) \in Seq(S) /\ Values(q) \in Seq(S) /\ Len(Values(q)) = n
    BY StacksTyped, ValuesAre DEF Values
<1>3. /\ Before(Entry("visit", q)) = State(Stack(q), Held(q), Done0(q))
      /\ Before(l) = State(Stack(q) \o Pushed(q), Held(q),
                           IF q = <<>> THEN Len(program.kids) ELSE Done0(q))
    BY BeforeIs
<1>4. CASE Ordinary(q)
    <2> DEFINE at(k) == State(Stack(q) \o Beginning(Values(q), k), Held(q), Done0(q))
    <2>1. \A c \in 1..n : Before(v(c)) = at(c - 1)
        BY <1>4, ChildVisit
    <2>2. at(0) = State(Stack(q), Held(q), Done0(q))
        <3>1. Beginning(Values(q), 0) = <<>> /\ Stack(q) \o <<>> = Stack(q)
            BY <1>2, BeginningIs, ConcatNothing
        <3> QED BY <3>1
    <2>3. q # <<>>
        BY <1>4, TopKinds DEF Ordinary
    <2>4. CASE Kind(q) = "." /\ IsMethod(Kid(q, 2))
        <3> DEFINE d == Kid(q, 2)
        <3>1. n = 2 /\ Children(q) = [c \in 1..2 |-> Kid(q, c)]
            BY <2>4, ArityIs, AritiesAre
        <3>2. Children(q)[2] = d /\ Children(q)[1] = Kid(q, 1)
            BY <3>1
        <3>3. Before(v(2)) = State(Stack(d), Held(d), Done0(d))
            BY <3>2, BeforeIs
        <3>4. Before(v(2)) = at(1)
            BY <2>1, <3>1
        <3>5. Stack(d) = Stack(q) \o Beginning(Values(q), 1) /\ Held(d) = Held(q)
              /\ Done1(d) = Done0(q)
            <4>1. 2 \in 1..Len(Children(q))
                BY <3>1
            <4>2. Done1(d) = Done0(q)
                BY <1>4, <3>2, <4>1, OrdinaryChild
            <4> QED BY <3>3, <3>4, <4>2 DEF State
        <3>6. Front(Stack(d)) = Stack(q)
            <4>0. Len(Values(q)) = 2
                BY <1>2, <3>1
            <4> HIDE DEF S
            <4>1. 1 \in 1..Len(Values(q)) /\ Values(q)[1] \in S
                BY <1>2, <4>0
            <4>2. Append(Stack(q) \o Beginning(Values(q), 1 - 1), Values(q)[1])
                    = Stack(q) \o Beginning(Values(q), 1)
                BY <1>2, <4>1, ConcatNext
            <4>3. Stack(q) \o Beginning(Values(q), 1 - 1) = Stack(q)
                BY <1>2, BeginningIs, ConcatNothing
            <4>4. Stack(d) = Append(Stack(q), Values(q)[1])
                BY <3>5, <4>2, <4>3
            <4> QED BY <1>2, <4>1, <4>4, ConcatOne
        <3>7. Result(d) = <<d>>
            BY <2>4 DEF IsMethod, Result, ValueOf
        <3>8. After(v(2)) = State(Base(d) \o Result(d), Held(d), Done1(d))
            BY <3>2, BeforeIs
        <3>9. Base(d) = Stack(q)
            BY <2>4, <3>6 DEF Base
        <3>10. After(v(2)) = State(Stack(q) \o <<d>>, Held(q), Done0(q))
            BY <3>5, <3>7, <3>8, <3>9
        <3>11. Pushed(q) = <<d>>
            BY <2>4 DEF Pushed
        <3>12. ~IsMethod(Children(q)[1])
            <4>1. 1 \in 1..Len(Children(q)) /\ 1 # 2
                BY <3>1
            <4> QED BY <1>4, <4>1, OrdinaryChild
        <3>13. After(v(1)) = at(1)
            <4>1. 1 \in 1..Len(Children(q))
                BY <3>1
            <4> QED BY <1>4, <3>12, <4>1, ChildVisit
        <3> HIDE DEF at, v, d, l
        <3>14. Before(v(1)) = at(0)
            <4>1. 1 \in 1..n /\ 1 - 1 = 0
                BY <3>1
            <4> QED BY <2>1, <4>1
        <3>15. After(v(2)) = Before(l)
            BY <1>3, <2>3, <3>10, <3>11
        <3>16. \A c \in 1..(n - 1) : c = 1 /\ c + 1 = 2
            BY <3>1
        <3>17. n # 0 /\ n = 2
            BY <3>1
        <3> HIDE DEF n
        <3> QED BY <1>3, <2>2, <3>4, <3>13, <3>14, <3>15, <3>16, <3>17 DEF v, l, n
    <2>5. CASE ~(Kind(q) = "." /\ IsMethod(Kid(q, 2)))
        <3>1. \A c \in 1..n : ~IsMethod(Children(q)[c])
            BY <1>4, <2>5, OrdinaryChild
        <3>2. \A c \in 1..n : After(v(c)) = at(c)
            BY <1>4, <3>1, ChildVisit
        <3>3. Pushed(q) = Values(q)
            BY <1>4, <2>5 DEF Pushed, Ordinary
        <3>4. Before(l) = at(n)
            <4>1. Beginning(Values(q), n) = Values(q)
                BY <1>2, BeginningIs
            <4> QED BY <1>3, <2>3, <3>3, <4>1
        <3> HIDE DEF at, v, n, l
        <3>5. n > 0 => 1 \in 1..n /\ n \in 1..n /\ 1 - 1 = 0
            BY <1>1
        <3>6. \A c \in 1..(n - 1) : c \in 1..n /\ c + 1 \in 1..n /\ (c + 1) - 1 = c
            BY <1>1
        <3>7. Before(Entry("visit", q)) = at(0)
            BY <1>3, <2>2
        <3>8. n = 0 => Before(Entry("visit", q)) = Before(l)
            BY <3>4, <3>7
        <3>9. n > 0 => Before(Entry("visit", q)) = Before(v(1))
            BY <2>1, <3>5, <3>7
        <3>10. n > 0 => After(v(n)) = Before(l)
            BY <3>2, <3>4, <3>5
        <3>11. \A c \in 1..(n - 1) : After(v(c)) = Before(v(c + 1))
            BY <2>1, <3>2, <3>6
        <3> QED BY <3>8, <3>9, <3>10, <3>11 DEF v, n, l
    <2> QED BY <2>4, <2>5
<1>5. CASE Kind(q) = "module"
    <2>1. q = <<>>
        BY <1>5, WhereKindsStand
    <2>2. Stack(q) = <<>> /\ Held(q) = <<>> /\ Done0(q) = 0
        BY <2>1, FoundModule DEF Done0
    <2>3. n = Len(program.kids) /\ n # 0 /\ \A c \in 1..n : Children(q)[c] = <<c>>
        BY <2>1, TopKinds
    <2>4. Before(l) = State(<<>>, <<>>, n)
        BY <1>3, <1>5, <2>1, <2>2, <2>3 DEF Pushed
    <2>5. ASSUME NEW c \in 1..n
          PROVE  Before(v(c)) = State(<<>>, <<>>, c - 1) /\ After(v(c)) = State(<<>>, <<>>, c)
        <3> DEFINE d == <<c>>
        <3>1. Children(q)[c] = d /\ c \in 1..Len(Children(q))
            BY <2>3
        <3>2. Stack(d) = <<>> /\ Held(d) = <<>> /\ Parent(d) = q
            <4>1. Stack(q) \o <<>> = <<>>
                BY <2>2
            <4> QED BY <1>5, <2>2, <3>1, <4>1, ChildFinds
        <3>3. Kind(d) \in {"static", "fun"}
            <4>1. c = 1 \/ c \in 2..Len(program.kids)
                BY <2>3, <1>1
            <4> QED BY <4>1, TopKinds
        <3>4. Result(d) = <<>> /\ Base(d) = Stack(d)
            BY <3>3 DEF Result, Base, IsMethod
        <3>5. Done0(d) = c - 1 /\ Done1(d) = c
            BY DEF Done0, Done1
        <3>6. Before(v(c)) = State(Stack(d), Held(d), Done0(d))
            BY <3>1, BeforeIs
        <3>7. After(v(c)) = State(Base(d) \o Result(d), Held(d), Done1(d))
            BY <3>1, BeforeIs
        <3> HIDE DEF d, v
        <3>8. Base(d) \o Result(d) = <<>>
            BY <3>2, <3>4
        <3> QED BY <3>2, <3>5, <3>6, <3>7, <3>8
    <2> HIDE DEF v, n, l
    <2>6. n > 0 /\ 1 \in 1..n /\ n \in 1..n /\ 1 - 1 = 0
        BY <1>1, <2>3
    <2>7. \A c \in 1..(n - 1) : c \in 1..n /\ c + 1 \in 1..n /\ (c + 1) - 1 = c
        BY <1>1
    <2>8. Before(Entry("visit", q)) = Before(v(1))
        BY <1>3, <2>2, <2>5, <2>6
    <2>9. After(v(n)) = Before(l)
        BY <2>4, <2>5, <2>6
    <2>10. \A c \in 1..(n - 1) : After(v(c)) = Before(v(c + 1))
        BY <2>5, <2>7
    <2> QED BY <2>3, <2>8, <2>9, <2>10 DEF v, n, l
<1>6. CASE Kind(q) = "fun"
    <2> DEFINE d == Body(q)
    <2>1. Children(q) = <<d>>
        BY <1>6, ArityIs
    <2>2. n = 1 /\ Children(q)[1] = d /\ 1 \in 1..Len(Children(q))
        BY <2>1
    <2>3. /\ Kind(d) = "body" /\ IsExpression(d) /\ d # <<>>
        BY <1>6, <2>2, ChildKinds
    <2>4. Stack(d) = Stack(q) /\ Held(d) = Held(q)
        <3>1. Beginning(Values(q), 1 - 1) = <<>> /\ Stack(q) \o <<>> = Stack(q)
            BY <1>2, BeginningIs, ConcatNothing
        <3>2. Stack(d) = Stack(q) \o Beginning(Values(q), 1 - 1) /\ Held(d) = Held(q)
            BY <1>6, <2>2, ChildFinds DEF Values
        <3> QED BY <3>1, <3>2
    <2>5. q # <<>>
        BY <1>6, TopKinds
    <2>6. Done0(d) = Done0(q) /\ Done1(d) = Done0(q)
        <3>1. d = Kid(q, 4)
            BY DEF Body
        <3>2. d[1] = q[1] /\ Len(d) = Len(q) + 1 /\ Len(q) \in Nat /\ Len(q) # 0
            <4>1. 4 \in Nat
                OBVIOUS
            <4>2. d[1] = q[1] /\ Len(d) = Len(q) + 1
                <5>1. Kid(q, 4)[1] = q[1] /\ Len(Kid(q, 4)) = Len(q) + 1
                    BY <1>1, <2>5, <4>1, KidPath
                <5> HIDE DEF d
                <5> QED BY <3>1, <5>1
            <4> QED BY <1>1, <2>5, <4>2
        <3>3. Len(d) # 1
            BY <3>2
        <3> QED BY <2>3, <2>5, <3>2, <3>3 DEF Done0, Done1
    <2>7. Result(d) = Values(d) /\ Base(d) = Stack(d) /\ Pushed(q) = Values(d)
        BY <1>6, <2>3 DEF Result, Base, IsMethod, Pushed
    <2>8. Before(v(1)) = State(Stack(d), Held(d), Done0(d))
        BY <2>2, BeforeIs
    <2>9. After(v(1)) = State(Base(d) \o Result(d), Held(d), Done1(d))
        BY <2>2, BeforeIs
    <2> HIDE DEF d, v, l
    <2>10. Before(Entry("visit", q)) = Before(v(1))
        BY <1>3, <2>4, <2>6, <2>8
    <2>11. After(v(1)) = Before(l)
        BY <1>3, <2>4, <2>5, <2>6, <2>7, <2>9
    <2>12. 1..(1 - 1) = {}
        OBVIOUS
    <2> QED BY <2>2, <2>10, <2>11, <2>12 DEF v, l
<1> QED BY <1>4, <1>5, <1>6 DEF Ordinary

\* What a block or an if finds: each value is kept before the next visit.
LEMMA ChainOfKeeps ==
    ASSUME Rooted, NEW q, IsExpression(q), Holding(q)
    PROVE  LET n == Popped(q)
               v(c) == Entry("visit", Children(q)[c])
               k(c) == Entry("keep", Children(q)[c])
           IN /\ n \in Nat /\ n <= Len(Children(q))
              /\ n = 0 => Before(Entry("visit", q)) = Before(Entry("leave", q))
              /\ n > 0 => Before(Entry("visit", q)) = Before(v(1))
              /\ n > 0 => After(k(n)) = Before(Entry("leave", q))
              /\ \A c \in 1..n : After(v(c)) = Before(k(c))
              /\ \A c \in 1..(n - 1) : After(k(c)) = Before(v(c + 1))
<1> DEFINE n == Popped(q)
           v(c) == Entry("visit", Children(q)[c])
           k(c) == Entry("keep", Children(q)[c])
           l == Entry("leave", q)
           at(c) == State(Stack(q), Held(q) \o Beginning(Values(q), c), Done0(q))
           S == Seq(Nat)
<1>1. Stack(q) \in Seq(S) /\ Held(q) \in Seq(S) /\ Values(q) \in Seq(S)
      /\ Len(Values(q)) = Len(Children(q))
    BY StacksTyped, ValuesAre DEF Values
<1>2. n \in Nat /\ n <= Len(Children(q))
    <2>1. Len(Children(q)) \in Nat
        BY ChildrenFrom
    <2>2. Kind(q) = "if" => Len(Children(q)) \in {2, 3}
        BY ArityIs, AritiesAre
    <2> QED BY <2>1, <2>2 DEF Popped
<1>3. Ordinary(q)
    BY DEF Holding, Ordinary
<1>4. Before(Entry("visit", q)) = at(0) /\ Before(l) = at(n)
    <2>1. Beginning(Values(q), 0) = <<>> /\ Held(q) \o <<>> = Held(q)
        BY <1>1, BeginningIs, ConcatNothing
    <2>2. Before(Entry("visit", q)) = State(Stack(q), Held(q), Done0(q))
        BY BeforeIs
    <2> QED BY <2>1, <2>2, BeforeIs
<1>5. ASSUME NEW c \in 1..Len(Children(q))
      PROVE  Before(v(c)) = at(c - 1) /\ After(v(c)) = Before(k(c)) /\ After(k(c)) = at(c)
    <2> DEFINE d == Children(q)[c]
               b == Beginning(Values(q), c - 1)
    <2>1. Stack(d) = Stack(q) /\ Held(d) = Held(q) \o b
        BY ChildFinds DEF Values
    <2>2. Done0(d) = Done0(q) /\ Done1(d) = Done0(q) /\ Result(d) = <<ValueOf(d)>>
          /\ ValueOf(d) = Values(q)[c] /\ ValueOf(d) \in S
        BY <1>3, OrdinaryChild
    <2>3. ~IsMethod(d)
        BY <1>3, OrdinaryChild DEF Holding
    <2>4. Before(v(c)) = State(Stack(d), Held(d), Done0(d))
        BY BeforeIs
    <2>5. After(v(c)) = State(Base(d) \o Result(d), Held(d), Done1(d))
        BY BeforeIs
    <2>6. Before(k(c)) = State(Append(Stack(d), ValueOf(d)), Held(d), Done0(d))
        BY BeforeIs
    <2>7. After(k(c)) = State(Stack(d), Append(Held(d), ValueOf(d)), Done0(d))
        BY BeforeIs
    <2>8. Append(Held(q) \o b, Values(q)[c]) = Held(q) \o Beginning(Values(q), c)
        <3>1. c \in 1..Len(Values(q))
            BY <1>1
        <3> QED BY <1>1, <3>1, ConcatNext
    <2> HIDE DEF d, b, v, k
    <2>9. Stack(d) \o <<ValueOf(d)>> = Append(Stack(d), ValueOf(d))
        BY <1>1, <2>1, <2>2, ConcatOne
    <2>10. After(v(c)) = Before(k(c))
        BY <2>2, <2>3, <2>5, <2>6, <2>9 DEF Base
    <2>11. Before(v(c)) = at(c - 1)
        BY <2>1, <2>2, <2>4 DEF b
    <2>12. After(k(c)) = at(c)
        BY <2>1, <2>2, <2>7, <2>8
    <2> QED BY <2>10, <2>11, <2>12
<1> HIDE DEF at, v, k, l, n
<1>6. n > 0 => 1 \in 1..n /\ n \in 1..n /\ 1 - 1 = 0
    BY <1>2
<1>7. \A c \in 1..(n - 1) : c \in 1..n /\ c + 1 \in 1..n /\ (c + 1) - 1 = c
    BY <1>2
<1>8. \A c \in 1..n : c \in 1..Len(Children(q))
    <2>1. Len(Children(q)) \in Nat
        BY ChildrenFrom
    <2> QED BY <1>2, <2>1
<1>9. \A c \in 1..n : Before(v(c)) = at(c - 1) /\ After(v(c)) = Before(k(c)) /\ After(k(c)) = at(c)
    BY <1>5, <1>8
<1>10. n = 0 => Before(Entry("visit", q)) = Before(l)
    BY <1>4
<1>11. n > 0 => Before(Entry("visit", q)) = Before(v(1)) /\ After(k(n)) = Before(l)
    BY <1>4, <1>6, <1>9
<1>12. \A c \in 1..(n - 1) : After(k(c)) = Before(v(c + 1))
    BY <1>7, <1>9
<1> QED BY <1>2, <1>9, <1>10, <1>11, <1>12 DEF v, k, l, n

-----------------------------------------------------------------------------
(* The traversal.                                                           *)

AWork == [do : {"visit", "leave", "keep"}, at : Seq(Nat)]

WorkFits(e) ==
    /\ e \in AWork /\ IsExpression(e.at)
    /\ e.do = "keep" => e.at # <<>> /\ Holding(Parent(e.at))

\* The module is the last entry, and only it.
WorkGood(w) ==
    /\ w \in Seq(AWork) /\ w # <<>>
    /\ \A i \in 1..Len(w) : WorkFits(w[i]) /\ (w[i].at = <<>> <=> i = Len(w))
    /\ Chained(w)

LEMMA WorkEntry ==
    ASSUME NEW do \in {"visit", "leave", "keep"}, NEW p, IsExpression(p),
           do = "keep" => p # <<>> /\ Holding(Parent(p))
    PROVE  WorkFits(Entry(do, p)) /\ Entry(do, p) \in AWork /\ Entry(do, p).at = p
<1>1. p \in Seq(Nat)
    BY DEF IsExpression
<1> QED BY <1>1 DEF WorkFits, Entry, AWork

\* What the visit of a node puts on the call stack.
Unrolled(q) == Visits(q) \o <<Entry("leave", q)>>

UnrolledWell(q, w) ==
    /\ w \in Seq(AWork) /\ w # <<>>
    /\ \A i \in 1..Len(w) : WorkFits(w[i])
    /\ \A i \in 1..(Len(w) - 1) : w[i].at # <<>>
    /\ w[Len(w)] = Entry("leave", q)
    /\ Before(w[1]) = Before(Entry("visit", q))
    /\ Chained(w)

LEMMA UnrolledVisits ==
    ASSUME Rooted, NEW q, IsExpression(q), ~Holding(q)
    PROVE  UnrolledWell(q, Unrolled(q))
<1> DEFINE n == Len(Children(q))
           v(c) == Entry("visit", Children(q)[c])
           l == Entry("leave", q)
           w == Unrolled(q)
<1>1. n \in Nat /\ DOMAIN Children(q) = 1..n
    BY ChildrenFrom
<1>2. Visits(q) = [c \in 1..n |-> v(c)]
    BY <1>1 DEF Holding, Visits, Entries
<1>3. \A c \in 1..n : WorkFits(v(c)) /\ v(c) \in AWork /\ v(c).at # <<>>
    <2> SUFFICES ASSUME NEW c \in 1..n PROVE WorkFits(v(c)) /\ v(c) \in AWork /\ v(c).at # <<>>
        OBVIOUS
    <2>1. IsExpression(Children(q)[c]) /\ Children(q)[c] # <<>>
        BY ChildKinds
    <2> QED BY <2>1, WorkEntry
<1>4. WorkFits(l) /\ l \in AWork
    BY WorkEntry
<1>5. /\ n = 0 => Before(Entry("visit", q)) = Before(l)
      /\ n > 0 => Before(Entry("visit", q)) = Before(v(1))
      /\ n > 0 => After(v(n)) = Before(l)
      /\ \A c \in 1..(n - 1) : After(v(c)) = Before(v(c + 1))
    BY ChainOfVisits
<1> HIDE DEF v, l, n
<1>6. /\ w \in Seq(AWork) /\ Len(w) = n + 1 /\ w[n + 1] = l
      /\ \A c \in 1..n : w[c] = v(c)
    BY <1>1, <1>2, <1>3, <1>4 DEF Unrolled, l
<1> HIDE DEF w
<1>7. \A i \in 1..(n + 1) : i \in 1..n \/ i = n + 1
    BY <1>1
<1>8. ASSUME NEW i \in 1..n PROVE After(w[i]) = Before(w[i + 1])
    <2>1. w[i] = v(i)
        BY <1>6
    <2>2. CASE i = n
        BY <2>1, <2>2, <1>1, <1>5, <1>6
    <2>3. CASE i # n
        <3>1. i \in 1..(n - 1) /\ i + 1 \in 1..n
            BY <2>3, <1>1
        <3> QED BY <2>1, <3>1, <1>5, <1>6
    <2> QED BY <2>2, <2>3
<1>9. Before(w[1]) = Before(Entry("visit", q))
    <2>1. CASE n = 0
        <3>1. n + 1 = 1
            BY <2>1
        <3> QED BY <2>1, <3>1, <1>5, <1>6
    <2>2. CASE n # 0
        <3>1. n > 0 /\ 1 \in 1..n
            BY <2>2, <1>1
        <3> QED BY <3>1, <1>5, <1>6
    <2> QED BY <2>1, <2>2
<1>10. w # <<>> /\ Len(w) - 1 = n
    <2>1. n + 1 # 0
        BY <1>1
    <2>2. Len(w) # 0
        BY <1>6, <2>1
    <2> QED BY <2>2, <1>1, <1>6
<1>11. \A i \in 1..Len(w) : WorkFits(w[i])
    BY <1>3, <1>4, <1>6, <1>7
<1>12. \A i \in 1..(Len(w) - 1) : w[i].at # <<>>
    BY <1>3, <1>6, <1>10
<1>13. w[Len(w)] = Entry("leave", q)
    BY <1>6 DEF l
<1>14. Chained(w)
    BY <1>8, <1>10 DEF Chained
<1> QED BY <1>6, <1>9, <1>10, <1>11, <1>12, <1>13, <1>14 DEF UnrolledWell, w

LEMMA UnrolledKeeps ==
    ASSUME Rooted, NEW q, IsExpression(q), Holding(q)
    PROVE  UnrolledWell(q, Unrolled(q))
<1> DEFINE n == Popped(q)
           v(c) == Entry("visit", Children(q)[c])
           k(c) == Entry("keep", Children(q)[c])
           l == Entry("leave", q)
           w == Unrolled(q)
           ps == IF Kind(q) = "if" THEN <<Kid(q, 1), Kid(q, 2)>> ELSE Children(q)
           half(i) == (i + 1) \div 2
<1>0. /\ n \in Nat /\ n <= Len(Children(q))
      /\ n = 0 => Before(Entry("visit", q)) = Before(l)
      /\ n > 0 => Before(Entry("visit", q)) = Before(v(1))
      /\ n > 0 => After(k(n)) = Before(l)
      /\ \A c \in 1..n : After(v(c)) = Before(k(c))
      /\ \A c \in 1..(n - 1) : After(k(c)) = Before(v(c + 1))
    BY ChainOfKeeps
<1>1. n \in Nat /\ \A c \in 1..n : c \in 1..Len(Children(q))
    <2>1. Len(Children(q)) \in Nat
        BY ChildrenFrom
    <2> HIDE DEF n
    <2> QED BY <1>0, <2>1
<1>2. Len(ps) = n /\ \A c \in 1..n : ps[c] = Children(q)[c]
    <2>1. CASE Kind(q) = "if"
        <3>1. Children(q) = [c \in 1..Len(At(q).kids) |-> Kid(q, c)]
              /\ Len(At(q).kids) \in {2, 3}
            BY <2>1, ArityIs, AritiesAre
        <3>2. Children(q)[1] = Kid(q, 1) /\ Children(q)[2] = Kid(q, 2)
            <4>1. 1 \in 1..Len(At(q).kids) /\ 2 \in 1..Len(At(q).kids)
                BY <3>1
            <4> QED BY <3>1, <4>1
        <3>3. n = 2 /\ \A c \in 1..2 : c = 1 \/ c = 2
            BY <2>1 DEF Popped
        <3>4. ps = <<Kid(q, 1), Kid(q, 2)>>
            BY <2>1
        <3> HIDE DEF ps, n
        <3>5. Len(ps) = 2 /\ ps[1] = Kid(q, 1) /\ ps[2] = Kid(q, 2)
            BY <3>4
        <3> QED BY <3>2, <3>3, <3>5
    <2>2. CASE Kind(q) # "if"
        BY <2>2 DEF Popped
    <2> QED BY <2>1, <2>2
<1>3. Visits(q) = InTurns("visit", "keep", ps)
    BY DEF Visits, VisitAndKeep, Holding
<1>4. \A c \in 1..n : /\ WorkFits(v(c)) /\ v(c) \in AWork /\ v(c).at # <<>>
                      /\ WorkFits(k(c)) /\ k(c) \in AWork /\ k(c).at # <<>>
    <2> SUFFICES ASSUME NEW c \in 1..Len(Children(q))
                 PROVE  /\ WorkFits(v(c)) /\ v(c) \in AWork /\ v(c).at # <<>>
                        /\ WorkFits(k(c)) /\ k(c) \in AWork /\ k(c).at # <<>>
        BY <1>1
    <2>1. IsExpression(Children(q)[c]) /\ Children(q)[c] # <<>>
        BY ChildKinds
    <2>2. Holding(Parent(Children(q)[c]))
        BY ChildFinds
    <2> QED BY <2>1, <2>2, WorkEntry
<1>5. WorkFits(l) /\ l \in AWork
    BY WorkEntry
<1> HIDE DEF n, ps
<1>6. \A i \in 1..(2 * n) : half(i) \in 1..n /\ (i % 2 = 1 => 2 * half(i) - 1 = i)
                             /\ (i % 2 # 1 => 2 * half(i) = i)
    BY <1>1
<1> HIDE DEF half
<1>7. Visits(q) = [i \in 1..(2 * n) |-> IF i % 2 = 1 THEN v(half(i)) ELSE k(half(i))]
    <2>1. \A i \in 1..(2 * n) : ps[(i + 1) \div 2] = Children(q)[half(i)]
        BY <1>2, <1>6 DEF half
    <2>2. \A i \in 1..(2 * n) : Entry(IF i % 2 = 1 THEN "visit" ELSE "keep", ps[(i + 1) \div 2])
                                  = IF i % 2 = 1 THEN v(half(i)) ELSE k(half(i))
        BY <2>1
    <2>3. Visits(q) = [i \in 1..(2 * n) |->
                          Entry(IF i % 2 = 1 THEN "visit" ELSE "keep", ps[(i + 1) \div 2])]
        BY <1>2, <1>3 DEF InTurns
    <2> QED BY <2>2, <2>3
<1> HIDE DEF v, k, l
<1>8. /\ w \in Seq(AWork) /\ Len(w) = 2 * n + 1 /\ w[2 * n + 1] = l
      /\ \A i \in 1..(2 * n) : w[i] = IF i % 2 = 1 THEN v(half(i)) ELSE k(half(i))
    <2> DEFINE vs == Visits(q)
    <2>1. \A i \in 1..(2 * n) : (IF i % 2 = 1 THEN v(half(i)) ELSE k(half(i))) \in AWork
        BY <1>4, <1>6
    <2>2. vs \in Seq(AWork) /\ Len(vs) = 2 * n
        BY <1>1, <1>7, <2>1
    <2>3. \A i \in 1..(2 * n) : vs[i] = IF i % 2 = 1 THEN v(half(i)) ELSE k(half(i))
        BY <1>7
    <2>4. w = vs \o <<l>>
        BY DEF Unrolled, l
    <2> HIDE DEF vs, w
    <2>5. /\ w \in Seq(AWork) /\ Len(w) = 2 * n + 1 /\ w[2 * n + 1] = l
          /\ \A i \in 1..(2 * n) : w[i] = vs[i]
        BY <2>2, <2>4, <1>1, <1>5
    <2> QED BY <2>3, <2>5
<1> HIDE DEF w
<1>9. \A i \in 1..(2 * n + 1) : i \in 1..(2 * n) \/ i = 2 * n + 1
    BY <1>1
<1>10. ASSUME NEW i \in 1..(2 * n) PROVE After(w[i]) = Before(w[i + 1])
    <2>1. half(i) \in 1..n
        BY <1>6
    <2>2. CASE i % 2 = 1
        <3>1. i + 1 \in 1..(2 * n) /\ (i + 1) % 2 # 1 /\ 2 * half(i) = i + 1
            <4>1. 2 * half(i) - 1 = i
                BY <2>2, <1>6
            <4> DEFINE h == half(i)
            <4>2. h \in 1..n /\ h \in Nat /\ i \in Nat
                BY <2>1, <1>1
            <4> HIDE DEF h
            <4>3. 2 * h - 1 = i
                BY <4>1 DEF h
            <4>4. i + 1 \in 1..(2 * n) /\ 2 * h = i + 1
                BY <4>2, <4>3, <1>1
            <4>5. (2 * h) % 2 # 1
                BY <4>2
            <4> QED BY <4>4, <4>5 DEF h
        <3>2. half(i + 1) = half(i)
            <4>1. 2 * half(i + 1) = i + 1 /\ half(i + 1) \in 1..n
                BY <3>1, <1>6
            <4> QED BY <4>1, <3>1, <2>1
        <3>3. w[i] = v(half(i)) /\ w[i + 1] = k(half(i))
            BY <2>2, <3>1, <3>2, <1>8
        <3> QED BY <3>3, <2>1, <1>0 DEF n, v, k
    <2>3. CASE i % 2 # 1 /\ i = 2 * n
        <3>1. half(i) = n /\ n > 0
            BY <2>1, <2>3, <1>1, <1>6
        <3>2. w[i] = k(n) /\ w[i + 1] = l
            BY <2>3, <3>1, <1>8
        <3> QED BY <3>1, <3>2, <1>0 DEF n, k, l
    <2>4. CASE i % 2 # 1 /\ i # 2 * n
        <3>1. i + 1 \in 1..(2 * n) /\ (i + 1) % 2 = 1 /\ 2 * half(i) = i
            <4>1. 2 * half(i) = i
                BY <2>4, <1>6
            <4> DEFINE h == half(i)
            <4>2. h \in 1..n /\ h \in Nat /\ i \in Nat
                BY <2>1, <1>1
            <4> HIDE DEF h
            <4>3. 2 * h = i
                BY <4>1 DEF h
            <4>4. i + 1 \in 1..(2 * n)
                BY <2>4, <4>2, <4>3, <1>1
            <4>5. (2 * h + 1) % 2 = 1
                BY <4>2
            <4> QED BY <4>3, <4>4, <4>5 DEF h
        <3>2. half(i + 1) = half(i) + 1 /\ half(i) \in 1..(n - 1)
            <4>1. 2 * half(i + 1) - 1 = i + 1 /\ half(i + 1) \in 1..n
                BY <3>1, <1>6
            <4> QED BY <4>1, <3>1, <2>1, <1>1
        <3>3. w[i] = k(half(i)) /\ w[i + 1] = v(half(i) + 1)
            BY <2>4, <3>1, <3>2, <1>8
        <3> QED BY <3>2, <3>3, <1>0 DEF n, k, v
    <2> QED BY <2>2, <2>3, <2>4
<1>11. Before(w[1]) = Before(Entry("visit", q))
    <2>1. CASE n = 0
        <3>1. 2 * n + 1 = 1
            BY <2>1
        <3> QED BY <2>1, <3>1, <1>0, <1>8 DEF n, l
    <2>2. CASE n # 0
        <3>1. n > 0 /\ 1 \in 1..(2 * n) /\ 1 % 2 = 1
            BY <2>2, <1>1
        <3>2. half(1) = 1
            BY <3>1, <1>1, <1>6
        <3>3. w[1] = v(1)
            BY <3>1, <3>2, <1>8
        <3> QED BY <3>1, <3>3, <1>0 DEF n, v
    <2> QED BY <2>1, <2>2
<1>12. w # <<>> /\ Len(w) - 1 = 2 * n
    <2>1. 2 * n + 1 # 0 /\ 2 * n \in Nat
        BY <1>1
    <2>2. Len(w) # 0
        BY <1>8, <2>1
    <2> QED BY <2>1, <2>2, <1>8
<1>13. \A i \in 1..Len(w) : WorkFits(w[i])
    BY <1>4, <1>5, <1>6, <1>8, <1>9
<1>14. \A i \in 1..(Len(w) - 1) : w[i].at # <<>>
    BY <1>4, <1>6, <1>8, <1>12
<1>15. w[Len(w)] = Entry("leave", q)
    BY <1>8 DEF l
<1>16. Chained(w)
    BY <1>10, <1>12 DEF Chained
<1> QED BY <1>8, <1>11, <1>12, <1>13, <1>14, <1>15, <1>16 DEF UnrolledWell, w

LEMMA UnrolledIs ==
    ASSUME Rooted, NEW q, IsExpression(q)
    PROVE  UnrolledWell(q, Unrolled(q))
BY UnrolledVisits, UnrolledKeeps

LEMMA HeadIs ==
    ASSUME NEW w, WorkGood(w)
    PROVE  /\ Head(w) = w[1] /\ WorkFits(Head(w)) /\ Head(w) = Entry(Head(w).do, Head(w).at)
           /\ Len(w) \in Nat \ {0}
<1>1. w \in Seq(AWork) /\ w # <<>>
    BY DEF WorkGood
<1>2. Head(w) = w[1] /\ Len(w) \in Nat \ {0} /\ 1 \in 1..Len(w)
    BY <1>1
<1>3. WorkFits(Head(w))
    BY <1>2 DEF WorkGood
<1>4. Head(w) = Entry(Head(w).do, Head(w).at)
    BY <1>3 DEF WorkFits, AWork, Entry
<1> QED BY <1>2, <1>3, <1>4

\* A node is visited: its children first, and then what it does itself.
LEMMA WorkOpened ==
    ASSUME Rooted, NEW w, WorkGood(w), NEW q, Head(w) = Entry("visit", q)
    PROVE  /\ WorkGood(Unrolled(q) \o Tail(w)) /\ IsExpression(q)
           /\ Before(Head(Unrolled(q) \o Tail(w))) = Before(Head(w))
<1> DEFINE u == Unrolled(q)
           t == Tail(w)
           x == u \o t
           n == Len(u)
           m == Len(t)
<1>1. w \in Seq(AWork) /\ w # <<>> /\ Head(w) = w[1] /\ WorkFits(Head(w)) /\ Len(w) \in Nat \ {0}
    BY HeadIs DEF WorkGood
<1>2. IsExpression(q) /\ w[1].at = q
    BY <1>1 DEF WorkFits, Entry
<1>3. UnrolledWell(q, u)
    BY <1>2, UnrolledIs
<1>4. /\ u \in Seq(AWork) /\ u # <<>> /\ n \in Nat \ {0}
      /\ \A i \in 1..n : WorkFits(u[i])
      /\ \A i \in 1..(n - 1) : u[i].at # <<>> /\ After(u[i]) = Before(u[i + 1])
      /\ u[n] = Entry("leave", q) /\ Before(u[1]) = Before(Entry("visit", q))
    BY <1>3 DEF UnrolledWell, Chained
<1>5. t \in Seq(AWork) /\ m \in Nat /\ Len(w) = m + 1 /\ \A j \in 1..m : t[j] = w[j + 1]
    BY <1>1
<1> HIDE DEF u, t
<1>6. /\ x \in Seq(AWork) /\ Len(x) = n + m /\ x # <<>>
      /\ \A i \in 1..n : x[i] = u[i]
      /\ \A j \in 1..m : x[n + j] = t[j]
    BY <1>4, <1>5
<1> HIDE DEF x, n, m
<1>7. \A i \in 1..Len(x) : i \in 1..n \/ (i - n \in 1..m /\ i = n + (i - n))
    BY <1>4, <1>5, <1>6
<1>8. /\ \A j \in 1..(m + 1) : WorkFits(w[j]) /\ (w[j].at = <<>> <=> j = m + 1)
      /\ \A j \in 1..m : After(w[j]) = Before(w[j + 1])
    <2>1. (m + 1) - 1 = m
        BY <1>5
    <2> QED BY <1>5, <2>1 DEF WorkGood, Chained
<1>9. /\ \A j \in 1..m : WorkFits(t[j]) /\ (t[j].at = <<>> <=> j = m)
      /\ \A j \in 1..(m - 1) : After(t[j]) = Before(t[j + 1])
      /\ m > 0 => After(w[1]) = Before(t[1])
    <2>1. \A j \in 1..m : j + 1 \in 1..(m + 1) /\ (j + 1 = m + 1 <=> j = m)
        BY <1>5
    <2>2. \A j \in 1..(m - 1) : j + 1 \in 1..m /\ j \in 1..m
        BY <1>5
    <2>3. m > 0 => 1 \in 1..m
        BY <1>5
    <2> QED BY <2>1, <2>2, <2>3, <1>5, <1>8
<1>10. q = <<>> <=> m = 0
    <2>1. 1 \in 1..(m + 1) /\ (1 = m + 1 <=> m = 0)
        BY <1>5
    <2> QED BY <2>1, <1>2, <1>8
<1>11. u[n].at = q /\ After(u[n]) = After(w[1])
    <2>1. w[1] = Entry("visit", q)
        BY <1>1
    <2>2. After(Entry("leave", q)) = After(Entry("visit", q))
        BY BeforeIs
    <2>3. Entry("leave", q).at = q
        BY DEF Entry
    <2> QED BY <2>1, <2>2, <2>3, <1>4
<1>12. ASSUME NEW i \in 1..Len(x) PROVE WorkFits(x[i]) /\ (x[i].at = <<>> <=> i = Len(x))
    <2>1. CASE i \in 1..(n - 1)
        <3>1. i \in 1..n /\ i # n + m
            BY <2>1, <1>4, <1>5
        <3> QED BY <2>1, <3>1, <1>4, <1>6
    <2>2. CASE i = n
        <3>1. i \in 1..n /\ (n = n + m <=> m = 0)
            BY <2>2, <1>4, <1>5
        <3> QED BY <2>2, <3>1, <1>4, <1>6, <1>10, <1>11
    <2>3. CASE i - n \in 1..m /\ i = n + (i - n)
        <3> DEFINE j == i - n
        <3>1. j \in 1..m /\ i = n + j /\ (n + j = n + m <=> j = m)
            BY <2>3, <1>4, <1>5
        <3> HIDE DEF j
        <3>2. x[i] = t[j]
            BY <3>1, <1>6
        <3> QED BY <3>1, <3>2, <1>6, <1>9
    <2>4. i \in 1..n => i \in 1..(n - 1) \/ i = n
        BY <1>4
    <2> QED BY <2>1, <2>2, <2>3, <2>4, <1>7
<1>13. ASSUME NEW i \in 1..(Len(x) - 1) PROVE After(x[i]) = Before(x[i + 1])
    <2>1. CASE i \in 1..(n - 1)
        <3>1. i \in 1..n /\ i + 1 \in 1..n
            BY <2>1, <1>4
        <3> QED BY <2>1, <3>1, <1>4, <1>6
    <2>2. CASE i = n
        <3>1. n \in 1..n /\ 1 \in 1..m /\ m > 0
            BY <2>2, <1>4, <1>5, <1>6
        <3>2. x[n] = u[n] /\ x[n + 1] = t[1]
            BY <3>1, <1>6
        <3> QED BY <2>2, <3>1, <3>2, <1>9, <1>11
    <2>3. CASE i > n
        <3> DEFINE j == i - n
        <3>1. j \in 1..(m - 1) /\ j \in 1..m /\ j + 1 \in 1..m /\ i = n + j /\ i + 1 = n + (j + 1)
            <4>1. n \in Nat /\ m \in Nat /\ i \in Nat /\ i <= n + m - 1 /\ i > n
                BY <2>3, <1>4, <1>5, <1>6
            <4> QED BY <4>1
        <3> HIDE DEF j
        <3>2. x[i] = t[j] /\ x[i + 1] = t[j + 1]
            BY <3>1, <1>6
        <3> QED BY <3>1, <3>2, <1>9
    <2>4. i \in 1..(n - 1) \/ i = n \/ i > n
        BY <1>4, <1>5, <1>6
    <2> QED BY <2>1, <2>2, <2>3, <2>4
<1>14. WorkGood(x)
    BY <1>6, <1>12, <1>13 DEF WorkGood, Chained
<1>15. Before(Head(x)) = Before(Head(w))
    <2>1. 1 \in 1..n
        BY <1>4
    <2>2. Head(x) = x[1]
        BY <1>6
    <2> QED BY <2>1, <2>2, <1>4, <1>6
<1> QED BY <1>2, <1>14, <1>15 DEF x, u, t

\* An entry is done: the next one finds what it leaves.
LEMMA WorkClosed ==
    ASSUME NEW w, WorkGood(w), Head(w).at # <<>>
    PROVE  WorkGood(Tail(w)) /\ Before(Head(Tail(w))) = After(Head(w))
<1> DEFINE t == Tail(w)
           m == Len(t)
<1>1. w \in Seq(AWork) /\ w # <<>> /\ Head(w) = w[1] /\ Len(w) \in Nat \ {0}
    BY HeadIs DEF WorkGood
<1>2. t \in Seq(AWork) /\ m \in Nat /\ Len(w) = m + 1 /\ \A j \in 1..m : t[j] = w[j + 1]
    BY <1>1
<1> HIDE DEF t
<1>3. m # 0
    <2>1. 1 \in 1..Len(w)
        BY <1>1
    <2>2. 1 # Len(w)
        BY <1>1, <2>1 DEF WorkGood
    <2> QED BY <1>2, <2>2
<1>4. t # <<>> /\ Head(t) = t[1]
    <2>1. t # <<>>
        BY <1>2, <1>3
    <2> QED BY <1>2, <2>1
<1> HIDE DEF m
<1>5. /\ \A j \in 1..(m + 1) : WorkFits(w[j]) /\ (w[j].at = <<>> <=> j = m + 1)
      /\ \A j \in 1..m : After(w[j]) = Before(w[j + 1])
    <2>1. (m + 1) - 1 = m
        BY <1>2
    <2> QED BY <1>2, <2>1 DEF WorkGood, Chained
<1>6. \A j \in 1..m : j + 1 \in 1..(m + 1) /\ (j + 1 = m + 1 <=> j = m)
    BY <1>2
<1>7. \A j \in 1..(m - 1) : j + 1 \in 1..m /\ j \in 1..m
    BY <1>2
<1>8. 1 \in 1..m
    BY <1>2, <1>3
<1>9. \A j \in 1..m : WorkFits(t[j]) /\ (t[j].at = <<>> <=> j = m)
    BY <1>2, <1>5, <1>6
<1>10. \A j \in 1..(m - 1) : After(t[j]) = Before(t[j + 1])
    BY <1>2, <1>5, <1>6, <1>7
<1>11. WorkGood(t)
    BY <1>2, <1>4, <1>9, <1>10 DEF WorkGood, Chained, m
<1>12. Before(t[1]) = After(w[1])
    BY <1>2, <1>5, <1>8
<1> QED BY <1>1, <1>4, <1>11, <1>12 DEF t

LEMMA WorkStarts ==
    ASSUME Rooted
    PROVE  WorkGood(<<Entry("visit", <<>>)>>) /\ Before(Entry("visit", <<>>)) = State(<<>>, <<>>, 0)
<1> DEFINE e == Entry("visit", <<>>)
           w == <<e>>
<1>1. WorkFits(e) /\ e \in AWork /\ e.at = <<>>
    BY ModuleIsExpression, WorkEntry
<1>2. Before(e) = State(<<>>, <<>>, 0)
    <2>1. Before(e) = State(Stack(<<>>), Held(<<>>), Done0(<<>>))
        BY BeforeIs
    <2>2. Done0(<<>>) = 0
        BY DEF Done0
    <2> QED BY <2>1, <2>2, FoundModule
<1> HIDE DEF e
<1>3. w \in Seq(AWork) /\ w # <<>> /\ Len(w) = 1 /\ w[1] = e /\ 1..(1 - 1) = {} /\ \A i \in 1..1 : i = 1
    BY <1>1
<1> HIDE DEF w
<1>4. WorkGood(w)
    BY <1>1, <1>3 DEF WorkGood, Chained
<1> QED BY <1>2, <1>4 DEF e, w

\* Nothing of this changes while the tree does not.
LEMMA SameTree ==
    ASSUME program' = program
    PROVE  /\ \A p : /\ Kind(p)' = Kind(p) /\ At(p)' = At(p) /\ Children(p)' = Children(p)
                     /\ Values(p)' = Values(p) /\ ValueOf(p)' = ValueOf(p)
                     /\ InDot(p)' = InDot(p) /\ Arguments(p)' = Arguments(p)
                     /\ IsExpression(p)' = IsExpression(p)
                     /\ Before(p)' = Before(p)
           /\ \A ps : ValuesOf(ps)' = ValuesOf(ps)
           /\ \A w : WorkGood(w)' = WorkGood(w)
           /\ Plain' = Plain /\ Rooted' = Rooted
<1>1. \A p : At(p)' = At(p) /\ Kind(p)' = Kind(p) /\ IsExpression(p)' = IsExpression(p)
    BY SameModule
<1>2. \A p : Arguments(p)' = Arguments(p) /\ InDot(p)' = InDot(p)
    BY <1>1 DEF Arguments, Kids, InDot
<1>3. \A p : Children(p)' = Children(p)
    BY <1>1, <1>2 DEF Children, Kids, Body
<1>4. \A p : ValueOf(p)' = ValueOf(p)
    BY <1>1 DEF ValueOf
<1>5. \A ps : ValuesOf(ps)' = ValuesOf(ps)
    BY <1>4 DEF ValuesOf
<1>6. \A p : Values(p)' = Values(p)
    BY <1>3, <1>4 DEF Values, ValuesOf
<1>7. \A p : Holding(p)' = Holding(p) /\ FirstKid(p)' = FirstKid(p) /\ IsMethod(p)' = IsMethod(p)
    BY <1>1, <1>2 DEF Holding, FirstKid, IsMethod
<1>8. \A p : Earlier(p)' = Earlier(p)
    BY <1>1, <1>4, <1>7 DEF Earlier
<1>9. \A s, p : Deeper(s, p)' = Deeper(s, p)
    BY <1>7, <1>8 DEF Deeper
<1>10. \A p : Found(p)' = Found(p)
    BY <1>9 DEF Found
<1>11. \A p : Stack(p)' = Stack(p) /\ Held(p)' = Held(p) /\ Base(p)' = Base(p)
    BY <1>7, <1>10 DEF Stack, Held, Base
<1>12. \A p : Popped(p)' = Popped(p) /\ Pushed(p)' = Pushed(p) /\ Result(p)' = Result(p)
    BY <1>1, <1>3, <1>4, <1>6, <1>7 DEF Popped, Pushed, Result, Body
<1>13. \A p : Done0(p)' = Done0(p) /\ Done1(p)' = Done1(p)
    BY DEF Done0, Done1
<1>14. \A e : Before(e)' = Before(e)
    BY <1>4, <1>6, <1>7, <1>11, <1>12, <1>13 DEF Before
<1>15. \A e : After(e)' = After(e)
    BY <1>4, <1>11, <1>12, <1>13 DEF After
<1>16. \A e : WorkFits(e)' = WorkFits(e)
    BY <1>1, <1>7 DEF WorkFits
<1>17. \A w : WorkGood(w)' = WorkGood(w)
    BY <1>14, <1>15, <1>16 DEF WorkGood, Chained
<1>18. Parts' = Parts
    BY DEF Parts
<1>19. Plain' = Plain
    BY <1>18 DEF Plain
<1>20. Rooted' = Rooted
    BY SameModule
<1> QED BY <1>1, <1>2, <1>3, <1>4, <1>5, <1>6, <1>14, <1>17, <1>19, <1>20

-----------------------------------------------------------------------------
(* The invariant.                                                           *)

\* The stacks an entry of the traversal finds.  Which values are on them is
\* known of plain modules; how many are held, of all.
Agrees(e) ==
    /\ Len(held) = Len(Before(e).held) /\ Len(functions) = Before(e).count
    /\ Plain => values = Before(e).values /\ held = Before(e).held

MirKids(value, S) == value.kids \in Seq(S) /\ (value.op \in {"if", "method"} => value.kids # <<>>)
MirTyped ==
    /\ DOMAIN mir \subseteq Seq(Nat)
    /\ values \in Seq(DOMAIN mir) /\ held \in Seq(DOMAIN mir)
    /\ \A p \in DOMAIN mir : MirKids(mir[p], DOMAIN mir)
    /\ functions \in Seq([of : Seq(Nat), body : Seq(DOMAIN mir)])

\* A value was built from its node, or added at the end of a function.
ValueFits(p) ==
    \/ p # <<>> /\ Last(p) = 0 /\ mir[p].op = "ret" /\ mir[p].kids = <<>>
    \/ /\ IsExpression(p) /\ p # <<>> /\ Last(p) # 0
       /\ mir[p].op = "ret" <=> Kind(p) = "ret"
       /\ Plain => /\ mir[p].kids = Operands(p)
                   /\ mir[p].op = "ccall" => Arguments(p) # <<>> /\ ~InDot(p)
ValuesFit == \A p \in DOMAIN mir : ValueFits(p)

FunctionFits(k) ==
    LET f == <<k>>
        body == ValuesOf(Children(IF k = 1 THEN f ELSE Body(f)))
        returns == k > 1 /\ body # <<>> /\ Kind(Last(body)) = "ret"
    IN functions[k] = [of |-> f, body |-> IF returns THEN body ELSE Append(body, Append(f, 0))]
FunctionsFit == Plain => \A k \in DOMAIN functions : FunctionFits(k)

CastFits(p) ==
    /\ p \in DOMAIN mir
    /\ mir[p].op = "call" => /\ casts[p] = CastLoop(Given(p), targets[p].params).to
                             /\ CastLoop(Given(p), targets[p].params).ends = "no"
CastsFit == \A p \in DOMAIN casts : CastFits(p)

\* What is built, whatever the stage.
Built == MirTyped /\ ValuesFit /\ FunctionsFit /\ CastsFit

CastWork(S) == [do : {"cast", "arguments"}, at : S]
Staged ==
    /\ stage \in Stages
    /\ stage = "waiting" => values = <<>> /\ held = <<>> /\ mir = <<>> /\ functions = <<>>
    /\ stage # "waiting" => status = "resolved"
    /\ stage \in {"waiting", "mir"} => casts = <<>>
    /\ stage = "mir" => WorkGood(work) /\ Agrees(Head(work))
    /\ stage = "casts" => work \in Seq(CastWork(DOMAIN mir))
    /\ stage \in {"casts", "lowered"} => Len(functions) = Len(program.kids)

LoweringInv == ResolverInv /\ MethodsApart /\ Staged /\ Built

-----------------------------------------------------------------------------
(* Steps.                                                                   *)

\* What a step of the lowering proper has in common: it is at work, and
\* leaves the resolved module as it is.
LoweringWork ==
    \/ LowerLeaf \/ LowerLocal \/ LowerChildren \/ KeepValue
    \/ LowerBinExpr \/ LowerReturn \/ LowerCall \/ LowerIf \/ LowerBlock \/ LowerOther
    \/ LowerFunction \/ LowerStatic \/ LowerModule
    \/ VisitMir \/ CastArguments \/ FinishLowering

LEMMA LoweringStep ==
    ASSUME LoweringWork
    PROVE  /\ stage \in {"mir", "casts"} /\ stage' # "waiting"
           /\ status' = status /\ problems' = problems
           /\ UNCHANGED resolverVars
<1>0. UNCHANGED resolverVars => status' = status /\ problems' = problems
    BY DEF resolverVars
<1> USE DEF Lowers, Fail, Combine, PushOn
<1>1. CASE LowerLeaf
    BY <1>0, <1>1 DEF LowerLeaf
<1>2. CASE LowerLocal
    BY <1>0, <1>2 DEF LowerLocal
<1>3. CASE LowerChildren
    BY <1>0, <1>3 DEF LowerChildren
<1>4. CASE KeepValue
    BY <1>0, <1>4 DEF KeepValue
<1>5. CASE LowerBinExpr
    BY <1>0, <1>5 DEF LowerBinExpr
<1>6. CASE LowerReturn
    BY <1>0, <1>6 DEF LowerReturn
<1>7. CASE LowerCall
    BY <1>0, <1>7 DEF LowerCall
<1>8. CASE LowerIf
    BY <1>0, <1>8 DEF LowerIf
<1>9. CASE LowerBlock
    BY <1>0, <1>9 DEF LowerBlock
<1>10. CASE LowerOther
    BY <1>0, <1>10 DEF LowerOther
<1>11. CASE LowerFunction
    BY <1>0, <1>11 DEF LowerFunction, EndFunctionWith
<1>12. CASE LowerStatic
    BY <1>0, <1>12 DEF LowerStatic, EndFunctionWith
<1>13. CASE LowerModule
    BY <1>0, <1>13 DEF LowerModule
<1>14. CASE VisitMir
    BY <1>0, <1>14 DEF VisitMir
<1>15. CASE CastArguments
    BY <1>0, <1>15 DEF CastArguments
<1>16. CASE FinishLowering
    BY <1>0, <1>16 DEF FinishLowering
<1> QED
    BY <1>1, <1>2, <1>3, <1>4, <1>5, <1>6, <1>7, <1>8, <1>9, <1>10, <1>11, <1>12, <1>13, <1>14,
       <1>15, <1>16 DEF LoweringWork

LEMMA Popping ==
    ASSUME NEW S, NEW s \in Seq(S), NEW n \in 0..Len(s)
    PROVE  /\ LastOfStack(s, n) \in Seq(S) /\ Len(LastOfStack(s, n)) = n
           /\ Without(s, n) \in Seq(S) /\ Len(Without(s, n)) = Len(s) - n
           /\ n = 0 => LastOfStack(s, n) = <<>> /\ Without(s, n) = s
           /\ n # 0 => LastOfStack(s, n) # <<>>
<1> DEFINE a == LastOfStack(s, n)
           b == Without(s, n)
<1>1. Len(s) \in Nat /\ n \in Nat /\ n <= Len(s)
    OBVIOUS
<1>2. a = SubSeq(s, Len(s) - n + 1, Len(s)) /\ b = SubSeq(s, 1, Len(s) - n)
    BY DEF LastOfStack, Without
<1>3. a \in Seq(S) /\ Len(a) = n
    BY <1>1, <1>2
<1>4. b \in Seq(S) /\ Len(b) = Len(s) - n
    BY <1>1, <1>2
<1> HIDE DEF a, b
<1>5. n = 0 => a = <<>>
    BY <1>3
<1>6. n = 0 => b = s
    BY <1>1, <1>2
<1>7. n # 0 => a # <<>>
    BY <1>3
<1> QED BY <1>3, <1>4, <1>5, <1>6, <1>7 DEF a, b

LEMMA SeqEnds ==
    ASSUME NEW S, NEW s \in Seq(S), s # <<>>
    PROVE  /\ Last(s) \in S /\ Front(s) \in Seq(S) /\ Tail(s) \in Seq(S) /\ Head(s) \in S
           /\ s[1] \in S /\ Len(Tail(s)) = Len(s) - 1
<1>1. Len(s) \in Nat /\ Len(s) # 0 /\ Len(s) \in 1..Len(s) /\ 1 \in 1..Len(s)
    OBVIOUS
<1>2. Last(s) \in S
    BY <1>1 DEF Last
<1>3. Front(s) \in Seq(S)
    BY <1>1 DEF Front
<1> QED BY <1>1, <1>2, <1>3

\* Nothing that is built changes.
LEMMA SameBuilt ==
    ASSUME Built, UNCHANGED resolverVars, UNCHANGED <<values, held, mir, functions, casts>>
    PROVE  Built'
<1>1. program' = program /\ targets' = targets
    BY DEF resolverVars
<1>2. /\ \A p : Kind(p)' = Kind(p) /\ Children(p)' = Children(p) /\ ValueOf(p)' = ValueOf(p)
                /\ InDot(p)' = InDot(p) /\ Arguments(p)' = Arguments(p)
                /\ IsExpression(p)' = IsExpression(p)
      /\ \A ps : ValuesOf(ps)' = ValuesOf(ps)
      /\ Plain' = Plain
    BY <1>1, SameTree
<1>3. \A p : Operands(p)' = Operands(p)
    BY <1>2 DEF Operands
<1>4. MirTyped'
    BY DEF Built, MirTyped
<1>5. ValuesFit'
    BY <1>2, <1>3 DEF Built, ValuesFit, ValueFits
<1>6. FunctionsFit'
    BY <1>2 DEF Built, FunctionsFit, FunctionFits, Body, Kid
<1>7. CastsFit'
    BY <1>1 DEF Built, CastsFit, CastFits, Given, MirArguments
<1> QED BY <1>4, <1>5, <1>6, <1>7 DEF Built

LEMMA SameModuleState ==
    ASSUME ResolverInv, MethodsApart, UNCHANGED resolverVars
    PROVE  ResolverInv' /\ MethodsApart' /\ status' = status
<1>1. program' = program /\ targets' = targets /\ status' = status
    BY DEF resolverVars
<1>2. \A p : InDot(p)' = InDot(p)
    BY <1>1, SameTree
<1>3. MethodsApart'
    BY <1>1, <1>2 DEF MethodsApart, Kid
<1> QED BY <1>1, <1>3, UnchangedStep

\* What a step of the traversal has to keep.
LEMMA Traversing ==
    ASSUME LoweringInv, stage = "mir", stage' = "mir", UNCHANGED resolverVars, casts' = casts,
           WorkGood(work'), Agrees(Head(work))', MirTyped', ValuesFit', FunctionsFit'
    PROVE  LoweringInv'
<1>1. ResolverInv' /\ MethodsApart' /\ status' = status
    BY SameModuleState DEF LoweringInv
<1>2. program' = program
    BY DEF resolverVars
<1>3. WorkGood(work)'
    <2>1. \A w : WorkGood(w)' = WorkGood(w)
        BY <1>2, SameTree
    <2> QED BY <2>1 DEF WorkGood, Chained
<1>4. casts' = <<>> /\ status' = "resolved"
    BY <1>1 DEF LoweringInv, Staged
<1>5. CastsFit'
    BY <1>4 DEF CastsFit
<1>6. Staged'
    BY <1>3, <1>4 DEF Staged, Stages
<1> QED BY <1>1, <1>5, <1>6 DEF LoweringInv, Built

\* What is known where the entry at the head of the work is done.
LEMMA AtWork ==
    ASSUME LoweringInv, stage = "mir"
    PROVE  /\ WorkGood(work) /\ WorkFits(Head(work)) /\ Head(work) = Entry(Head(work).do, Item)
           /\ Agrees(Head(work))
           /\ IsExpression(Item) /\ Item \in Seq(Nat) /\ Rooted /\ status = "resolved"
           /\ MirTyped /\ ValuesFit /\ FunctionsFit /\ casts = <<>>
           /\ Kind(Item) = "module" <=> Item = <<>>
           /\ Head(work).do \in {"visit", "leave", "keep"}
<1>1. WorkGood(work) /\ Agrees(Head(work)) /\ Rooted /\ status = "resolved" /\ casts = <<>>
    BY DEF LoweringInv, Staged, ResolverInv
<1>2. WorkFits(Head(work)) /\ Head(work) = Entry(Head(work).do, Item)
    BY <1>1, HeadIs DEF Item
<1>3. IsExpression(Item) /\ Item \in Seq(Nat) /\ Head(work).do \in {"visit", "leave", "keep"}
    BY <1>2 DEF WorkFits, AWork, Item
<1>4. MirTyped /\ ValuesFit /\ FunctionsFit
    BY DEF LoweringInv, Built
<1> QED BY <1>1, <1>2, <1>3, <1>4, WhereKindsStand

LEMMA StateIs ==
    ASSUME NEW vs, NEW hs, NEW n
    PROVE  State(vs, hs, n).values = vs /\ State(vs, hs, n).held = hs /\ State(vs, hs, n).count = n
BY DEF State

LEMMA AtVisit ==
    ASSUME LoweringInv, stage = "mir", Head(work).do = "visit"
    PROVE  /\ Len(held) = Len(Held(Item)) /\ Len(functions) = Done0(Item)
           /\ Plain => values = Stack(Item) /\ held = Held(Item)
<1>1. Agrees(Head(work)) /\ Head(work) = Entry("visit", Item)
    BY AtWork
<1> DEFINE b == Before(Head(work))
<1>2. b = State(Stack(Item), Held(Item), Done0(Item))
    BY <1>1, BeforeIs
<1> HIDE DEF b
<1>3. b.values = Stack(Item) /\ b.held = Held(Item) /\ b.count = Done0(Item)
    BY <1>2 DEF State
<1>4. Len(held) = Len(b.held) /\ Len(functions) = b.count /\ (Plain => values = b.values /\ held = b.held)
    BY <1>1 DEF Agrees, b
<1> QED BY <1>3, <1>4, Zenon

LEMMA AtKeep ==
    ASSUME LoweringInv, stage = "mir", Head(work).do = "keep"
    PROVE  /\ Len(held) = Len(Held(Item)) /\ Len(functions) = Done0(Item)
           /\ Plain => values = Append(Stack(Item), ValueOf(Item)) /\ held = Held(Item)
<1>1. Agrees(Head(work)) /\ Head(work) = Entry("keep", Item)
    BY AtWork
<1> DEFINE b == Before(Head(work))
<1>2. b = State(Append(Stack(Item), ValueOf(Item)), Held(Item), Done0(Item))
    BY <1>1, BeforeIs
<1> HIDE DEF b
<1>3. b.values = Append(Stack(Item), ValueOf(Item)) /\ b.held = Held(Item) /\ b.count = Done0(Item)
    BY <1>2 DEF State
<1>4. Len(held) = Len(b.held) /\ Len(functions) = b.count /\ (Plain => values = b.values /\ held = b.held)
    BY <1>1 DEF Agrees, b
<1> QED BY <1>3, <1>4, Zenon

LEMMA AtLeave ==
    ASSUME LoweringInv, stage = "mir", Head(work).do = "leave"
    PROVE  /\ ~Holding(Item) =>
                 /\ Len(held) = Len(Held(Item))
                 /\ Len(functions) = IF Item = <<>> THEN Len(program.kids) ELSE Done0(Item)
                 /\ Plain => values = Stack(Item) \o Pushed(Item) /\ held = Held(Item)
           /\ Holding(Item) =>
                 /\ Len(held) = Len(Held(Item)) + Popped(Item) /\ Len(functions) = Done0(Item)
                 /\ Plain => /\ values = Stack(Item)
                             /\ held = Held(Item) \o Beginning(Values(Item), Popped(Item))
<1>1. Agrees(Head(work)) /\ Head(work) = Entry("leave", Item) /\ Rooted /\ IsExpression(Item)
    BY AtWork
<1> DEFINE h == Held(Item) \o Beginning(Values(Item), Popped(Item))
<1>2. ASSUME ~Holding(Item)
      PROVE  /\ Len(held) = Len(Held(Item))
             /\ Len(functions) = IF Item = <<>> THEN Len(program.kids) ELSE Done0(Item)
             /\ Plain => values = Stack(Item) \o Pushed(Item) /\ held = Held(Item)
    <2> DEFINE b == Before(Head(work))
               n == IF Item = <<>> THEN Len(program.kids) ELSE Done0(Item)
    <2>1. b = State(Stack(Item) \o Pushed(Item), Held(Item), n)
        BY <1>1, <1>2, BeforeIs
    <2> HIDE DEF n, b
    <2>2. b.values = Stack(Item) \o Pushed(Item) /\ b.held = Held(Item) /\ b.count = n
        BY <2>1 DEF State
    <2>3. /\ Len(held) = Len(b.held) /\ Len(functions) = b.count
          /\ Plain => values = b.values /\ held = b.held
        BY <1>1 DEF Agrees, b
    <2>4. Len(held) = Len(Held(Item)) /\ Len(functions) = n
          /\ (Plain => values = Stack(Item) \o Pushed(Item) /\ held = Held(Item))
        BY <2>2, <2>3, Zenon
    <2> QED BY <2>4 DEF n
<1>3. ASSUME Holding(Item)
      PROVE  /\ Len(held) = Len(Held(Item)) + Popped(Item) /\ Len(functions) = Done0(Item)
             /\ Plain => values = Stack(Item) /\ held = h
    <2>1. Before(Head(work)) = State(Stack(Item), h, Done0(Item))
        BY <1>1, <1>3, BeforeIs
    <2>2. Len(h) = Len(Held(Item)) + Popped(Item)
        <3>1. Held(Item) \in Seq(Seq(Nat)) /\ Values(Item) \in Seq(Seq(Nat))
              /\ Len(Values(Item)) = Len(Children(Item)) /\ Len(Children(Item)) \in Nat
            BY <1>1, StacksTyped, ValuesAre, ChildrenFrom DEF Values
        <3>2. Popped(Item) \in 0..Len(Values(Item))
            BY <1>1, <1>3, <3>1, ChainOfKeeps
        <3>3. /\ Beginning(Values(Item), Popped(Item)) \in Seq(Seq(Nat))
              /\ Len(Beginning(Values(Item), Popped(Item))) = Popped(Item)
            BY <3>1, <3>2, BeginningIs
        <3> DEFINE b == Beginning(Values(Item), Popped(Item))
        <3> HIDE DEF b
        <3>4. Len(Held(Item) \o b) = Len(Held(Item)) + Len(b)
            BY <3>1, <3>3, LastOfStackIs DEF b
        <3> QED BY <3>3, <3>4 DEF b
    <2> HIDE DEF h
    <2> QED BY <1>1, <2>1, <2>2, StateIs DEF Agrees
<1> QED BY <1>2, <1>3

\* The next entry finds what this one leaves.
LEMMA MovesOn ==
    ASSUME LoweringInv, stage = "mir", program' = program, work' = Tail(work), Item # <<>>,
           Len(held') = Len(After(Head(work)).held), Len(functions') = After(Head(work)).count,
           Plain => values' = After(Head(work)).values /\ held' = After(Head(work)).held
    PROVE  WorkGood(work') /\ Agrees(Head(work))'
<1>1. WorkGood(Tail(work)) /\ Before(Head(Tail(work))) = After(Head(work))
    BY AtWork, WorkClosed DEF Item
<1>2. \A e : Before(e)' = Before(e)
    BY SameTree
<1>3. Plain' = Plain
    BY SameTree
<1>4. Head(work)' = Head(Tail(work)) /\ Before(Head(work))' = Before(Head(Tail(work)))
    <2>1. Head(work)' = Head(Tail(work))
        OBVIOUS
    <2> QED BY <2>1, <1>2 DEF Before
<1>5. Agrees(Head(work))'
    BY <1>1, <1>3, <1>4 DEF Agrees
<1> QED BY <1>1, <1>5

\* A visit that is over leaves the stack with its own value on it.
LEMMA VisitEnds ==
    ASSUME LoweringInv, stage = "mir", program' = program, work' = Tail(work), Item # <<>>,
           Head(work).do \in {"visit", "leave"},
           Len(held') = Len(Held(Item)), Len(functions') = Done1(Item),
           Plain => values' = Base(Item) \o Result(Item) /\ held' = Held(Item)
    PROVE  WorkGood(work') /\ Agrees(Head(work))'
<1>1. Head(work) = Entry(Head(work).do, Item)
    BY AtWork
<1>2. After(Head(work)) = State(Base(Item) \o Result(Item), Held(Item), Done1(Item))
    BY <1>1, BeforeIs
<1> DEFINE a == After(Head(work))
<1> HIDE DEF a
<1>3. a.values = Base(Item) \o Result(Item) /\ a.held = Held(Item) /\ a.count = Done1(Item)
    BY <1>2 DEF State, a
<1>4. /\ Len(held') = Len(a.held) /\ Len(functions') = a.count
      /\ Plain => values' = a.values /\ held' = a.held
    BY <1>3
<1> QED BY <1>4, MovesOn DEF a

\* A value is built.
LEMMA Grown ==
    ASSUME MirTyped, NEW p \in Seq(Nat), NEW value, mir' = With(mir, p, value),
           MirKids(value, DOMAIN mir),
           values' \in Seq(DOMAIN mir \union {p}), held' \in Seq(DOMAIN mir \union {p}),
           functions' \in Seq([of : Seq(Nat), body : Seq(DOMAIN mir \union {p})])
    PROVE  MirTyped'
<1> DEFINE S == DOMAIN mir
           T == S \union {p}
<1>1. /\ DOMAIN mir' = T /\ mir'[p] = value
      /\ \A q \in S : q # p => mir'[q] = mir[q]
    <2> DEFINE m == With(mir, p, value)
    <2>1. DOMAIN m = DOMAIN mir \union {p} /\ m[p] = value /\ \A q \in DOMAIN mir : q # p => m[q] = mir[q]
        BY DEF With
    <2> HIDE DEF m
    <2>2. mir' = m
        BY DEF m
    <2> QED BY <2>1, <2>2
<1>2. S \subseteq Seq(Nat) /\ \A q \in S : MirKids(mir[q], S)
    BY DEF MirTyped
<1>3. Seq(S) \subseteq Seq(T)
    BY SeqGrows
<1>4. \A q \in T : mir'[q] = value \/ (q \in S /\ mir'[q] = mir[q])
    BY <1>1
<1> HIDE DEF T, S
<1>5. \A v : MirKids(v, S) => MirKids(v, T)
    BY <1>3 DEF MirKids
<1>6. \A q \in T : MirKids(mir'[q], T)
    BY <1>2, <1>4, <1>5 DEF S
<1>7. T \subseteq Seq(Nat)
    BY <1>2 DEF T, S
<1> QED BY <1>1, <1>6, <1>7 DEF MirTyped, MirKids, T, S

LEMMA StillTyped ==
    ASSUME MirTyped, mir' = mir, values' \in Seq(DOMAIN mir), held' \in Seq(DOMAIN mir),
           functions' = functions
    PROVE  MirTyped'
BY DEF MirTyped, MirKids

\* The operands a value of p has to have.
HasOperands(p, value) ==
    /\ value.kids = CASE Kind(p) = "call" /\ InDot(p) -> <<ValueOf(Kid(Parent(p), 1))>>
                      [] value.op = "ccall"           -> Tail(ValuesOf(Arguments(p)))
                      [] OTHER                        -> ValuesOf(Children(p))
    /\ value.op = "ccall" => Arguments(p) # <<>> /\ ~InDot(p)
Suits(p, value) ==
    \/ p # <<>> /\ Last(p) = 0 /\ value.op = "ret" /\ value.kids = <<>>
    \/ /\ IsExpression(p) /\ p # <<>> /\ Last(p) # 0
       /\ value.op = "ret" <=> Kind(p) = "ret"
       /\ Plain => HasOperands(p, value)

LEMMA ValueAdded ==
    ASSUME ValuesFit, program' = program, NEW p, NEW value, mir' = With(mir, p, value),
           Suits(p, value)
    PROVE  ValuesFit'
<1>1. /\ DOMAIN mir' = DOMAIN mir \union {p} /\ mir'[p] = value
      /\ \A q \in DOMAIN mir : q # p => mir'[q] = mir[q]
    <2> DEFINE m == With(mir, p, value)
    <2>1. DOMAIN m = DOMAIN mir \union {p} /\ m[p] = value /\ \A q \in DOMAIN mir : q # p => m[q] = mir[q]
        BY DEF With
    <2> HIDE DEF m
    <2>2. mir' = m
        BY DEF m
    <2> QED BY <2>1, <2>2
<1>2. /\ \A q : Kind(q)' = Kind(q) /\ Children(q)' = Children(q) /\ ValueOf(q)' = ValueOf(q)
                /\ InDot(q)' = InDot(q) /\ Arguments(q)' = Arguments(q)
                /\ IsExpression(q)' = IsExpression(q)
      /\ \A ps : ValuesOf(ps)' = ValuesOf(ps)
      /\ Plain' = Plain
    BY SameTree
<1>3. \A q : mir'[q] = mir[q] => Operands(q)' = Operands(q)
    BY <1>2 DEF Operands, Kid
<1>4. \A q : mir'[q] = mir[q] /\ ValueFits(q) => ValueFits(q)'
    BY <1>2, <1>3 DEF ValueFits
<1>5. ValueFits(p)'
    <2>1. CASE p # <<>> /\ Last(p) = 0 /\ value.op = "ret" /\ value.kids = <<>>
        BY <2>1, <1>1 DEF ValueFits
    <2>2. CASE /\ IsExpression(p) /\ p # <<>> /\ Last(p) # 0
               /\ value.op = "ret" <=> Kind(p) = "ret"
               /\ Plain => HasOperands(p, value)
        <3>1. HasOperands(p, value) => /\ mir'[p].kids = Operands(p)'
                                       /\ value.op = "ccall" => Arguments(p)' # <<>> /\ ~InDot(p)'
            <4>1. mir'[p] = value
                BY <1>1
            <4> QED BY <4>1, <1>2 DEF Operands, HasOperands, Kid
        <3> QED BY <2>2, <3>1, <1>1, <1>2 DEF ValueFits
    <2> QED BY <2>1, <2>2 DEF Suits
<1>6. \A q \in DOMAIN mir : ValueFits(q)
    BY DEF ValuesFit
<1>7. \A q \in DOMAIN mir' : ValueFits(q)'
    BY <1>1, <1>4, <1>5, <1>6
<1> QED BY <1>7 DEF ValuesFit

LEMMA SameValues ==
    ASSUME ValuesFit, program' = program, mir' = mir
    PROVE  ValuesFit'
<1>1. /\ \A q : Kind(q)' = Kind(q) /\ Children(q)' = Children(q) /\ ValueOf(q)' = ValueOf(q)
                /\ InDot(q)' = InDot(q) /\ Arguments(q)' = Arguments(q)
                /\ IsExpression(q)' = IsExpression(q)
      /\ \A ps : ValuesOf(ps)' = ValuesOf(ps)
      /\ Plain' = Plain
    BY SameTree
<1>2. \A q : Operands(q)' = Operands(q)
    BY <1>1 DEF Operands, Kid
<1> QED BY <1>1, <1>2 DEF ValuesFit, ValueFits

LEMMA SameFunctions ==
    ASSUME FunctionsFit, program' = program, functions' = functions
    PROVE  FunctionsFit'
<1>1. /\ \A q : Kind(q)' = Kind(q) /\ Children(q)' = Children(q)
      /\ \A ps : ValuesOf(ps)' = ValuesOf(ps)
      /\ Plain' = Plain
    BY SameTree
<1> QED BY <1>1 DEF FunctionsFit, FunctionFits, Body, Kid

LEMMA LastKid ==
    ASSUME Rooted, NEW p, IsExpression(p), p # <<>>
    PROVE  Last(p) \in Nat /\ Last(p) # 0
<1>1. IsExpression(Parent(p)) /\ Last(p) \in ExpressionKids(At(Parent(p)))
    BY ParentOf
<1>2. At(Parent(p)) \in Nodes
    BY <1>1, ExpressionNode
<1>3. Len(At(Parent(p)).kids) \in Nat
    BY <1>2, NodesAre
<1> HIDE DEF Parent
<1> QED BY <1>1, <1>3 DEF ExpressionKids

\* Within a function none is finished.
LEMMA WithinFunction ==
    ASSUME Rooted, NEW p, IsExpression(p), p # <<>>, Kind(p) \notin {"fun", "static"}
    PROVE  Done1(p) = Done0(p)
<1>1. Len(p) # 1
    <2> SUFFICES ASSUME Len(p) = 1 PROVE FALSE
        OBVIOUS
    <2>1. p \in Seq(Nat) /\ Parent(p) = <<>>
        <3>1. p \in Seq(Nat)
            BY DEF IsExpression
        <3> QED BY <3>1 DEF Parent, Front
    <2>2. PICK k \in 1..Len(Children(<<>>)) : p = Children(<<>>)[k]
        BY <2>1, ParentOf
    <2>3. k \in 1..Len(program.kids) /\ p = <<k>>
        BY <2>2, TopKinds
    <2>4. k = 1 \/ k \in 2..Len(program.kids)
        BY <2>3, TopKinds
    <2> QED BY <2>3, <2>4, TopKinds
<1> QED BY <1>1 DEF Done0, Done1

\* A visit ends with its value pushed.
LEMMA Pushes ==
    ASSUME LoweringInv, stage = "mir", Head(work).do \in {"visit", "leave"},
           Kind(Item) \notin {"module", "fun", "static", "body", "."},
           NEW rest, NEW value, PushOn(rest, value),
           rest \in Seq(DOMAIN mir), MirKids(value, DOMAIN mir),
           value.op = "ret" <=> Kind(Item) = "ret",
           held' \in Seq(DOMAIN mir), Len(held') = Len(Held(Item)),
           Len(functions) = Done0(Item),
           Plain => rest = Base(Item) /\ held' = Held(Item) /\ HasOperands(Item, value)
    PROVE  LoweringInv'
<1>1. /\ mir' = With(mir, Item, value) /\ values' = Append(rest, Item) /\ work' = Tail(work)
      /\ UNCHANGED resolverVars /\ stage' = "mir" /\ functions' = functions /\ casts' = casts
    BY DEF PushOn
<1>2. program' = program
    BY <1>1 DEF resolverVars
<1>3. IsExpression(Item) /\ Item \in Seq(Nat) /\ Item # <<>> /\ Rooted
      /\ MirTyped /\ ValuesFit /\ FunctionsFit
    BY AtWork
<1>4. Last(Item) # 0
    BY <1>3, LastKid
<1>5. MirTyped'
    <2>1. /\ rest \in Seq(DOMAIN mir \union {Item}) /\ held' \in Seq(DOMAIN mir \union {Item})
          /\ functions' \in Seq([of : Seq(Nat), body : Seq(DOMAIN mir \union {Item})])
        <3> DEFINE S == DOMAIN mir
                   T == S \union {Item}
        <3>1. Seq(S) \subseteq Seq(T)
            BY SeqGrows
        <3>2. functions' \in Seq([of : Seq(Nat), body : Seq(S)])
            BY <1>1, <1>3 DEF MirTyped
        <3> HIDE DEF S, T
        <3>3. [of : Seq(Nat), body : Seq(S)] \subseteq [of : Seq(Nat), body : Seq(T)]
            BY <3>1
        <3>4. functions' \in Seq([of : Seq(Nat), body : Seq(T)])
            BY <3>2, <3>3, SeqGrows
        <3> QED BY <3>1, <3>4 DEF S, T
    <2>2. values' \in Seq(DOMAIN mir \union {Item})
        <3>1. Item \in DOMAIN mir \union {Item}
            OBVIOUS
        <3> QED BY <1>1, <2>1, <3>1, ConcatOne
    <2> QED BY <1>1, <1>3, <2>1, <2>2, Grown
<1>6. ValuesFit'
    <2>1. Suits(Item, value)
        BY <1>3, <1>4 DEF Suits
    <2> QED BY <1>1, <1>2, <1>3, <2>1, ValueAdded
<1>7. FunctionsFit'
    BY <1>1, <1>2, <1>3, SameFunctions
<1>8. WorkGood(work') /\ Agrees(Head(work))'
    <2>1. Done1(Item) = Done0(Item)
        BY <1>3, WithinFunction
    <2>2. Base(Item) = rest => values' = Base(Item) \o Result(Item)
        <3>1. Result(Item) = <<Item>>
            BY DEF Result, ValueOf
        <3>2. rest \o <<Item>> = Append(rest, Item)
            OBVIOUS
        <3> QED BY <3>1, <3>2, <1>1
    <2> QED BY <1>1, <1>2, <1>3, <2>1, <2>2, VisitEnds
<1> QED BY <1>1, <1>5, <1>6, <1>7, <1>8, Traversing

LEMMA Fails ==
    ASSUME LoweringInv, stage # "waiting", NEW how \in {"crashed", "uncaught"}, Fail(how)
    PROVE  LoweringInv'
<1>1. UNCHANGED resolverVars /\ UNCHANGED <<values, held, mir, functions, casts>> /\ stage' = how
    BY DEF Fail
<1>2. ResolverInv' /\ MethodsApart' /\ status' = status
    BY <1>1, SameModuleState DEF LoweringInv
<1>3. Built'
    BY <1>1, SameBuilt DEF LoweringInv
<1>4. Staged'
    BY <1>1, <1>2 DEF LoweringInv, Staged, Stages
<1> QED BY <1>2, <1>3, <1>4 DEF LoweringInv

\* A visit pops n values and pushes one.
LEMMA Combines ==
    ASSUME LoweringInv, stage = "mir", Head(work).do \in {"visit", "leave"},
           Kind(Item) \notin {"module", "fun", "static", "body", ".", "if", "block"},
           NEW n \in Nat, NEW op, NEW type,
           op # "if", op = "method" => n # 0, op = "ret" <=> Kind(Item) = "ret",
           Combine(n, op, type),
           Plain /\ n <= Len(values) =>
               /\ Without(values, n) = Base(Item)
               /\ HasOperands(Item, Mir(op, type, LastOfStack(values, n)))
    PROVE  LoweringInv'
<1>1. MirTyped /\ Item # <<>>
    BY AtWork
<1>2. values \in Seq(DOMAIN mir) /\ held \in Seq(DOMAIN mir) /\ Len(values) \in Nat
    BY <1>1 DEF MirTyped
<1>3. CASE Len(values) < n
    BY <1>3, Fails DEF Combine
<1>4. CASE ~(Len(values) < n)
    <2> DEFINE rest == Without(values, n)
               value == Mir(op, type, LastOfStack(values, n))
    <2>1. n \in 0..Len(values) /\ n <= Len(values)
        BY <1>2, <1>4
    <2>2. PushOn(rest, value) /\ held' = held
        BY <1>4 DEF Combine
    <2>3. rest \in Seq(DOMAIN mir) /\ LastOfStack(values, n) \in Seq(DOMAIN mir)
          /\ (n # 0 => LastOfStack(values, n) # <<>>)
        BY <1>2, <2>1, Popping
    <2>4. value.op = op /\ value.kids = LastOfStack(values, n)
        BY DEF Mir
    <2>5. MirKids(value, DOMAIN mir)
        BY <2>3, <2>4 DEF MirKids
    <2>6. Len(held) = Len(Held(Item)) /\ Len(functions) = Done0(Item) /\ (Plain => held = Held(Item))
        <3>1. ~Holding(Item)
            BY DEF Holding
        <3>2. CASE Head(work).do = "visit"
            BY <3>2, AtVisit
        <3>3. CASE Head(work).do = "leave"
            BY <1>1, <3>1, <3>3, AtLeave
        <3> QED BY <3>2, <3>3
    <2>7. Plain => rest = Base(Item) /\ HasOperands(Item, value)
        BY <2>1
    <2> HIDE DEF rest, value
    <2> QED BY <1>2, <2>2, <2>3, <2>4, <2>5, <2>6, <2>7, Pushes
<1> QED BY <1>3, <1>4

\* A leaf pushes a value without operands.
LEMMA LeafCombines ==
    ASSUME LoweringInv, stage = "mir", Head(work).do = "visit",
           Kind(Item) \in Names \union Numbers \union {"string", "true", "false"},
           NEW op, NEW type, op \notin {"if", "method", "ret", "ccall"}, Combine(0, op, type)
    PROVE  LoweringInv'
<1>1. IsExpression(Item) /\ Rooted /\ MirTyped
    BY AtWork
<1>2. Kind(Item) \notin {"module", "fun", "static", "body", ".", "if", "block", "ret", "call"}
    BY NamesAssumption
<1>3. Children(Item) = <<>>
    <2>1. CASE Kind(Item) \in Names \union Numbers \union {"string"}
        BY <1>1, <2>1, ArityIs
    <2>2. CASE Kind(Item) \in {"true", "false"}
        <3>1. Len(At(Item).kids) = 0 /\ Children(Item) = [c \in 1..Len(At(Item).kids) |-> Kid(Item, c)]
            BY <1>1, <2>2, ArityIs, AritiesAre
        <3>2. 1..0 = {}
            OBVIOUS
        <3>3. Children(Item) = [c \in 1..0 |-> Kid(Item, c)]
            BY <3>1
        <3> QED BY <3>3
    <2> QED BY <2>1, <2>2
<1>4. values \in Seq(DOMAIN mir) /\ 0 \in 0..Len(values)
    BY <1>1 DEF MirTyped
<1>5. LastOfStack(values, 0) = <<>> /\ Without(values, 0) = values
    BY <1>4, Popping
<1>6. Plain => Without(values, 0) = Base(Item)
    BY <1>2, <1>5, AtVisit DEF Base, IsMethod
<1>7. ValuesOf(Children(Item)) = <<>>
    BY <1>3 DEF ValuesOf
<1>8. HasOperands(Item, Mir(op, type, LastOfStack(values, 0)))
    BY <1>2, <1>5, <1>7 DEF HasOperands, Mir
<1> QED BY <1>2, <1>6, <1>8, Combines

LEMMA LeafStep ==
    ASSUME LoweringInv, LowerLeaf \/ LowerLocal
    PROVE  LoweringInv'
<1>1. CASE LowerLeaf
    <2>1. CASE Lowers("visit", Numbers \ Doubles) /\ Combine(0, "int", "Int32")
        BY <2>1, LeafCombines DEF Lowers
    <2>2. CASE Lowers("visit", {"string"}) /\ Combine(0, "string", "Raw")
        BY <2>2, LeafCombines DEF Lowers
    <2>3. CASE Lowers("visit", {"true", "false"}) /\ Combine(0, Kind(Item), "Bool")
        <3> DEFINE op == Kind(Item)
        <3>1. op \notin {"if", "method", "ret", "ccall"} /\ Combine(0, op, "Bool")
            BY <2>3 DEF Lowers
        <3>2. stage = "mir" /\ Head(work).do = "visit"
              /\ Kind(Item) \in Names \union Numbers \union {"string", "true", "false"}
            BY <2>3 DEF Lowers
        <3> HIDE DEF op
        <3> QED BY <3>1, <3>2, LeafCombines
    <2> QED BY <1>1, <2>1, <2>2, <2>3 DEF LowerLeaf
<1>2. CASE LowerLocal
    <2>1. stage = "mir" /\ Head(work).do = "visit" /\ Kind(Item) \in Names
        BY <1>2 DEF LowerLocal, Lowers
    <2>2. CASE Typed(Item)
        <3> DEFINE type == Clone(types[Item])
        <3>1. Combine(0, "local", type)
            BY <1>2, <2>2 DEF LowerLocal
        <3> HIDE DEF type
        <3> QED BY <2>1, <3>1, LeafCombines
    <2>3. CASE ~Typed(Item)
        BY <1>2, <2>1, <2>3, Fails DEF LowerLocal
    <2> QED BY <2>2, <2>3
<1> QED BY <1>1, <1>2

\* The visit of a node with children begins.
LEMMA ChildrenStep ==
    ASSUME LoweringInv, LowerChildren
    PROVE  LoweringInv'
<1>1. /\ stage = "mir" /\ Head(work).do = "visit" /\ stage' = "mir"
      /\ work' = Visits(Item) \o <<Entry("leave", Item)>> \o Tail(work)
      /\ UNCHANGED resolverVars /\ UNCHANGED <<values, held, mir, functions, casts>>
    BY DEF LowerChildren
<1>2. program' = program
    BY <1>1 DEF resolverVars
<1>3. /\ WorkGood(work) /\ Head(work) = Entry("visit", Item) /\ Rooted /\ Agrees(Head(work))
      /\ MirTyped /\ ValuesFit /\ FunctionsFit
    BY <1>1, AtWork
<1>4. WorkGood(work') /\ Before(Head(work')) = Before(Head(work))
    <2>1. work' = Unrolled(Item) \o Tail(work)
        BY <1>1 DEF Unrolled
    <2> QED BY <1>3, <2>1, WorkOpened
<1>5. Agrees(Head(work))'
    <2>1. Plain' = Plain /\ \A e : Before(e)' = Before(e)
        BY <1>2, SameTree
    <2>2. Before(Head(work))' = Before(Head(work))
        BY <1>4, <2>1 DEF Before
    <2> QED BY <1>1, <1>3, <2>1, <2>2 DEF Agrees
<1>6. MirTyped' /\ ValuesFit' /\ FunctionsFit'
    BY <1>1, <1>2, <1>3, StillTyped, SameValues, SameFunctions DEF MirTyped
<1> QED BY <1>1, <1>4, <1>5, <1>6, Traversing

-----------------------------------------------------------------------------
(* What plain nodes are.                                                    *)

NodesBelow(S) == S \union UNION {{n.kids[k] : k \in ExpressionKids(n)} : n \in S}

IsParts(g) == g = [h \in 0..Height |-> IF h = 0 THEN {program} ELSE NodesBelow(g[h - 1])]

\* Parts is gathered level by level.
LEMMA PartLevels ==
    ASSUME Rooted
    PROVE  \E g : IsParts(g) /\ Parts = g[Height]
<1> DEFINE F == [x \in (1..Height) \X (SUBSET Nodes) |-> NodesBelow(x[2])]
           b == {program}
           U == SUBSET Nodes
<1>1. Height \in Nat
    BY HeightAssumption
<1>2. \A S \in SUBSET Nodes : NodesBelow(S) \in SUBSET Nodes
    <2> SUFFICES ASSUME NEW S \in SUBSET Nodes, NEW n \in S, NEW k \in ExpressionKids(n)
                 PROVE  n.kids[k] \in Nodes
        BY DEF NodesBelow
    <2> QED BY KidNodes
<1>3. F \in [(1..Height) \X U -> U] /\ b \in U
    <2>1. program \in Nodes
        BY RootNode, AtModule
    <2> QED BY <1>2, <2>1
<1>4. \A k \in 1..Height : \A S \in SUBSET Nodes : F[<<k, S>>] = NodesBelow(S)
    OBVIOUS
<1> HIDE DEF F, b, U
<1>5. PICK f \in [0..Height -> U] : Follows(f, Height, b, F)
    BY <1>1, <1>3, FunctionBySteps
<1>6. f[0] = b /\ \A k \in 1..Height : f[k] = F[<<k, f[k - 1]>>]
    BY <1>5 DEF Follows
<1>7. \A k \in 1..Height : f[k - 1] \in U
    BY <1>1
<1>8. \A k \in 0..Height : f[k] = IF k = 0 THEN {program} ELSE NodesBelow(f[k - 1])
    <2>1. \A k \in 1..Height : F[<<k, f[k - 1]>>] = NodesBelow(f[k - 1])
        BY <1>4, <1>7 DEF U
    <2>2. \A k \in 1..Height : f[k] = NodesBelow(f[k - 1])
        BY <1>6, <2>1
    <2>3. \A k \in 0..Height : k = 0 \/ k \in 1..Height
        BY <1>1
    <2> QED BY <1>6, <2>2, <2>3 DEF b
<1>9. f = [k \in 0..Height |-> f[k]]
    BY <1>5
<1>10. IsParts(f)
    BY <1>8, <1>9 DEF IsParts
<1> DEFINE upTo == CHOOSE g : IsParts(g)
<1>11. IsParts(upTo)
    BY <1>10
<1>12. Parts = upTo[Height]
    BY DEF Parts, IsParts, NodesBelow
<1> QED BY <1>11, <1>12

\* Parts holds the node of every expression.
LEMMA EveryPart ==
    ASSUME Rooted, NEW p, IsExpression(p)
    PROVE  At(p) \in Parts
<1>1. PICK g : IsParts(g) /\ Parts = g[Height]
    BY PartLevels
<1>2. \A h \in 0..Height : g[h] = IF h = 0 THEN {program} ELSE NodesBelow(g[h - 1])
    BY <1>1 DEF IsParts
<1> DEFINE n == Len(p)
           T == {h \in 0..Height : \A m \in 0..n : m <= h => At(SubSeq(p, 1, m)) \in g[h]}
<1>3. p \in Seq(Nat) /\ n \in Nat /\ n < Height /\ Height \in Nat
    BY NotTooDeep, HeightAssumption DEF IsExpression
<1>4. 0 \in T
    <2>1. SubSeq(p, 1, 0) = <<>> /\ 0 \in 0..Height
        BY <1>3
    <2>2. At(SubSeq(p, 1, 0)) = program
        BY <2>1, AtModule, Zenon
    <2>3. \A m \in 0..n : m <= 0 => m = 0
        BY <1>3
    <2>4. g[0] = {program}
        BY <2>1, <1>2
    <2> QED BY <2>1, <2>2, <2>3, <2>4
<1>5. ASSUME NEW h \in 0..Height, h \in T, h < Height PROVE h + 1 \in T
    <2>1. h + 1 \in 0..Height /\ h + 1 # 0 /\ (h + 1) - 1 = h /\ h \in Nat
        BY <1>3, <1>5
    <2>2. g[h + 1] = NodesBelow(g[h])
        BY <2>1, <1>2
    <2>3. g[h] \subseteq g[h + 1]
        BY <2>2 DEF NodesBelow
    <2>4. ASSUME NEW m \in 0..n, m <= h + 1 PROVE At(SubSeq(p, 1, m)) \in g[h + 1]
        <3>1. CASE m <= h
            BY <3>1, <2>3, <1>5
        <3>2. CASE m = h + 1
            <4> DEFINE q == SubSeq(p, 1, h)
            <4>1. h + 1 \in 1..n /\ h \in 0..n
                BY <3>2, <2>1, <1>3
            <4>2. SubSeq(p, 1, h + 1) = Kid(q, p[h + 1]) /\ q \in Seq(Nat) /\ p[h + 1] \in Nat
                BY <4>1, <1>3, <2>1, KidOf
            <4>3. p[h + 1] \in ExpressionKids(At(q))
                <5>1. p[h + 1] \in ExpressionKids(At(SubSeq(p, 1, (h + 1) - 1)))
                    BY <4>1 DEF IsExpression
                <5>2. SubSeq(p, 1, (h + 1) - 1) = q
                    BY <2>1
                <5> HIDE DEF q
                <5> QED BY <5>1, <5>2
            <4>4. At(SubSeq(p, 1, m)) = At(q).kids[p[h + 1]]
                BY <3>2, <4>2, AtKid
            <4>5. At(q) \in g[h]
                BY <4>1, <1>5, <2>1
            <4> HIDE DEF q
            <4> QED BY <4>3, <4>4, <4>5, <2>2 DEF NodesBelow
        <3> QED BY <2>4, <3>1, <3>2, <2>1, <1>3
    <2> QED BY <2>1, <2>4
<1> HIDE DEF T
<1>6. 0..Height \subseteq T
    BY <1>3, <1>4, <1>5, UpToInduction
<1>7. Height \in T /\ n \in 0..n /\ n <= Height
    BY <1>3, <1>6
<1>8. SubSeq(p, 1, n) = p
    BY <1>3, PathIsItsOwn
<1>9. At(SubSeq(p, 1, n)) \in g[Height]
    BY <1>7 DEF T
<1> QED BY <1>1, <1>8, <1>9, Zenon

\* Of a plain "." the second operand is a call without arguments.
LEMMA PlainNodes ==
    ASSUME Rooted, Plain, NEW p, IsExpression(p)
    PROVE  /\ Kind(p) \notin Doubles \union {"^", "\\", "=", "while", "!"}
           /\ Kind(p) = "if" => Len(At(p).kids) = 2
           /\ Kind(p) = "." =>
                 /\ Children(p) = <<Kid(p, 1), Kid(p, 2)>> /\ Values(p) = <<ValueOf(Kid(p, 1)), Kid(p, 2)>>
                 /\ Kind(Kid(p, 2)) = "call" /\ Children(Kid(p, 2)) = <<>> /\ IsMethod(Kid(p, 2))
                 /\ Arguments(Kid(p, 2)) = <<>> /\ IsExpression(Kid(p, 2))
<1>1. IsPlain(At(p))
    BY EveryPart DEF Plain
<1>2. Kind(p) \notin Doubles \union {"^", "\\", "=", "while", "!"} /\ (Kind(p) = "if" => Len(At(p).kids) = 2)
    BY <1>1 DEF IsPlain, Kind
<1>3. ASSUME Kind(p) = "."
      PROVE  /\ Children(p) = <<Kid(p, 1), Kid(p, 2)>> /\ Values(p) = <<ValueOf(Kid(p, 1)), Kid(p, 2)>>
             /\ Kind(Kid(p, 2)) = "call" /\ Children(Kid(p, 2)) = <<>> /\ IsMethod(Kid(p, 2))
             /\ Arguments(Kid(p, 2)) = <<>> /\ IsExpression(Kid(p, 2))
    <2> DEFINE c == Kid(p, 2)
    <2>1. p \in Seq(Nat) /\ 2 \in Nat
        BY DEF IsExpression
    <2>2. Len(At(p).kids) = 2 /\ Children(p) = [i \in 1..Len(At(p).kids) |-> Kid(p, i)]
        BY <1>3, ArityIs, AritiesAre
    <2>3. Children(p) = <<Kid(p, 1), Kid(p, 2)>>
        BY <2>2
    <2>4. At(c) = At(p).kids[2] /\ At(p).kids[2].op = "call" /\ Len(At(p).kids[2].kids) = 1
        BY <1>1, <1>3, <2>1, AtKid DEF IsPlain, Kind
    <2>5. Kind(c) = "call" /\ Len(At(c).kids) = 1
        BY <2>4 DEF Kind
    <2>6. Parent(c) = p /\ Last(c) = 2
        BY <2>1, KidPath
    <2> HIDE DEF c
    <2>7. Arguments(c) = <<>>
        <3>1. Arguments(c) = [k \in 1..(1 - 2 + 1) |-> Kid(c, 2 + k - 1)]
            BY <2>5 DEF Arguments, Kids
        <3>2. 1..(1 - 2 + 1) = {}
            OBVIOUS
        <3> QED BY <3>1, <3>2
    <2>8. Children(c) = <<>>
        BY <2>5, <2>7 DEF Children
    <2>9. IsMethod(c)
        BY <1>3, <2>5, <2>6 DEF IsMethod, InDot
    <2>10. ValueOf(c) = c
        BY <2>5 DEF ValueOf
    <2>11. IsExpression(c)
        <3>1. Len(Children(p)) = 2
            BY <2>3
        <3>2. 2 \in 1..Len(Children(p)) /\ Children(p)[2] = Kid(p, 2)
            BY <2>3
        <3> QED BY <3>2, ChildKinds DEF c
    <2>12. Values(p) = <<ValueOf(Kid(p, 1)), ValueOf(Kid(p, 2))>>
        <3> DEFINE k1 == Kid(p, 1)
                   k2 == Kid(p, 2)
        <3>1. Children(p) = <<k1, k2>>
            BY <2>3
        <3> HIDE DEF k1, k2
        <3>2. Values(p) = <<ValueOf(k1), ValueOf(k2)>>
            BY <3>1 DEF Values, ValuesOf
        <3> QED BY <3>2 DEF k1, k2
    <2> QED BY <2>3, <2>5, <2>7, <2>8, <2>9, <2>10, <2>11, <2>12 DEF c
<1> QED BY <1>2, <1>3

\* What a method call of a plain module finds: its reference was pushed last.
LEMMA PlainMethod ==
    ASSUME Rooted, Plain, NEW p, IsExpression(p), Kind(p) = "call", InDot(p), p # Kid(Parent(p), 1)
    PROVE  /\ Children(p) = <<>> /\ Arguments(p) = <<>> /\ IsMethod(p)
           /\ Base(p) \in Seq(Seq(Nat)) /\ ValueOf(Kid(Parent(p), 1)) \in Seq(Nat)
           /\ Stack(p) = Append(Base(p), ValueOf(Kid(Parent(p), 1)))
<1> DEFINE q == Parent(p)
           v == ValueOf(Kid(q, 1))
<1>1. p # <<>>
    BY WhereKindsStand
<1>2. IsExpression(q) /\ Kind(q) = "."
    BY <1>1, ParentOf DEF InDot
<1>3. PICK c \in 1..Len(Children(q)) : p = Children(q)[c]
    BY <1>1, ParentOf
<1>4. /\ Children(q) = <<Kid(q, 1), Kid(q, 2)>> /\ Values(q) = <<v, Kid(q, 2)>>
      /\ Children(Kid(q, 2)) = <<>> /\ IsMethod(Kid(q, 2)) /\ Arguments(Kid(q, 2)) = <<>>
    BY <1>2, PlainNodes
<1> HIDE DEF q
<1>5. c = 2 /\ p = Kid(q, 2)
    <2> DEFINE k1 == Kid(q, 1)
               k2 == Kid(q, 2)
    <2>1. Children(q) = <<k1, k2>> /\ p # k1
        BY <1>4 DEF q
    <2> HIDE DEF k1, k2
    <2>2. c \in 1..2
        BY <2>1
    <2>3. c # 1
        BY <1>3, <2>1
    <2> QED BY <1>3, <2>1, <2>2, <2>3 DEF k2
<1>6. Stack(p) = Stack(q) \o Beginning(Values(q), 2 - 1)
    <2>1. 2 \in 1..Len(Children(q)) /\ p = Children(q)[2]
        BY <1>3, <1>5
    <2>2. ~Holding(q) /\ Kind(q) # "module"
        BY <1>2 DEF Holding
    <2> QED BY <1>2, <2>1, <2>2, ChildFinds DEF Values
<1>7. Stack(q) \in Seq(Seq(Nat)) /\ v \in Seq(Nat)
    <2>1. Stack(q) \in Seq(Seq(Nat)) /\ Values(q) \in Seq(Seq(Nat))
        BY <1>2, StacksTyped, ValuesAre DEF Values
    <2> DEFINE k2 == Kid(q, 2)
    <2>2. Values(q) = <<v, k2>>
        BY <1>4
    <2> HIDE DEF v, k2
    <2>3. v = Values(q)[1] /\ Len(Values(q)) = 2
        BY <2>2
    <2> DEFINE T == Seq(Nat)
    <2> HIDE DEF T
    <2>4. \A s \in Seq(T) : Len(s) = 2 => s[1] \in T
        OBVIOUS
    <2>5. v \in Seq(Nat)
        BY <2>1, <2>3, <2>4 DEF T
    <2> QED BY <2>1, <2>5
<1>8. Beginning(Values(q), 2 - 1) = <<v>>
    <2> DEFINE k2 == Kid(q, 2)
    <2>1. Values(q) = <<v, k2>> /\ 2 - 1 = 1
        BY <1>4
    <2> HIDE DEF v, k2
    <2>2. Values(q)[1] = v
        BY <2>1
    <2>3. Beginning(Values(q), 2 - 1) = [i \in 1..1 |-> Values(q)[i]]
        BY <2>1 DEF Beginning
    <2> QED BY <2>2, <2>3
<1> HIDE DEF v
<1>9. Stack(p) = Append(Stack(q), v) /\ Front(Append(Stack(q), v)) = Stack(q)
    <2>1. Stack(q) \o <<v>> = Append(Stack(q), v) /\ Front(Append(Stack(q), v)) = Stack(q)
        BY <1>7, ConcatOne
    <2> QED BY <2>1, <1>6, <1>8
<1>10. Base(p) = Stack(q)
    BY <1>4, <1>5, <1>9 DEF Base
<1> QED BY <1>4, <1>5, <1>7, <1>9, <1>10 DEF v, q

-----------------------------------------------------------------------------
(* The ends of the visits.                                                  *)

LEMMA KeepStep ==
    ASSUME LoweringInv, KeepValue
    PROVE  LoweringInv'
<1>1. stage = "mir" /\ Head(work).do = "keep"
    BY DEF KeepValue
<1>2. CASE values = <<>>
    BY <1>1, <1>2, Fails DEF KeepValue
<1>3. CASE values # <<>>
    <2>1. /\ held' = Append(held, Last(values)) /\ values' = Front(values) /\ work' = Tail(work)
          /\ UNCHANGED resolverVars /\ stage' = "mir"
          /\ mir' = mir /\ functions' = functions /\ casts' = casts
        BY <1>1, <1>3 DEF KeepValue
    <2>2. program' = program
        BY <2>1 DEF resolverVars
    <2>3. /\ Head(work) = Entry("keep", Item) /\ Rooted /\ IsExpression(Item) /\ MirTyped
          /\ ValuesFit /\ FunctionsFit /\ WorkFits(Head(work))
        BY <1>1, AtWork
    <2>4. Item # <<>>
        BY <1>1, <2>3 DEF WorkFits, Item
    <2>5. values \in Seq(DOMAIN mir) /\ held \in Seq(DOMAIN mir)
        BY <2>3 DEF MirTyped
    <2>6. /\ Last(values) \in DOMAIN mir /\ Front(values) \in Seq(DOMAIN mir)
          /\ held' \in Seq(DOMAIN mir) /\ Len(held') = Len(held) + 1
        BY <1>3, <2>1, <2>5, SeqEnds, ConcatOne
    <2>7. MirTyped' /\ ValuesFit' /\ FunctionsFit'
        BY <2>1, <2>2, <2>3, <2>6, StillTyped, SameValues, SameFunctions
    <2>8. WorkGood(work') /\ Agrees(Head(work))'
        <3> DEFINE a == After(Head(work))
                   s == Stack(Item)
                   h == Held(Item)
                   v == ValueOf(Item)
        <3>1. a = State(s, Append(h, v), Done0(Item))
            BY <2>3, BeforeIs
        <3> HIDE DEF a
        <3>2. a.values = s /\ a.held = Append(h, v) /\ a.count = Done0(Item)
            BY <3>1 DEF State
        <3>3. s \in Seq(Seq(Nat)) /\ h \in Seq(Seq(Nat)) /\ v \in Seq(Nat)
            BY <2>3, StacksTyped, ValuesAre
        <3>4. Len(held) = Len(h) /\ Len(functions) = Done0(Item)
              /\ (Plain => values = Append(s, v) /\ held = h)
            BY <1>1, AtKeep
        <3> HIDE DEF s, h, v
        <3>5. Len(Append(h, v)) = Len(h) + 1 /\ Last(Append(s, v)) = v /\ Front(Append(s, v)) = s
            BY <3>3, ConcatOne
        <3>6. Len(held') = Len(a.held) /\ Len(functions') = a.count
            BY <2>1, <2>6, <3>2, <3>4, <3>5
        <3>7. Plain => values' = a.values /\ held' = a.held
            BY <2>1, <3>2, <3>4, <3>5
        <3> QED BY <1>1, <2>1, <2>2, <2>4, <3>6, <3>7, MovesOn DEF a
    <2> QED BY <1>1, <2>1, <2>7, <2>8, Traversing
<1> QED BY <1>2, <1>3

\* The values of the children are the last ones on the stack.
LEMMA OnTop ==
    ASSUME LoweringInv, stage = "mir", Head(work).do = "leave", Plain,
           Kind(Item) \notin {"module", "fun", ".", "if", "block"},
           NEW n, n = Len(Children(Item))
    PROVE  /\ LastOfStack(values, n) = Values(Item) /\ Without(values, n) = Stack(Item)
           /\ values = Stack(Item) \o Values(Item)
<1>1. Rooted /\ IsExpression(Item) /\ ~Holding(Item)
    BY AtWork DEF Holding
<1>2. Stack(Item) \in Seq(Seq(Nat)) /\ Values(Item) \in Seq(Seq(Nat)) /\ Len(Values(Item)) = n
    BY <1>1, StacksTyped, ValuesAre DEF Values
<1>3. values = Stack(Item) \o Values(Item)
    <2>1. Pushed(Item) = Values(Item)
        BY DEF Pushed
    <2> QED BY <1>1, <2>1, AtLeave
<1> QED BY <1>2, <1>3, LastOfStackIs

LEMMA MirOps ==
    /\ DOMAIN MirOp \subseteq BinOps \ {"!"}
    /\ DOMAIN MirOp \intersect {"module", "fun", "static", "body", ".", "if", "block", "ret", "call"} = {}
    /\ \A op \in DOMAIN MirOp : MirOp[op] \notin {"if", "method", "ret", "ccall", "call"}
BY DEF MirOp, BinOps

LEMMA BinExprStep ==
    ASSUME LoweringInv, LowerBinExpr
    PROVE  LoweringInv'
<1> DEFINE op == MirOp[Kind(Item)]
           type == MirType[Kind(Item)]
<1>1. stage = "mir" /\ Head(work).do = "leave" /\ Kind(Item) \in DOMAIN MirOp /\ Combine(2, op, type)
    BY DEF LowerBinExpr, Lowers
<1>2. /\ Kind(Item) \notin {"module", "fun", "static", "body", ".", "if", "block", "ret", "call"}
      /\ op \notin {"if", "method", "ret", "ccall", "call"} /\ Kind(Item) \in BinOps \ {"!"}
    BY <1>1, MirOps
<1>3. Rooted /\ IsExpression(Item) /\ status = "resolved" /\ ResolverInv
    BY <1>1, AtWork DEF LoweringInv
<1>4. Len(Children(Item)) = 2
    <2>1. Len(Children(Item)) = Len(At(Item).kids) /\ Len(At(Item).kids) \in Arity(Kind(Item))
        BY <1>2, <1>3, ArityIs
    <2>2. Arity(Kind(Item)) = {1, 2}
        BY <1>2, AritiesAre
    <2>3. Len(At(Item).kids) # 1
        BY <1>2, <1>3, NoNullLeft DEF NullLeft
    <2> QED BY <2>1, <2>2, <2>3
<1> HIDE DEF op, type
<1>5. Plain => /\ Without(values, 2) = Base(Item)
               /\ HasOperands(Item, Mir(op, type, LastOfStack(values, 2)))
    <2> SUFFICES ASSUME Plain
                 PROVE  /\ Without(values, 2) = Base(Item)
                        /\ HasOperands(Item, Mir(op, type, LastOfStack(values, 2)))
        OBVIOUS
    <2>1. LastOfStack(values, 2) = Values(Item) /\ Without(values, 2) = Stack(Item)
        BY <1>1, <1>2, <1>4, OnTop
    <2>2. Base(Item) = Stack(Item)
        BY <1>2 DEF Base, IsMethod
    <2> QED BY <1>2, <2>1, <2>2 DEF HasOperands, Mir, Values
<1>6. 2 \in Nat /\ op # "if" /\ op # "method" /\ (op = "ret" <=> Kind(Item) = "ret")
    BY <1>2
<1> QED BY <1>1, <1>2, <1>5, <1>6, Combines

LEMMA ReturnStep ==
    ASSUME LoweringInv, LowerReturn
    PROVE  LoweringInv'
<1>1. stage = "mir" /\ Head(work).do = "leave" /\ Kind(Item) = "ret"
    BY DEF LowerReturn, Lowers
<1>2. CASE values = <<>>
    BY <1>1, <1>2, Fails DEF LowerReturn
<1>3. CASE values # <<>>
    <2> DEFINE type == mir[Last(values)].type
    <2>1. Combine(1, "ret", type)
        BY <1>3 DEF LowerReturn
    <2>2. Len(Children(Item)) = 1
        BY <1>1, AtWork, ArityIs, AritiesAre
    <2> HIDE DEF type
    <2>3. Plain => /\ Without(values, 1) = Base(Item)
                   /\ HasOperands(Item, Mir("ret", type, LastOfStack(values, 1)))
        <3> SUFFICES ASSUME Plain
                     PROVE  /\ Without(values, 1) = Base(Item)
                            /\ HasOperands(Item, Mir("ret", type, LastOfStack(values, 1)))
            OBVIOUS
        <3>1. LastOfStack(values, 1) = Values(Item) /\ Without(values, 1) = Stack(Item)
            BY <1>1, <2>2, OnTop
        <3>2. Base(Item) = Stack(Item)
            BY <1>1 DEF Base, IsMethod
        <3> QED BY <1>1, <3>1, <3>2 DEF HasOperands, Mir, Values
    <2>4. 1 \in Nat
        OBVIOUS
    <2> QED BY <1>1, <2>1, <2>3, <2>4, Combines
<1> QED BY <1>2, <1>3

\* How many values a call pops, and what they are.
Taken(p) == Len(Arguments(p)) + (IF InDot(p) THEN 1 ELSE 0)

LEMMA CallTakes ==
    ASSUME LoweringInv, stage = "mir", Head(work).do = "leave", Kind(Item) = "call",
           Item \in DOMAIN targets
    PROVE  /\ Taken(Item) \in Nat /\ (InDot(Item) => Taken(Item) # 0)
           /\ Plain /\ ~InDot(Item) =>
                 /\ LastOfStack(values, Taken(Item)) = ValuesOf(Arguments(Item))
                 /\ Without(values, Taken(Item)) = Base(Item) /\ Children(Item) = Arguments(Item)
           /\ Plain /\ InDot(Item) =>
                 /\ LastOfStack(values, Taken(Item)) = <<ValueOf(Kid(Parent(Item), 1))>>
                 /\ Without(values, Taken(Item)) = Base(Item)
<1>1. Rooted /\ IsExpression(Item) /\ Children(Item) = Arguments(Item)
    BY AtWork DEF Children
<1>2. Len(Arguments(Item)) \in Nat
    BY <1>1, ChildrenFrom
<1>3. ASSUME Plain, ~InDot(Item)
      PROVE  /\ LastOfStack(values, Taken(Item)) = ValuesOf(Arguments(Item))
             /\ Without(values, Taken(Item)) = Base(Item)
    <2>1. Taken(Item) = Len(Children(Item))
        BY <1>1, <1>2, <1>3 DEF Taken
    <2>2. /\ LastOfStack(values, Taken(Item)) = Values(Item)
          /\ Without(values, Taken(Item)) = Stack(Item)
        BY <1>3, <2>1, OnTop
    <2>3. Base(Item) = Stack(Item)
        BY <1>3 DEF Base, IsMethod
    <2> QED BY <1>1, <2>2, <2>3 DEF Values
<1>4. ASSUME Plain, InDot(Item)
      PROVE  /\ LastOfStack(values, Taken(Item)) = <<ValueOf(Kid(Parent(Item), 1))>>
             /\ Without(values, Taken(Item)) = Base(Item)
    <2> DEFINE v == ValueOf(Kid(Parent(Item), 1))
               b == Base(Item)
    <2>1. Item # Kid(Parent(Item), 1)
        BY <1>4 DEF LoweringInv, MethodsApart
    <2>2. /\ Arguments(Item) = <<>> /\ Children(Item) = <<>>
          /\ b \in Seq(Seq(Nat)) /\ v \in Seq(Nat) /\ Stack(Item) = Append(b, v)
        BY <1>1, <1>4, <2>1, PlainMethod
    <2>3. Taken(Item) = 1 /\ Len(Children(Item)) = 0
        BY <1>4, <2>2 DEF Taken
    <2>4. values = Stack(Item) \o Values(Item)
        BY <1>4, OnTop
    <2>5. Values(Item) = <<>>
        BY <2>2 DEF Values, ValuesOf
    <2>6. Stack(Item) \in Seq(Seq(Nat))
        BY <1>1, StacksTyped
    <2> HIDE DEF v, b
    <2>7. values = b \o <<v>>
        <3>1. Stack(Item) \o <<>> = Stack(Item)
            BY <2>6, ConcatNothing
        <3>2. b \o <<v>> = Append(b, v)
            BY <2>2, ConcatOne
        <3> QED BY <2>2, <2>4, <2>5, <3>1, <3>2
    <2>8. <<v>> \in Seq(Seq(Nat)) /\ Len(<<v>>) = 1
        BY <2>2
    <2>9. LastOfStack(b \o <<v>>, Len(<<v>>)) = <<v>> /\ Without(b \o <<v>>, Len(<<v>>)) = b
        BY <2>2, <2>8, LastOfStackIs
    <2> QED BY <2>3, <2>7, <2>8, <2>9 DEF v, b
<1> QED BY <1>1, <1>2, <1>3, <1>4 DEF Taken

LEMMA CallStep ==
    ASSUME LoweringInv, LowerCall
    PROVE  LoweringInv'
<1> DEFINE n == Taken(Item)
           args == LastOfStack(values, n)
           isC == CallName(Item) = "ccall" /\ ~InDot(Item)
           bad == \/ Len(values) < n
                  \/ Item \notin DOMAIN targets
                  \/ isC /\ (args = <<>> \/ TypeVariables(Item) = <<>>)
           type == Clone(types[TypeVariables(Item)[1]])
           returns == targets[Item].returns
           op == IF InDot(Item) THEN "method" ELSE "call"
           value == Mir("ccall", type, Tail(args))
<1>1. stage = "mir" /\ Head(work).do = "leave" /\ Kind(Item) = "call"
    BY DEF LowerCall, Lowers
<1>2. IF bad THEN Fail("crashed")
      ELSE IF isC THEN PushOn(Without(values, n), value) /\ UNCHANGED held
      ELSE Combine(n, op, returns)
    BY DEF LowerCall, Taken
<1>3. MirTyped /\ Item # <<>>
    BY <1>1, AtWork
<1>4. values \in Seq(DOMAIN mir) /\ held \in Seq(DOMAIN mir) /\ Len(values) \in Nat
    BY <1>3 DEF MirTyped
<1> HIDE DEF type, returns
<1>5. CASE bad
    BY <1>1, <1>2, <1>5, Fails
<1>6. CASE ~bad /\ isC
    <2>1. n \in Nat /\ Item \in DOMAIN targets /\ args # <<>> /\ ~(Len(values) < n) /\ ~InDot(Item)
        BY <1>1, <1>6, CallTakes
    <2>2. PushOn(Without(values, n), value) /\ held' = held
        BY <1>2, <1>6
    <2> HIDE DEF n
    <2>3. n \in 0..Len(values)
        BY <1>4, <2>1
    <2>4. args \in Seq(DOMAIN mir) /\ Without(values, n) \in Seq(DOMAIN mir)
        BY <1>4, <2>3, Popping
    <2>5. Tail(args) \in Seq(DOMAIN mir)
        BY <2>1, <2>4, SeqEnds
    <2>6. value.op = "ccall" /\ value.kids = Tail(args)
        BY DEF Mir
    <2>7. MirKids(value, DOMAIN mir) /\ (value.op = "ret" <=> Kind(Item) = "ret")
        BY <1>1, <2>5, <2>6 DEF MirKids
    <2>8. Plain => Without(values, n) = Base(Item) /\ HasOperands(Item, value)
        <3>1. Plain => args = ValuesOf(Arguments(Item)) /\ Without(values, n) = Base(Item)
            BY <1>1, <2>1, CallTakes DEF n
        <3>2. Arguments(Item) = <<>> => ValuesOf(Arguments(Item)) = <<>>
            BY DEF ValuesOf
        <3> HIDE DEF args
        <3> QED BY <2>1, <2>6, <3>1, <3>2 DEF HasOperands
    <2>9. Len(held) = Len(Held(Item)) /\ Len(functions) = Done0(Item) /\ (Plain => held = Held(Item))
        BY <1>1, <1>3, AtLeave DEF Holding
    <2> DEFINE rest == Without(values, n)
    <2> HIDE DEF rest, value
    <2>10. PushOn(rest, value) /\ rest \in Seq(DOMAIN mir)
           /\ (Plain => rest = Base(Item) /\ held' = Held(Item) /\ HasOperands(Item, value))
        BY <2>2, <2>4, <2>8, <2>9 DEF rest
    <2> QED BY <1>1, <1>4, <2>2, <2>7, <2>9, <2>10, Pushes
<1>7. CASE ~bad /\ ~isC
    <2>1. n \in Nat /\ Item \in DOMAIN targets /\ (InDot(Item) => n # 0)
        BY <1>1, <1>7, CallTakes
    <2>2. Combine(n, op, returns)
        BY <1>2, <1>7
    <2>3. op # "if" /\ (op = "method" => n # 0) /\ (op = "ret" <=> Kind(Item) = "ret") /\ op # "ccall"
        BY <1>1, <2>1
    <2>4. Plain => Without(values, n) = Base(Item) /\ HasOperands(Item, Mir(op, returns, args))
        <3>1. CASE InDot(Item)
            <4>1. Plain => args = <<ValueOf(Kid(Parent(Item), 1))>> /\ Without(values, n) = Base(Item)
                BY <1>1, <2>1, <3>1, CallTakes
            <4> HIDE DEF n, args
            <4> QED BY <1>1, <3>1, <4>1 DEF HasOperands, Mir
        <3>2. CASE ~InDot(Item)
            <4>1. Plain => /\ args = ValuesOf(Arguments(Item)) /\ Without(values, n) = Base(Item)
                           /\ Children(Item) = Arguments(Item)
                BY <1>1, <2>1, <3>2, CallTakes
            <4> HIDE DEF n, args
            <4> QED BY <1>1, <3>2, <4>1 DEF HasOperands, Mir
        <3> QED BY <3>1, <3>2
    <2> HIDE DEF n, op
    <2> QED BY <1>1, <2>1, <2>2, <2>3, <2>4, Combines
<1> QED BY <1>5, <1>6, <1>7

\* A block or an if pops what it held.
LEMMA Releases ==
    ASSUME LoweringInv, stage = "mir", Head(work).do = "leave", Holding(Item), NEW n, n = Popped(Item)
    PROVE  /\ LastOfStack(held, n) \in Seq(DOMAIN mir) /\ Without(held, n) \in Seq(DOMAIN mir)
           /\ Len(Without(held, n)) = Len(Held(Item)) /\ Len(functions) = Done0(Item)
           /\ n # 0 => LastOfStack(held, n) # <<>>
           /\ values \in Seq(DOMAIN mir)
           /\ Plain => /\ values = Base(Item) /\ Without(held, n) = Held(Item)
                       /\ LastOfStack(held, n) = Values(Item)
<1>1. Rooted /\ IsExpression(Item) /\ MirTyped
    BY AtWork
<1>2. values \in Seq(DOMAIN mir) /\ held \in Seq(DOMAIN mir)
    BY <1>1 DEF MirTyped
<1>3. /\ Len(held) = Len(Held(Item)) + n /\ Len(functions) = Done0(Item)
      /\ Plain => values = Stack(Item) /\ held = Held(Item) \o Beginning(Values(Item), n)
    BY AtLeave
<1>4. n \in Nat /\ n <= Len(Children(Item)) /\ Len(Children(Item)) \in Nat
    BY <1>1, ChainOfKeeps, ChildrenFrom
<1>5. Held(Item) \in Seq(Seq(Nat)) /\ Values(Item) \in Seq(Seq(Nat))
      /\ Len(Values(Item)) = Len(Children(Item))
    BY <1>1, StacksTyped, ValuesAre DEF Values
<1>6. n \in 0..Len(held) /\ Len(Held(Item)) \in Nat
    BY <1>3, <1>4, <1>5
<1>7. /\ LastOfStack(held, n) \in Seq(DOMAIN mir) /\ Without(held, n) \in Seq(DOMAIN mir)
      /\ Len(Without(held, n)) = Len(held) - n /\ (n # 0 => LastOfStack(held, n) # <<>>)
    BY <1>2, <1>6, Popping
<1>8. Len(Without(held, n)) = Len(Held(Item))
    BY <1>3, <1>4, <1>6, <1>7
<1>9. ASSUME Plain
      PROVE  /\ values = Base(Item) /\ Without(held, n) = Held(Item)
             /\ LastOfStack(held, n) = Values(Item)
    <2>1. n = Len(Children(Item))
        BY <1>1, <1>9, ArityIs, PlainNodes DEF Popped, Holding
    <2>2. Beginning(Values(Item), n) = Values(Item)
        BY <1>5, <2>1, BeginningIs
    <2>3. held = Held(Item) \o Values(Item) /\ n = Len(Values(Item))
        BY <1>3, <1>5, <1>9, <2>1, <2>2
    <2>4. LastOfStack(held, n) = Values(Item) /\ Without(held, n) = Held(Item)
        BY <1>5, <2>3, LastOfStackIs
    <2>5. Base(Item) = Stack(Item)
        BY DEF Base, IsMethod, Holding
    <2> QED BY <1>3, <1>9, <2>4, <2>5
<1> QED BY <1>2, <1>3, <1>7, <1>8, <1>9

LEMMA IfStep ==
    ASSUME LoweringInv, LowerIf
    PROVE  LoweringInv'
<1>1. stage = "mir" /\ Head(work).do = "leave" /\ Kind(Item) = "if" /\ held' = Without(held, 2)
    BY DEF LowerIf, Lowers
<1>2. Holding(Item) /\ Popped(Item) = 2 /\ 2 # 0
    BY <1>1 DEF Holding, Popped
<1> DEFINE kids == LastOfStack(held, 2)
           value == Mir("if", "Unit", kids)
<1>3. /\ kids \in Seq(DOMAIN mir) /\ kids # <<>> /\ held' \in Seq(DOMAIN mir)
      /\ Len(held') = Len(Held(Item)) /\ Len(functions) = Done0(Item)
      /\ values \in Seq(DOMAIN mir)
      /\ Plain => values = Base(Item) /\ held' = Held(Item) /\ kids = Values(Item)
    BY <1>1, <1>2, Releases
<1> HIDE DEF kids
<1>4. CASE Len(At(Item).kids) = 3
    <2>1. /\ work' = Tail(work) /\ UNCHANGED resolverVars /\ stage' = "mir"
          /\ values' = values /\ mir' = mir /\ functions' = functions /\ casts' = casts
        BY <1>1, <1>4 DEF LowerIf
    <2>2. program' = program
        BY <2>1 DEF resolverVars
    <2>3. Rooted /\ IsExpression(Item) /\ Item # <<>> /\ MirTyped /\ ValuesFit /\ FunctionsFit
        BY <1>1, AtWork
    <2>4. ~Plain
        BY <1>1, <1>4, <2>3, PlainNodes
    <2>5. Done1(Item) = Done0(Item)
        BY <1>1, <2>3, WithinFunction
    <2>6. WorkGood(work') /\ Agrees(Head(work))'
        BY <1>1, <1>3, <2>1, <2>2, <2>3, <2>4, <2>5, VisitEnds
    <2>7. MirTyped' /\ ValuesFit' /\ FunctionsFit'
        BY <1>3, <2>1, <2>2, <2>3, StillTyped, SameValues, SameFunctions
    <2> QED BY <1>1, <2>1, <2>6, <2>7, Traversing
<1>5. CASE Len(At(Item).kids) # 3
    <2>1. PushOn(values, value)
        BY <1>5 DEF LowerIf, kids
    <2>2. value.op = "if" /\ value.kids = kids
        BY DEF Mir
    <2>3. MirKids(value, DOMAIN mir) /\ (value.op = "ret" <=> Kind(Item) = "ret")
        BY <1>1, <1>3, <2>2 DEF MirKids
    <2>4. Plain => HasOperands(Item, value)
        BY <1>1, <1>3, <2>2 DEF HasOperands, Values
    <2> HIDE DEF value
    <2> QED BY <1>1, <1>3, <2>1, <2>3, <2>4, Pushes
<1> QED BY <1>4, <1>5

LEMMA BlockStep ==
    ASSUME LoweringInv, LowerBlock
    PROVE  LoweringInv'
<1> DEFINE n == Len(At(Item).kids)
           kids == LastOfStack(held, n)
           value == Mir("block", "none", kids)
<1>1. /\ stage = "mir" /\ Head(work).do = "leave" /\ Kind(Item) = "block"
      /\ held' = Without(held, n) /\ PushOn(values, value)
    BY DEF LowerBlock, Lowers
<1>2. Holding(Item) /\ n = Popped(Item)
    <2>1. n = Len(Children(Item))
        BY <1>1, AtWork, ArityIs
    <2> QED BY <1>1, <2>1 DEF Holding, Popped
<1> HIDE DEF n
<1>3. /\ kids \in Seq(DOMAIN mir) /\ held' \in Seq(DOMAIN mir)
      /\ Len(held') = Len(Held(Item)) /\ Len(functions) = Done0(Item)
      /\ values \in Seq(DOMAIN mir)
      /\ Plain => values = Base(Item) /\ held' = Held(Item) /\ kids = Values(Item)
    BY <1>1, <1>2, Releases
<1> HIDE DEF kids
<1>4. value.op = "block" /\ value.kids = kids
    BY DEF Mir
<1>5. MirKids(value, DOMAIN mir) /\ (value.op = "ret" <=> Kind(Item) = "ret")
    BY <1>1, <1>3, <1>4 DEF MirKids
<1>6. Plain => HasOperands(Item, value)
    BY <1>1, <1>3, <1>4 DEF HasOperands, Values
<1> HIDE DEF value
<1> QED BY <1>1, <1>3, <1>5, <1>6, Pushes

LEMMA OtherStep ==
    ASSUME LoweringInv, LowerOther
    PROVE  LoweringInv'
<1>1. /\ stage = "mir" /\ Head(work).do = "leave"
      /\ Kind(Item) \in {".", "=", "^", "\\", "!", "while", "body"} \union Doubles
      /\ work' = Tail(work) /\ UNCHANGED resolverVars /\ stage' = "mir"
      /\ values' = values /\ held' = held /\ mir' = mir /\ functions' = functions /\ casts' = casts
    BY DEF LowerOther, Lowers
<1>2. program' = program
    BY <1>1 DEF resolverVars
<1>3. Rooted /\ IsExpression(Item) /\ Item # <<>> /\ MirTyped /\ ValuesFit /\ FunctionsFit
    <2>1. Kind(Item) # "module"
        BY <1>1, NamesAssumption, DoublesAssumption
    <2> QED BY <1>1, <2>1, AtWork
<1>4. Kind(Item) \notin {"module", "fun", "static", "if", "block", "call"}
    BY <1>1, NamesAssumption, DoublesAssumption
<1>5. Done1(Item) = Done0(Item)
    BY <1>3, <1>4, WithinFunction
<1>6. Len(held) = Len(Held(Item)) /\ Len(functions) = Done0(Item)
      /\ (Plain => values = Stack(Item) \o Pushed(Item) /\ held = Held(Item))
    BY <1>1, <1>3, <1>4, AtLeave DEF Holding
<1>7. Plain => Base(Item) \o Result(Item) = Stack(Item) \o Pushed(Item)
    <2> SUFFICES ASSUME Plain PROVE Base(Item) \o Result(Item) = Stack(Item) \o Pushed(Item)
        OBVIOUS
    <2>1. Base(Item) = Stack(Item)
        BY <1>4 DEF Base, IsMethod
    <2>2. Kind(Item) \in {".", "body"}
        BY <1>1, <1>3, PlainNodes
    <2>3. CASE Kind(Item) = "."
        <3>1. IsMethod(Kid(Item, 2))
            BY <1>3, <2>3, PlainNodes
        <3>2. Pushed(Item) = <<Kid(Item, 2)>> /\ Result(Item) = <<Kid(Item, 2)>>
            BY <2>3, <3>1 DEF Pushed, Result, ValueOf
        <3> QED BY <2>1, <3>2
    <2>4. CASE Kind(Item) = "body"
        <3>1. Pushed(Item) = Values(Item) /\ Result(Item) = Values(Item)
            BY <2>4 DEF Pushed, Result
        <3> QED BY <2>1, <3>1
    <2> QED BY <2>2, <2>3, <2>4
<1>8. WorkGood(work') /\ Agrees(Head(work))'
    BY <1>1, <1>2, <1>3, <1>5, <1>6, <1>7, VisitEnds
<1>9. MirTyped' /\ ValuesFit' /\ FunctionsFit'
    BY <1>1, <1>2, <1>3, StillTyped, SameValues, SameFunctions DEF MirTyped
<1> QED BY <1>1, <1>8, <1>9, Traversing

-----------------------------------------------------------------------------
(* Functions and the module.                                                *)

\* What is known where the traversal leaves the function number k.
LeavesFunction(k) ==
    /\ k \in 1..Len(program.kids) /\ Item = <<k>>
    /\ Kind(Item) = "static" <=> k = 1
    /\ Len(held) = 0 /\ Len(functions) = k - 1
    /\ Len(Held(Item)) = 0 /\ Done1(Item) = k
    /\ Base(Item) \o Result(Item) = <<>>
    /\ Plain => held = Held(Item) /\ values = Values(IF k = 1 THEN Item ELSE Body(Item))

LEMMA TheFunction ==
    ASSUME LoweringInv, stage = "mir", Head(work).do = "leave", Kind(Item) \in {"fun", "static"}
    PROVE  \E k : LeavesFunction(k)
<1>1. Rooted /\ IsExpression(Item)
    BY AtWork
<1>2. PICK k \in 1..Len(program.kids) : Item = <<k>> /\ (Kind(Item) = "static" <=> k = 1)
    BY <1>1, WhereKindsStand
<1>3. k \in Nat /\ Len(<<k>>) = 1 /\ <<k>>[1] = k /\ <<k>> # <<>>
    <2>1. Len(program.kids) \in Nat
        BY <1>1, TopKinds
    <2> QED BY <1>2, <2>1
<1>4. Stack(Item) = <<>> /\ Held(Item) = <<>>
    <2>1. /\ IsExpression(<<>>) /\ Kind(<<>>) = "module" /\ k \in 1..Len(Children(<<>>))
          /\ Children(<<>>)[k] = Item
        BY <1>1, <1>2, TopKinds, ModuleIsExpression
    <2>2. Stack(Item) = Stack(<<>>) \o <<>> /\ Held(Item) = Held(<<>>)
        BY <1>1, <2>1, ChildFinds
    <2> QED BY <2>2, FoundModule
<1>5. Done0(Item) = k - 1 /\ Done1(Item) = k
    BY <1>2, <1>3 DEF Done0, Done1
<1>6. Base(Item) = <<>> /\ Result(Item) = <<>>
    BY <1>4 DEF Base, IsMethod, Result
<1>7. Pushed(Item) = Values(IF k = 1 THEN Item ELSE Body(Item))
    BY <1>2 DEF Pushed
<1>8. /\ Len(held) = Len(Held(Item)) /\ Len(functions) = Done0(Item)
      /\ Plain => values = Stack(Item) \o Pushed(Item) /\ held = Held(Item)
    BY <1>2, <1>3, AtLeave DEF Holding
<1>9. Plain => values = Pushed(Item)
    <2>1. Pushed(Item) \in Seq(Seq(Nat))
        <3>1. IsExpression(IF k = 1 THEN Item ELSE Body(Item))
            <4>1. CASE k = 1
                BY <1>1, <4>1
            <4>2. CASE k # 1
                <5>1. Children(Item) = <<Body(Item)>>
                    BY <1>1, <1>2, <4>2, ArityIs
                <5>2. 1 \in 1..Len(Children(Item)) /\ Children(Item)[1] = Body(Item)
                    BY <5>1
                <5>3. IsExpression(Body(Item))
                    BY <1>1, <5>2, ChildKinds
                <5> QED BY <4>2, <5>3
            <4> QED BY <4>1, <4>2
        <3> QED BY <1>1, <1>7, <3>1, ValuesAre DEF Values
    <2>2. <<>> \o Pushed(Item) = Pushed(Item)
        BY <2>1, ConcatNothing
    <2> QED BY <1>4, <1>8, <2>2
<1>10. <<>> \o <<>> = <<>> /\ Len(<<>>) = 0
    OBVIOUS
<1>11. LeavesFunction(k)
    BY <1>2, <1>4, <1>5, <1>6, <1>7, <1>8, <1>9, <1>10 DEF LeavesFunction
<1> QED BY <1>11

\* The values a function's block has to have.
BodyFits(k, vs) ==
    LET f == <<k>>
        body == ValuesOf(Children(IF k = 1 THEN f ELSE Body(f)))
        returns == k > 1 /\ body # <<>> /\ Kind(Last(body)) = "ret"
    IN vs = IF returns THEN body ELSE Append(body, Append(f, 0))

LEMMA FunctionEnds ==
    ASSUME LoweringInv, stage = "mir", Head(work).do = "leave",
           NEW k, LeavesFunction(k), NEW vs, EndFunctionWith(vs), Plain => BodyFits(k, vs),
           MirTyped', ValuesFit'
    PROVE  LoweringInv'
<1>1. /\ functions' = Append(functions, [of |-> Item, body |-> vs]) /\ values' = <<>>
      /\ work' = Tail(work) /\ held' = held /\ casts' = casts /\ stage' = "mir"
      /\ UNCHANGED resolverVars
    BY DEF EndFunctionWith
<1>2. program' = program
    BY <1>1 DEF resolverVars
<1>3. FunctionsFit /\ functions \in Seq([of : Seq(Nat), body : Seq(DOMAIN mir)])
    BY AtWork DEF MirTyped
<1>4. k \in Nat /\ Item = <<k>> /\ Item # <<>> /\ Len(functions) = k - 1 /\ k >= 1
    <2>1. k \in 1..Len(program.kids) /\ Item = <<k>> /\ Len(functions) = k - 1
        BY DEF LeavesFunction
    <2>2. Len(program.kids) \in Nat
        BY AtWork, TopKinds
    <2> QED BY <2>1, <2>2
<1>5. /\ Len(functions') = k /\ functions'[k] = [of |-> Item, body |-> vs]
      /\ DOMAIN functions' = 1..k
      /\ \A j \in 1..(k - 1) : functions'[j] = functions[j]
    <2> DEFINE f == [of |-> Item, body |-> vs]
    <2> HIDE DEF f
    <2>1. functions' = Append(functions, f)
        BY <1>1 DEF f
    <2>2. Len(functions) = k - 1 /\ DOMAIN functions = 1..(k - 1)
        BY <1>3, <1>4
    <2>3. Len(Append(functions, f)) = k /\ Append(functions, f)[k] = f
          /\ DOMAIN Append(functions, f) = 1..k
        BY <1>3, <1>4, <2>2
    <2>4. \A j \in 1..(k - 1) : Append(functions, f)[j] = functions[j]
        BY <1>3, <1>4, <2>2
    <2> QED BY <2>1, <2>3, <2>4 DEF f
<1>6. FunctionsFit'
    <2>1. /\ \A q : Kind(q)' = Kind(q) /\ Children(q)' = Children(q)
          /\ \A ps : ValuesOf(ps)' = ValuesOf(ps)
          /\ Plain' = Plain
        BY <1>2, SameTree
    <2>2. \A j : functions'[j] = functions[j] /\ FunctionFits(j) => FunctionFits(j)'
        BY <2>1 DEF FunctionFits, Body, Kid
    <2>3. Plain => FunctionFits(k)'
        <3>1. functions'[k] = [of |-> <<k>>, body |-> vs]
            BY <1>4, <1>5
        <3> QED BY <2>1, <3>1 DEF FunctionFits, BodyFits, Body, Kid
    <2>4. Plain => \A j \in 1..(k - 1) : FunctionFits(j)
        <3>1. DOMAIN functions = 1..(k - 1)
            BY <1>3, <1>4
        <3> QED BY <1>3, <3>1 DEF FunctionsFit
    <2>5. \A j \in 1..k : j = k \/ j \in 1..(k - 1)
        BY <1>4
    <2>6. Plain => \A j \in 1..k : FunctionFits(j)'
        BY <1>5, <2>2, <2>3, <2>4, <2>5
    <2> QED BY <1>5, <2>1, <2>6 DEF FunctionsFit
<1>7. WorkGood(work') /\ Agrees(Head(work))'
    <2>1. /\ Len(held) = Len(Held(Item)) /\ Done1(Item) = k /\ Base(Item) \o Result(Item) = <<>>
          /\ Plain => held = Held(Item)
        BY DEF LeavesFunction
    <2> QED BY <1>1, <1>2, <1>4, <1>5, <2>1, VisitEnds
<1> QED BY <1>1, <1>6, <1>7, Traversing

\* A return is added at the end of the function number k.
LEMMA ReturnAdded ==
    ASSUME LoweringInv, stage = "mir", Head(work).do = "leave", NEW k, LeavesFunction(k),
           NEW type, mir' = With(mir, End, Mir("ret", type, <<>>)),
           EndFunctionWith(Append(values, End)), Plain => BodyFits(k, Append(values, End))
    PROVE  LoweringInv'
<1> DEFINE value == Mir("ret", type, <<>>)
           S == DOMAIN mir
           T == S \union {End}
           vs == Append(values, End)
<1>1. MirTyped /\ ValuesFit /\ Item \in Seq(Nat)
    BY AtWork
<1>2. values \in Seq(S) /\ held \in Seq(S) /\ functions \in Seq([of : Seq(Nat), body : Seq(S)])
    BY <1>1 DEF MirTyped
<1>3. End \in Seq(Nat) /\ End # <<>> /\ Last(End) = 0
    BY <1>1, ConcatOne DEF End
<1>4. value.op = "ret" /\ value.kids = <<>> /\ mir' = With(mir, End, value)
    BY DEF Mir
<1> HIDE DEF value, S, T
<1>5. Seq(S) \subseteq Seq(T) /\ End \in T
    BY SeqGrows DEF T
<1>6. vs \in Seq(T)
    <2>1. values \in Seq(T)
        BY <1>2, <1>5
    <2> QED BY <1>5, <2>1, ConcatOne
<1>7. values' \in Seq(T) /\ held' \in Seq(T) /\ functions' \in Seq([of : Seq(Nat), body : Seq(T)])
    <2>1. values' = <<>> /\ held' = held /\ functions' = Append(functions, [of |-> Item, body |-> vs])
        BY DEF EndFunctionWith
    <2>2. [of : Seq(Nat), body : Seq(S)] \subseteq [of : Seq(Nat), body : Seq(T)]
        BY <1>5
    <2>3. functions \in Seq([of : Seq(Nat), body : Seq(T)])
        BY <1>2, <2>2, SeqGrows
    <2>4. [of |-> Item, body |-> vs] \in [of : Seq(Nat), body : Seq(T)]
        BY <1>1, <1>6
    <2> HIDE DEF vs
    <2>5. Append(functions, [of |-> Item, body |-> vs]) \in Seq([of : Seq(Nat), body : Seq(T)])
        BY <2>3, <2>4, ConcatOne
    <2> QED BY <1>2, <1>5, <2>1, <2>5
<1>8. MirTyped'
    <2>1. MirKids(value, S)
        BY <1>4 DEF MirKids
    <2> QED BY <1>1, <1>3, <1>4, <1>7, <2>1, Grown DEF S, T
<1>9. ValuesFit'
    <2>1. Suits(End, value)
        BY <1>3, <1>4 DEF Suits
    <2>2. program' = program
        BY DEF EndFunctionWith, resolverVars
    <2> QED BY <1>1, <1>4, <2>1, <2>2, ValueAdded
<1> QED BY <1>8, <1>9, FunctionEnds

\* The last value of a function's statements.
LEMMA LastValue ==
    ASSUME LoweringInv, stage = "mir", Head(work).do = "leave", NEW k, LeavesFunction(k), k # 1,
           Plain, values # <<>>
    PROVE  Last(values) \in DOMAIN mir
           /\ (mir[Last(values)].op = "ret" <=> Kind(Last(values)) = "ret")
<1>1. Rooted /\ MirTyped /\ ValuesFit /\ IsExpression(Item)
    BY AtWork
<1> DEFINE b == Body(Item)
<1>2. Kind(Item) = "fun" /\ values = Values(b)
    <2>1. Kind(Item) # "static" /\ values = Values(b) /\ Item = <<k>> /\ k \in 1..Len(program.kids)
        BY DEF LeavesFunction
    <2>2. k \in 2..Len(program.kids)
        BY <1>1, <2>1, TopKinds
    <2> QED BY <1>1, <2>1, <2>2, TopKinds
<1>3. IsExpression(b) /\ Kind(b) = "body"
    <2>1. Children(Item) = <<b>>
        BY <1>1, <1>2, ArityIs
    <2>2. 1 \in 1..Len(Children(Item)) /\ Children(Item)[1] = b
        BY <2>1
    <2> QED BY <1>1, <1>2, <2>2, ChildKinds
<1> HIDE DEF b
<1> DEFINE n == Len(Children(b))
           d == Children(b)[n]
<1>4. Len(values) = n /\ n \in Nat /\ \A c \in 1..n : values[c] = ValueOf(Children(b)[c])
    BY <1>1, <1>2, <1>3, ValuesAre, ChildrenFrom DEF Values
<1>5. Last(values) \in DOMAIN mir /\ values \in Seq(DOMAIN mir)
    BY <1>1, SeqEnds DEF MirTyped
<1>6. n \in 1..n
    <2>1. n # 0
        BY <1>4, <1>5
    <2> HIDE DEF n
    <2> QED BY <1>4, <2>1
<1>7. Last(values) = ValueOf(d)
    <2> HIDE DEF d
    <2> QED BY <1>4, <1>6 DEF Last, d
<1>8. IsExpression(d) /\ d # <<>>
    BY <1>1, <1>3, <1>6, ChildKinds
<1> HIDE DEF d, n
<1>9. Last(ValueOf(d)) # 0
    <2>1. CASE Kind(d) = "."
        <3>1. IsExpression(Kid(d, 2))
            BY <1>1, <1>8, <2>1, PlainNodes
        <3>2. d \in Seq(Nat) /\ 2 \in Nat
            BY <1>1, <1>8, ExpressionNode
        <3>3. Kid(d, 2) # <<>>
            BY <3>2, KidPath
        <3>4. ValueOf(d) = Kid(d, 2)
            BY <2>1 DEF ValueOf
        <3> QED BY <1>1, <3>1, <3>3, <3>4, LastKid
    <2>2. CASE Kind(d) # "."
        BY <1>1, <1>8, <2>2, LastKid DEF ValueOf
    <2> QED BY <2>1, <2>2
<1>10. ValueFits(Last(values))
    BY <1>1, <1>5 DEF ValuesFit
<1> QED BY <1>5, <1>7, <1>9, <1>10 DEF ValueFits

LEMMA FunctionStep ==
    ASSUME LoweringInv, LowerFunction
    PROVE  LoweringInv'
<1>1. stage = "mir" /\ Head(work).do = "leave" /\ Kind(Item) = "fun"
    BY DEF LowerFunction, Lowers
<1>2. PICK k : LeavesFunction(k)
    BY <1>1, TheFunction
<1>3. k # 1 /\ k > 1 /\ Item = <<k>> /\ (Plain => values = Values(Body(Item)))
    <2>1. k # 1 /\ Item = <<k>> /\ k \in 1..Len(program.kids) /\ (Plain => values = Values(Body(Item)))
        BY <1>1, <1>2 DEF LeavesFunction
    <2>2. Len(program.kids) \in Nat
        BY <1>1, AtWork, TopKinds
    <2> QED BY <2>1, <2>2
<1> DEFINE returns == values # <<>> /\ mir[Last(values)].op = "ret"
<1>4. Plain => (returns <=> values # <<>> /\ Kind(Last(values)) = "ret")
    BY <1>1, <1>2, <1>3, LastValue
<1>5. CASE returns
    <2>1. EndFunctionWith(values) /\ mir' = mir
        BY <1>5 DEF LowerFunction
    <2>2. Plain => BodyFits(k, values)
        BY <1>3, <1>4, <1>5 DEF BodyFits, Values
    <2>3. MirTyped /\ ValuesFit
        BY <1>1, AtWork
    <2>4. values' = <<>> /\ held' = held /\ functions' = Append(functions, [of |-> Item, body |-> values])
          /\ program' = program
        BY <2>1 DEF EndFunctionWith, resolverVars
    <2>5. MirTyped'
        <3>1. functions \in Seq([of : Seq(Nat), body : Seq(DOMAIN mir)])
              /\ values \in Seq(DOMAIN mir) /\ held \in Seq(DOMAIN mir) /\ Item \in Seq(Nat)
            BY <1>1, <2>3, AtWork DEF MirTyped
        <3>2. [of |-> Item, body |-> values] \in [of : Seq(Nat), body : Seq(DOMAIN mir)]
            BY <3>1
        <3>3. functions' \in Seq([of : Seq(Nat), body : Seq(DOMAIN mir)])
            BY <2>4, <3>1, <3>2, ConcatOne
        <3>4. values' \in Seq(DOMAIN mir)
            BY <2>4
        <3> QED BY <2>1, <2>3, <2>4, <3>1, <3>3, <3>4 DEF MirTyped, MirKids
    <2>6. ValuesFit'
        BY <2>1, <2>3, <2>4, SameValues
    <2> QED BY <1>1, <1>2, <2>1, <2>2, <2>5, <2>6, FunctionEnds
<1>6. CASE ~returns
    <2>1. EndFunctionWith(Append(values, End)) /\ mir' = With(mir, End, Mir("ret", "Unit", <<>>))
        BY <1>6 DEF LowerFunction
    <2>2. Plain => BodyFits(k, Append(values, End))
        BY <1>3, <1>4, <1>6 DEF BodyFits, Values, End
    <2> QED BY <1>1, <1>2, <2>1, <2>2, ReturnAdded
<1> QED BY <1>5, <1>6

LEMMA StaticStep ==
    ASSUME LoweringInv, LowerStatic
    PROVE  LoweringInv'
<1>1. stage = "mir" /\ Head(work).do = "leave" /\ Kind(Item) = "static"
    BY DEF LowerStatic, Lowers
<1>2. PICK k : LeavesFunction(k)
    BY <1>1, TheFunction
<1>3. k = 1 /\ ~(k > 1) /\ Item = <<k>> /\ (Plain => values = Values(Item))
    BY <1>1, <1>2 DEF LeavesFunction
<1>4. EndFunctionWith(Append(values, End)) /\ mir' = With(mir, End, Mir("ret", "Int32", <<>>))
    BY DEF LowerStatic
<1>5. Plain => BodyFits(k, Append(values, End))
    BY <1>3 DEF BodyFits, Values, End
<1> QED BY <1>1, <1>2, <1>4, <1>5, ReturnAdded

-----------------------------------------------------------------------------
(* The casts.                                                               *)

\* What FlattenSeq joins is made of the same elements.
LEMMA Joined ==
    ASSUME NEW X, NEW ss \in Seq(Seq(X))
    PROVE  FlattenSeq(ss) \in Seq(X)
<1> DEFINE n == Len(ss)
           S == Seq(X)
           Joins(g) == g = [i \in 1..n |-> IF i = 1 THEN ss[i] ELSE g[i - 1] \o ss[i]]
           F == [x \in (1..n) \X S |-> IF x[1] = 1 THEN ss[1] ELSE x[2] \o ss[x[1]]]
           b == <<>>
<1>1. n \in Nat /\ \A i \in 1..n : ss[i] \in S
    OBVIOUS
<1>2. \A s, t \in S : s \o t \in S
    OBVIOUS
<1>3. b \in S
    OBVIOUS
<1> HIDE DEF S, n, b
<1>4. F \in [(1..n) \X S -> S]
    <2> SUFFICES ASSUME NEW x \in (1..n) \X S
                 PROVE  (IF x[1] = 1 THEN ss[1] ELSE x[2] \o ss[x[1]]) \in S
        OBVIOUS
    <2>1. x[1] \in 1..n /\ x[2] \in S
        OBVIOUS
    <2> QED BY <2>1, <1>1, <1>2
<1>5. \A k \in 1..n : \A s \in S : F[<<k, s>>] = IF k = 1 THEN ss[1] ELSE s \o ss[k]
    OBVIOUS
<1> HIDE DEF F
<1>6. PICK f \in [0..n -> S] : Follows(f, n, b, F)
    BY <1>1, <1>3, <1>4, FunctionBySteps
<1> DEFINE h == [i \in 1..n |-> f[i]]
<1>7. Joins(h)
    <2>1. \A k \in 1..n : k - 1 \in 0..n /\ f[k - 1] \in S
        BY <1>1, <1>6
    <2>2. \A k \in 1..n : f[k] = IF k = 1 THEN ss[k] ELSE f[k - 1] \o ss[k]
        BY <1>5, <1>6, <2>1 DEF Follows
    <2>3. \A k \in 1..n : k # 1 => k - 1 \in 1..n
        BY <1>1
    <2>4. \A k \in 1..n : h[k] = IF k = 1 THEN ss[k] ELSE h[k - 1] \o ss[k]
        BY <2>2, <2>3
    <2> QED BY <2>4
<1> HIDE DEF h
<1> DEFINE g == CHOOSE u : Joins(u)
<1>8. Joins(g)
    BY <1>7
<1> HIDE DEF g
<1>9. \A i \in 1..n : g[i] = IF i = 1 THEN ss[i] ELSE g[i - 1] \o ss[i]
    BY <1>8
<1> DEFINE T == {m \in 0..n : m = 0 \/ g[m] \in S}
<1>10. 0 \in T
    BY <1>1
<1>11. ASSUME NEW m \in 0..n, m \in T, m < n PROVE m + 1 \in T
    <2>1. m + 1 \in 1..n /\ m + 1 \in 0..n /\ (m + 1) - 1 = m /\ m \in Nat
        BY <1>1, <1>11
    <2>2. CASE m = 0
        BY <2>1, <2>2, <1>1, <1>9
    <2>3. CASE m # 0
        <3>1. g[m] \in S /\ m + 1 # 1
            BY <1>11, <2>1, <2>3
        <3>2. g[m + 1] = g[m] \o ss[m + 1]
            BY <1>9, <2>1, <3>1
        <3> QED BY <1>1, <1>2, <2>1, <3>1, <3>2
    <2> QED BY <2>2, <2>3
<1> HIDE DEF T
<1>12. 0..n \subseteq T
    BY <1>1, <1>10, <1>11, UpToInduction
<1>13. n = 0 \/ g[n] \in S
    <2>1. n \in T
        BY <1>1, <1>12
    <2> QED BY <2>1 DEF T
<1>14. FlattenSeq(ss) = IF n = 0 THEN ss ELSE g[n]
    BY DEF FlattenSeq, g, n
<1>15. n = 0 => ss \in S
    BY DEF n, S
<1> QED BY <1>13, <1>14, <1>15 DEF S

LEMMA CastEntries ==
    ASSUME NEW S, NEW ps \in Seq(S)
    PROVE  Entries("cast", ps) \in Seq(CastWork(S))
<1>1. \A k \in 1..Len(ps) : Entry("cast", ps[k]) \in CastWork(S)
    BY DEF Entry, CastWork
<1>2. Entries("cast", ps) = [k \in 1..Len(ps) |-> Entry("cast", ps[k])] /\ Len(ps) \in Nat
    BY DEF Entries
<1> QED BY <1>1, <1>2

LEMMA ModuleStep ==
    ASSUME LoweringInv, LowerModule
    PROVE  LoweringInv'
<1>1. /\ stage = "mir" /\ Head(work).do = "leave" /\ Kind(Item) = "module" /\ stage' = "casts"
      /\ work' = FlattenSeq([k \in DOMAIN functions |-> Entries("cast", functions[k].body)])
      /\ UNCHANGED resolverVars /\ UNCHANGED <<values, held, mir, functions, casts>>
    BY DEF LowerModule, Lowers
<1>2. MirTyped /\ Item = <<>>
    BY <1>1, AtWork
<1> DEFINE W == CastWork(DOMAIN mir)
           ss == [k \in DOMAIN functions |-> Entries("cast", functions[k].body)]
<1>3. ss \in Seq(Seq(W))
    <2>1. functions \in Seq([of : Seq(Nat), body : Seq(DOMAIN mir)])
        BY <1>2 DEF MirTyped
    <2>2. \A k \in 1..Len(functions) : functions[k].body \in Seq(DOMAIN mir)
        <3> DEFINE R == [of : Seq(Nat), body : Seq(DOMAIN mir)]
        <3>1. \A r \in R : r.body \in Seq(DOMAIN mir)
            OBVIOUS
        <3>2. functions \in Seq(R)
            BY <2>1
        <3> HIDE DEF R
        <3>3. \A k \in 1..Len(functions) : functions[k] \in R
            BY <3>2
        <3> QED BY <3>1, <3>3
    <2>3. \A k \in 1..Len(functions) : Entries("cast", functions[k].body) \in Seq(W)
        BY <2>2, CastEntries
    <2>4. DOMAIN functions = 1..Len(functions) /\ Len(functions) \in Nat
        BY <2>1
    <2> HIDE DEF W
    <2> QED BY <2>3, <2>4
<1>4. work' \in Seq(W)
    <2> HIDE DEF W, ss
    <2>1. FlattenSeq(ss) \in Seq(W)
        BY <1>3, Joined
    <2> QED BY <1>1, <2>1 DEF ss
<1>5. Len(functions) = Len(program.kids)
    BY <1>1, <1>2, AtLeave DEF Holding
<1>6. ResolverInv' /\ MethodsApart' /\ status' = status
    BY <1>1, SameModuleState DEF LoweringInv
<1>7. Built'
    BY <1>1, SameBuilt DEF LoweringInv
<1>8. Staged'
    <2>1. status = "resolved"
        BY <1>1, AtWork
    <2>2. program' = program
        BY <1>1 DEF resolverVars
    <2>3. work' \in Seq(CastWork(DOMAIN mir'))
        BY <1>1, <1>4
    <2> QED BY <1>1, <1>5, <1>6, <2>1, <2>2, <2>3 DEF Staged, Stages
<1> QED BY <1>6, <1>7, <1>8 DEF LoweringInv

\* A step of the caster that leaves the values alone.
LEMMA Casting ==
    ASSUME LoweringInv, stage = "casts", UNCHANGED resolverVars,
           UNCHANGED <<values, held, mir, functions>>, stage' \in {"casts", "lowered"},
           stage' = "casts" => work' \in Seq(CastWork(DOMAIN mir)), CastsFit'
    PROVE  LoweringInv'
<1>1. program' = program
    BY DEF resolverVars
<1>2. ResolverInv' /\ MethodsApart' /\ status' = status
    BY SameModuleState DEF LoweringInv
<1>3. MirTyped' /\ ValuesFit' /\ FunctionsFit'
    BY <1>1, StillTyped, SameValues, SameFunctions DEF LoweringInv, Built, MirTyped
<1>4. Staged'
    <2>1. status = "resolved" /\ Len(functions) = Len(program.kids)
        BY DEF LoweringInv, Staged
    <2>2. stage' = "casts" => work' \in Seq(CastWork(DOMAIN mir'))
        OBVIOUS
    <2> QED BY <1>1, <1>2, <2>1, <2>2 DEF Staged, Stages
<1> QED BY <1>2, <1>3, <1>4 DEF LoweringInv, Built

\* The entry at the head of the caster's work.
LEMMA AtCast ==
    ASSUME LoweringInv, stage = "casts", work # <<>>
    PROVE  /\ Item \in DOMAIN mir /\ Tail(work) \in Seq(CastWork(DOMAIN mir))
           /\ MirKids(mir[Item], DOMAIN mir) /\ MirTyped /\ CastsFit
<1>1. work \in Seq(CastWork(DOMAIN mir))
    BY DEF LoweringInv, Staged
<1>2. Head(work) \in CastWork(DOMAIN mir) /\ Tail(work) \in Seq(CastWork(DOMAIN mir))
    BY <1>1, SeqEnds
<1>3. Item \in DOMAIN mir
    BY <1>2 DEF CastWork, Item
<1> QED BY <1>2, <1>3 DEF LoweringInv, Built, MirTyped

\* What MIRVisitor visits of a value is values.
LEMMA CastKidsTyped ==
    ASSUME NEW p, NEW S, MirKids(mir[p], S)
    PROVE  CastKids(p) \in Seq(S)
<1> DEFINE m == mir[p]
<1>1. m.kids \in Seq(S) /\ (m.op \in {"if", "method"} => m.kids # <<>>)
    BY DEF MirKids
<1>2. CASE m.op \in {"block", "ccall"}
    <2>1. m.op # "method" /\ m.op # "if"
        BY <1>2
    <2>2. CastKids(p) = <<>>
        BY <1>2, <2>1 DEF CastKids
    <2>3. <<>> \in Seq(S)
        OBVIOUS
    <2> QED BY <2>2, <2>3
<1>3. CASE m.op = "method"
    <2>1. Tail(m.kids) \in Seq(S)
        BY <1>1, <1>3, SeqEnds
    <2> QED BY <1>3, <2>1 DEF CastKids
<1>4. CASE m.op = "if"
    <2>1. m.kids[1] \in S
        BY <1>1, <1>4, SeqEnds
    <2> QED BY <1>4, <2>1 DEF CastKids
<1>5. CASE m.op \notin {"block", "ccall", "method", "if"}
    <2>1. CastKids(p) = m.kids
        BY <1>5 DEF CastKids
    <2> QED BY <1>1, <2>1
<1> QED BY <1>2, <1>3, <1>4, <1>5

LEMMA VisitMirStep ==
    ASSUME LoweringInv, VisitMir
    PROVE  LoweringInv'
<1> DEFINE S == DOMAIN mir
           m == mir[Item]
           more == IF m.op \in {"call", "method"} THEN <<Entry("arguments", Item)>> ELSE <<>>
<1>1. stage = "casts" /\ work # <<>>
    BY DEF VisitMir
<1>2. /\ Item \in S /\ Tail(work) \in Seq(CastWork(S)) /\ MirKids(m, S) /\ MirTyped /\ CastsFit
    BY <1>1, AtCast
<1>3. CASE Fail("crashed")
    BY <1>1, <1>3, Fails
<1>4. CASE /\ work' = Entries("cast", CastKids(Item)) \o more \o Tail(work)
           /\ UNCHANGED <<resolverVars, stage, values, held, mir, functions, casts>>
    <2>1. CastKids(Item) \in Seq(S)
        BY <1>2, CastKidsTyped
    <2> DEFINE es == Entries("cast", CastKids(Item))
    <2>2. es \in Seq(CastWork(S))
        BY <2>1, CastEntries
    <2>3. more \in Seq(CastWork(S))
        BY <1>2 DEF Entry, CastWork
    <2> DEFINE W == CastWork(S)
    <2> HIDE DEF es, more, W
    <2>4. es \o more \o Tail(work) \in Seq(W)
        BY <1>2, <2>2, <2>3 DEF W
    <2>5. CastsFit'
        <3>1. targets' = targets
            BY <1>4 DEF resolverVars
        <3> QED BY <1>2, <1>4, <3>1 DEF CastsFit, CastFits, Given, MirArguments
    <2> QED BY <1>1, <1>4, <2>4, <2>5, Casting DEF W, es
<1> QED BY <1>3, <1>4 DEF VisitMir

LEMMA CastArgumentsStep ==
    ASSUME LoweringInv, CastArguments
    PROVE  LoweringInv'
<1> DEFINE loop == CastLoop(Given(Item), targets[Item].params)
           caller == IF mir[Item].op = "method"
                     THEN <<[wrapped |-> IsPrimitive(mir[mir[Item].kids[1]].type),
                             type |-> "none"]>>
                     ELSE <<>>
<1>1. stage = "casts" /\ work # <<>>
    BY DEF CastArguments
<1>2. /\ Item \in DOMAIN mir /\ Tail(work) \in Seq(CastWork(DOMAIN mir))
      /\ MirKids(mir[Item], DOMAIN mir) /\ CastsFit
    BY <1>1, AtCast
<1>3. CASE \E how \in {"crashed", "uncaught"} : Fail(how)
    BY <1>1, <1>3, Fails
<1>4. CASE /\ loop.ends = "no"
           /\ casts' = With(casts, Item, caller \o loop.to)
           /\ work' = Tail(work)
           /\ UNCHANGED <<resolverVars, stage, values, held, mir, functions>>
    <2>0. PICK i : i = Item
        OBVIOUS
    <2>1. targets' = targets /\ mir' = mir
        BY <1>4 DEF resolverVars
    <2>2. \A p : Given(p)' = Given(p)
        BY <2>1 DEF Given, MirArguments
    <2> DEFINE to == caller \o loop.to
    <2>3. /\ DOMAIN casts' = DOMAIN casts \union {i} /\ casts'[i] = to
          /\ \A p \in DOMAIN casts : p # i => casts'[p] = casts[p]
        <3> HIDE DEF to
        <3> DEFINE f == With(casts, Item, to)
        <3>1. DOMAIN f = DOMAIN casts \union {Item} /\ f[Item] = to
              /\ \A p \in DOMAIN casts : p # Item => f[p] = casts[p]
            BY DEF With
        <3> HIDE DEF f
        <3>2. casts' = f
            BY <1>4 DEF f, to
        <3> QED BY <3>1, <3>2, <2>0
    <2>4. \A p : casts'[p] = casts[p] /\ CastFits(p) => CastFits(p)'
        BY <2>1, <2>2 DEF CastFits
    <2>5. mir[Item].op = "call" => to = loop.to
        <3> SUFFICES ASSUME mir[Item].op = "call" PROVE to = loop.to
            OBVIOUS
        <3>1. caller = <<>>
            OBVIOUS
        <3> DEFINE given == Given(Item)
                   to1 == loop.to
                   n == Len(given)
        <3>2. Len(given) \in Nat /\ DOMAIN given = 1..Len(given)
            <4>1. given = [k \in DOMAIN mir[Item].kids |-> mir[mir[Item].kids[k]].type]
                BY DEF Given, MirArguments
            <4>2. mir[Item].kids \in Seq(DOMAIN mir)
                BY <1>2 DEF MirKids
            <4>3. DOMAIN mir[Item].kids = 1..Len(mir[Item].kids) /\ Len(mir[Item].kids) \in Nat
                BY <4>2
            <4> HIDE DEF given
            <4> QED BY <4>1, <4>3
        <3>3. to1 = [j \in 1..n |-> to1[j]]
            <4> DEFINE expected == targets[Item].params
            <4>1. CastLoop(given, expected).ends = "no" /\ to1 = CastLoop(given, expected).to
                BY <1>4
            <4> HIDE DEF given, expected, to1
            <4> QED BY <3>2, <4>1, CastLoopFits
        <3> HIDE DEF to1, n
        <3>4. <<>> \o to1 = to1
            <4>1. n \in Nat
                BY <3>2 DEF n
            <4>2. to1 \in Seq({to1[j] : j \in 1..n})
                BY <3>3, <4>1
            <4> QED BY <4>2, ConcatNothing
        <3> QED BY <3>1, <3>4 DEF to1
    <2> HIDE DEF to
    <2>6. CastFits(i)'
        <3>1. i \in DOMAIN mir'
            BY <1>2, <2>0, <2>1
        <3>2. mir[i].op = "call" =>
                 /\ casts'[i] = CastLoop(Given(i), targets[i].params).to
                 /\ CastLoop(Given(i), targets[i].params).ends = "no"
            BY <1>4, <2>0, <2>3, <2>5
        <3>3. Given(i)' = Given(i)
            BY <2>2
        <3> HIDE DEF loop
        <3> QED BY <3>1, <3>2, <3>3, <2>1 DEF CastFits
    <2>7. CastsFit'
        BY <1>2, <2>3, <2>4, <2>6 DEF CastsFit
    <2> QED BY <1>1, <1>2, <1>4, <2>7, Casting
<1> QED BY <1>3, <1>4 DEF CastArguments

-----------------------------------------------------------------------------
(* The specification.                                                       *)

Nothing == values = <<>> /\ held = <<>> /\ mir = <<>> /\ functions = <<>> /\ casts = <<>>

LEMMA NothingBuilt == Nothing => Built
<1> SUFFICES ASSUME Nothing PROVE Built
    OBVIOUS
<1>1. mir = <<>> /\ values = <<>> /\ held = <<>> /\ functions = <<>> /\ casts = <<>>
    BY DEF Nothing
<1>2. DOMAIN <<>> = {}
    OBVIOUS
<1>3. MirTyped
    BY <1>1, <1>2 DEF MirTyped
<1>4. ValuesFit /\ FunctionsFit /\ CastsFit
    BY <1>1, <1>2 DEF ValuesFit, FunctionsFit, CastsFit
<1> QED BY <1>3, <1>4 DEF Built

LEMMA LoweringStarts ==
    ASSUME LoweringInit
    PROVE  LoweringInv
<1>1. ResolverInit /\ stage = "waiting" /\ Nothing
    BY DEF LoweringInit, Nothing
<1>2. ResolverInv
    BY <1>1, InitInv
<1>3. MethodsApart
    BY <1>1 DEF MethodsApart, ResolverInit
<1>4. Staged
    BY <1>1 DEF Staged, Stages, Nothing
<1> QED BY <1>1, <1>2, <1>3, <1>4, NothingBuilt DEF LoweringInv

LEMMA ResolveStep ==
    ASSUME LoweringInv, Resolve
    PROVE  LoweringInv'
<1>1. ResolverNext /\ UNCHANGED loweringVars
    BY DEF Resolve
<1>2. /\ status = "running" /\ program' = program
      /\ \A p \in DOMAIN targets' : p \in DOMAIN targets \/ (InDot(p) => p # Kid(Parent(p), 1))
    BY <1>1, ResolverStep
<1>3. stage = "waiting" /\ Nothing
    BY <1>2 DEF LoweringInv, Staged, Nothing
<1>4. stage' = "waiting" /\ Nothing'
    BY <1>1, <1>3 DEF loweringVars, Nothing
<1>5. ResolverInv'
    BY <1>1, StepInv DEF LoweringInv
<1>6. MethodsApart'
    <2>1. \A p : InDot(p)' = InDot(p)
        BY <1>2, SameTree
    <2>2. \A p \in DOMAIN targets : InDot(p) => p # Kid(Parent(p), 1)
        BY DEF LoweringInv, MethodsApart
    <2> QED BY <1>2, <2>1, <2>2 DEF MethodsApart, Kid
<1>7. Built'
    BY <1>4, NothingBuilt, PTL
<1>8. Staged'
    BY <1>4 DEF Staged, Stages, Nothing
<1> QED BY <1>5, <1>6, <1>7, <1>8 DEF LoweringInv

LEMMA StartLoweringStep ==
    ASSUME LoweringInv, StartLowering
    PROVE  LoweringInv'
<1> DEFINE e == Entry("visit", <<>>)
<1>1. /\ status = "resolved" /\ stage = "waiting" /\ stage' = "mir" /\ work' = <<e>>
      /\ UNCHANGED resolverVars /\ UNCHANGED <<values, held, mir, functions, casts>>
    BY DEF StartLowering
<1>2. Rooted /\ Nothing
    BY <1>1 DEF LoweringInv, ResolverInv, Staged, Nothing
<1>3. ResolverInv' /\ MethodsApart' /\ status' = status
    BY <1>1, SameModuleState DEF LoweringInv
<1>4. Built'
    BY <1>1, SameBuilt DEF LoweringInv
<1>5. WorkGood(<<e>>) /\ Before(e) = State(<<>>, <<>>, 0)
    BY <1>2, WorkStarts
<1>6. Before(e)' = Before(e) /\ WorkGood(<<e>>)' = WorkGood(<<e>>)
    <2>1. program' = program
        BY <1>1 DEF resolverVars
    <2>2. Before(e)' = Before(e)
        BY <2>1, SameTree
    <2>3. \A w : WorkGood(w)' = WorkGood(w)
        BY <2>1, SameTree
    <2> QED BY <2>2, <2>3
<1>7. WorkGood(work)'
    BY <1>1, <1>5, <1>6 DEF WorkGood, Chained
<1>8. Agrees(Head(work))'
    <2>1. Head(work)' = e
        BY <1>1
    <2> DEFINE b == Before(e)
    <2>2. b.values = <<>> /\ b.held = <<>> /\ b.count = 0
        BY <1>5 DEF State
    <2>3. Before(Head(work))' = b
        BY <2>1, <1>6 DEF Before
    <2>4. Len(held') = 0 /\ Len(functions') = 0 /\ values' = <<>> /\ held' = <<>>
        BY <1>1, <1>2 DEF Nothing
    <2> HIDE DEF b
    <2> QED BY <2>2, <2>3, <2>4 DEF Agrees
<1>9. Staged'
    BY <1>1, <1>2, <1>3, <1>7, <1>8 DEF Staged, Stages, Nothing
<1> QED BY <1>3, <1>4, <1>9 DEF LoweringInv

LEMMA FinishLoweringStep ==
    ASSUME LoweringInv, FinishLowering
    PROVE  LoweringInv'
<1>1. /\ stage = "casts" /\ stage' = "lowered"
      /\ UNCHANGED resolverVars /\ UNCHANGED <<work, values, held, mir, functions, casts>>
    BY DEF FinishLowering
<1>2. CastsFit'
    <2>1. CastsFit /\ targets' = targets
        BY <1>1 DEF LoweringInv, Built, resolverVars
    <2> QED BY <1>1, <2>1 DEF CastsFit, CastFits, Given, MirArguments
<1> QED BY <1>1, <1>2, Casting

LEMMA LoweringStutter ==
    ASSUME LoweringInv, UNCHANGED backendVars
    PROVE  LoweringInv'
<1>1. UNCHANGED resolverVars /\ stage' = stage /\ work' = work
      /\ UNCHANGED <<values, held, mir, functions, casts>>
    BY DEF backendVars, loweringVars
<1>2. ResolverInv' /\ MethodsApart' /\ status' = status
    BY <1>1, SameModuleState DEF LoweringInv
<1>3. Built'
    BY <1>1, SameBuilt DEF LoweringInv
<1>4. program' = program
    BY <1>1 DEF resolverVars
<1>5. WorkGood(work)' = WorkGood(work)
    <2>1. \A w : WorkGood(w)' = WorkGood(w)
        BY <1>4, SameTree
    <2> QED BY <1>1, <2>1 DEF WorkGood, Chained
<1>6. Agrees(Head(work))' = Agrees(Head(work))
    <2>1. Plain' = Plain /\ \A e : Before(e)' = Before(e)
        BY <1>4, SameTree
    <2>2. Before(Head(work))' = Before(Head(work))
        BY <1>1, <2>1 DEF Before
    <2> QED BY <1>1, <2>1, <2>2 DEF Agrees
<1>7. Staged'
    BY <1>1, <1>2, <1>4, <1>5, <1>6 DEF LoweringInv, Staged
<1> QED BY <1>2, <1>3, <1>7 DEF LoweringInv

LEMMA LoweringInductive ==
    ASSUME LoweringInv, [LoweringNext]_backendVars
    PROVE  LoweringInv'
<1>1. CASE Resolve
    BY <1>1, ResolveStep
<1>2. CASE StartLowering
    BY <1>2, StartLoweringStep
<1>3. CASE LowerLeaf \/ LowerLocal
    BY <1>3, LeafStep
<1>4. CASE LowerChildren
    BY <1>4, ChildrenStep
<1>5. CASE KeepValue
    BY <1>5, KeepStep
<1>6. CASE LowerBinExpr
    BY <1>6, BinExprStep
<1>7. CASE LowerReturn
    BY <1>7, ReturnStep
<1>8. CASE LowerCall
    BY <1>8, CallStep
<1>9. CASE LowerIf
    BY <1>9, IfStep
<1>10. CASE LowerBlock
    BY <1>10, BlockStep
<1>11. CASE LowerOther
    BY <1>11, OtherStep
<1>12. CASE LowerFunction
    BY <1>12, FunctionStep
<1>13. CASE LowerStatic
    BY <1>13, StaticStep
<1>14. CASE LowerModule
    BY <1>14, ModuleStep
<1>15. CASE VisitMir
    BY <1>15, VisitMirStep
<1>16. CASE CastArguments
    BY <1>16, CastArgumentsStep
<1>17. CASE FinishLowering
    BY <1>17, FinishLoweringStep
<1>18. CASE UNCHANGED backendVars
    BY <1>18, LoweringStutter
<1> QED
    BY <1>1, <1>2, <1>3, <1>4, <1>5, <1>6, <1>7, <1>8, <1>9, <1>10, <1>11, <1>12, <1>13, <1>14,
       <1>15, <1>16, <1>17, <1>18 DEF LoweringNext

\* What the lowering keeps (MIR.cpp 13-317, 395-525): before each entry of
\* the traversal the stack holds what the tree says, and every value has the
\* operands, every function the statements and every call the casts of its node.
THEOREM LoweringInvariant == LoweringSpec => []LoweringInv
<1>1. LoweringInit => LoweringInv
    BY LoweringStarts
<1>2. LoweringInv /\ [LoweringNext]_backendVars => LoweringInv'
    BY LoweringInductive
<1> QED BY <1>1, <1>2, PTL DEF LoweringSpec

\* Whatever was pushed and popped in between, the operands of a MIR value of
\* a plain module are the values of its own subexpressions (MIR.cpp 13-27,
\* 123-317).
THEOREM OperandsTheirOwn == LoweringSpec => []OwnOperands
<1>1. LoweringInv => OwnOperands
    BY DEF LoweringInv, Built, ValuesFit, ValueFits, OwnOperands
<1> QED BY <1>1, LoweringInvariant, PTL

\* A function's block holds its statements, each once and in order, and a
\* return at its end (MIR.cpp 75-118).
THEOREM StatementsInOrder == LoweringSpec => []StatementsKept
<1>1. LoweringInv => StatementsKept
    <2> SUFFICES ASSUME LoweringInv, stage \in {"casts", "lowered"}, Plain
                 PROVE  /\ Len(functions) = Len(program.kids)
                        /\ \A k \in DOMAIN functions : FunctionFits(k)
        BY DEF StatementsKept, FunctionFits
    <2> QED BY DEF LoweringInv, Staged, Built, FunctionsFit
<1> QED BY <1>1, LoweringInvariant, PTL

\* The leading arguments that fit no parameter are all wrapped or cast
\* (MIR.cpp 487-525).
THEOREM CastsReached == LoweringSpec => []CastsReach
<1>1. LoweringInv => CastsReach
    <2> SUFFICES ASSUME LoweringInv, NEW p \in DOMAIN casts, mir[p].op = "call",
                        NEW k \in DOMAIN Given(p),
                        \A j \in 1..k : Given(p)[j] # targets[p].params[j]
                 PROVE  casts[p][k] = Coercion(Given(p)[k], targets[p].params[k])
        BY DEF CastsReach
    <2> DEFINE given == Given(p)
               expected == targets[p].params
               to == CastLoop(given, expected).to
    <2>1. CastFits(p) /\ MirTyped
        BY DEF LoweringInv, Built, CastsFit
    <2>2. casts[p] = to /\ CastLoop(given, expected).ends = "no"
        BY <2>1 DEF CastFits
    <2>3. Len(given) \in Nat /\ DOMAIN given = 1..Len(given)
        <3>1. given = [c \in DOMAIN mir[p].kids |-> mir[mir[p].kids[c]].type]
            BY DEF Given, MirArguments
        <3>2. mir[p].kids \in Seq(DOMAIN mir)
            BY <2>1 DEF CastFits, MirTyped, MirKids
        <3>3. DOMAIN mir[p].kids = 1..Len(mir[p].kids) /\ Len(mir[p].kids) \in Nat
            BY <3>2
        <3> HIDE DEF given
        <3> QED BY <3>1, <3>3
    <2> HIDE DEF given, expected
    <2>4. LoopFits(given, expected, to, Len(given))
        BY <2>2, <2>3, CastLoopFits
    <2>5. k \in 1..Len(given) /\ \A j \in 1..k : given[j] # expected[j]
        BY <2>3 DEF given, expected
    <2>6. to[k] = Coercion(given[k], expected[k])
        BY <2>4, <2>5 DEF LoopFits, AllDiffer
    <2> QED BY <2>2, <2>6 DEF given, expected
<1> QED BY <1>1, LoweringInvariant, PTL
-----------------------------------------------------------------------------
(* The types of the values, and what the caster finds of a call.            *)

\* A block has no type, and a return what it returns has.
HasType(p, type) == type \in Types \/ (type = "none" /\ Kind(p) \in NeverTyped)

IsCalled(p, op) == p \in DOMAIN targets /\ (op = "method" <=> InDot(p))

\* Any other value has a type, a call has a target, and every value is in a
\* function.
Valued(p, m) ==
    /\ HasType(p, m.type)
    /\ m.op \in {"call", "method"} => IsCalled(p, m.op)
    /\ p # <<>> /\ p[1] \in 1..Len(program.kids)
AllValued == \A p \in DOMAIN mir : Valued(p, mir[p])

\* The arguments that are left to cast are those of calls with a target.
ArgumentWork ==
    {e \in CastWork(DOMAIN mir) :
        e.do = "arguments" => e.at \in DOMAIN targets /\ mir[e.at].op \in {"call", "method"}}
CallsCast ==
    /\ stage = "casts" => work \in Seq(ArgumentWork)
    /\ DOMAIN casts \subseteq DOMAIN targets
Begun == IF stage = "waiting" THEN work = <<>> ELSE work # <<>> \/ functions # <<>>

LoweringTypes == CallsInv /\ AllValued /\ CallsCast /\ Begun

LEMMA WithinModule ==
    ASSUME Rooted, NEW p, IsExpression(p), p # <<>>
    PROVE  p[1] \in 1..Len(program.kids)
<1>1. p \in Seq(Nat) /\ Len(p) \in Nat \ {0} /\ 1 \in 1..Len(p)
    <2>1. p \in Seq(Nat)
        BY DEF IsExpression
    <2> QED BY <2>1
<1>2. SubSeq(p, 1, 1 - 1) = <<>>
    BY <1>1
<1>3. p[1] \in ExpressionKids(At(<<>>))
    <2>1. p[1] \in ExpressionKids(At(SubSeq(p, 1, 1 - 1)))
        BY <1>1 DEF IsExpression
    <2> QED BY <1>2, <2>1
<1>4. At(<<>>) = program
    BY AtModule
<1>5. Len(program.kids) \in Nat /\ program.op = "module"
    BY <1>4, TopKinds DEF Kind
<1> QED BY <1>3, <1>4, <1>5, NamesAssumption DEF ExpressionKids

LEMMA AppendBegins ==
    ASSUME NEW s \in Seq(Nat), s # <<>>, NEW x \in Nat
    PROVE  Append(s, x) # <<>> /\ Append(s, x)[1] = s[1]
<1>1. Len(s) \in Nat /\ Len(s) # 0
    OBVIOUS
<1>2. Append(s, x) \in Seq(Nat) /\ Len(Append(s, x)) = Len(s) + 1
    OBVIOUS
<1>3. 1 \in 1..Len(s)
    BY <1>1
<1>4. Append(s, x)[1] = s[1]
    BY <1>3
<1> QED BY <1>1, <1>2, <1>4

LEMMA ValuedGrows ==
    ASSUME AllValued, UNCHANGED resolverVars, NEW p, NEW m, mir' = With(mir, p, m), Valued(p, m)
    PROVE  AllValued'
<1>0. targets' = targets /\ program' = program /\ \A q : Kind(q)' = Kind(q) /\ InDot(q)' = InDot(q)
    BY SameCalls DEF resolverVars
<1>1. ASSUME NEW q \in DOMAIN mir' PROVE Valued(q, mir[q])'
    <2>1. q \in DOMAIN mir \union {p} /\ mir'[q] = IF q = p THEN m ELSE mir[q]
        BY <1>1 DEF With
    <2>2. Valued(q, mir'[q])
        BY <2>1 DEF AllValued
    <2> QED BY <1>0, <2>2 DEF Valued, HasType, IsCalled
<1> QED BY <1>1 DEF AllValued

LEMMA ValuedSame ==
    ASSUME AllValued, UNCHANGED resolverVars, mir' = mir
    PROVE  AllValued'
<1>1. targets' = targets /\ program' = program /\ \A q : Kind(q)' = Kind(q) /\ InDot(q)' = InDot(q)
    BY SameCalls DEF resolverVars
<1> QED BY <1>1 DEF AllValued, Valued, HasType, IsCalled

\* A value that is no call, of an expression of the module.
LEMMA OtherValued ==
    ASSUME LoweringInv, stage = "mir", Item # <<>>, NEW op, NEW type, NEW kids,
           op \in {"call", "method"} => IsCalled(Item, op), HasType(Item, type)
    PROVE  Valued(Item, Mir(op, type, kids))
<1>1. Item[1] \in 1..Len(program.kids)
    BY AtWork, WithinModule
<1> QED BY <1>1 DEF Valued, Mir

LEMMA ValuedPush ==
    ASSUME LoweringInv, AllValued, stage = "mir", Item # <<>>,
           NEW op, NEW type, NEW kids, UNCHANGED resolverVars,
           mir' = With(mir, Item, Mir(op, type, kids)),
           op \in {"call", "method"} => IsCalled(Item, op), HasType(Item, type)
    PROVE  AllValued'
<1> DEFINE m == Mir(op, type, kids)
<1>1. Valued(Item, m)
    BY OtherValued
<1> HIDE DEF m
<1>2. PICK i : i = Item
    OBVIOUS
<1> QED BY <1>1, <1>2, ValuedGrows DEF m

LEMMA ValuedCombine ==
    ASSUME LoweringInv, AllValued, stage = "mir", Item # <<>>,
           NEW n, NEW op, NEW type, UNCHANGED resolverVars, Combine(n, op, type),
           op \in {"call", "method"} => IsCalled(Item, op), HasType(Item, type)
    PROVE  AllValued'
<1>1. CASE Len(values) < n
    BY <1>1, ValuedSame DEF Combine, Fail
<1>2. CASE ~(Len(values) < n)
    <2>1. mir' = With(mir, Item, Mir(op, type, LastOfStack(values, n)))
        BY <1>2 DEF Combine, PushOn
    <2> QED BY <2>1, ValuedPush
<1> QED BY <1>1, <1>2

\* What is cloned is a type that a value may have.
LEMMA ClonesAre ==
    ASSUME ResolverInv, NEW p, Typed(p)
    PROVE  Clone(types[p]) \in Types
<1>1. types[p] \in Types
    BY TypedIs
<1> QED BY <1>1 DEF Clone, Types

LEMMA ValuedStep ==
    ASSUME LoweringInv, CallsInv, AllValued, LoweringWork
    PROVE  AllValued'
<1>1. UNCHANGED resolverVars /\ stage \in {"mir", "casts"} /\ ResolverInv
    BY LoweringStep DEF LoweringInv
<1>2. values \in Seq(DOMAIN mir)
    BY DEF LoweringInv, Built, MirTyped
<1>3. stage = "mir" /\ Kind(Item) # "module" => Item # <<>>
    BY AtWork
<1>4. /\ {"Unit", "Int32", "Int64", "Float64", "Raw", "Bool"} \subseteq Types
    BY DEF Types
<1>5. CASE LowerLeaf
    <2>1. PICK op, type : /\ Combine(0, op, type) /\ type \in Types
                          /\ op \in {"int", "string", "true", "false"}
        BY <1>4, <1>5 DEF LowerLeaf, Lowers
    <2>2. stage = "mir" /\ Kind(Item) # "module"
        <3>1. stage = "mir" /\ Kind(Item) \in Numbers \union {"string", "true", "false"}
            BY <1>5 DEF LowerLeaf, Lowers
        <3> QED BY <3>1, NamesAssumption
    <2> QED BY <1>1, <1>3, <2>1, <2>2, ValuedCombine DEF HasType
<1>6. CASE LowerLocal
    <2>1. stage = "mir" /\ Kind(Item) # "module"
        <3>1. stage = "mir" /\ Kind(Item) \in Names
            BY <1>6 DEF LowerLocal, Lowers
        <3> QED BY <3>1, NamesAssumption
    <2>2. CASE ~Typed(Item)
        BY <1>1, <1>6, <2>2, ValuedSame DEF LowerLocal, Fail
    <2>3. CASE Typed(Item)
        <3> DEFINE type == Clone(types[Item])
        <3>1. Combine(0, "local", type) /\ type \in Types
            BY <1>1, <1>6, <2>3, ClonesAre DEF LowerLocal
        <3> HIDE DEF type
        <3> QED BY <1>1, <1>3, <2>1, <3>1, ValuedCombine DEF HasType
    <2> QED BY <2>2, <2>3
<1>7. CASE LowerChildren \/ KeepValue \/ LowerOther \/ LowerModule
    <2>1. mir' = mir
        BY <1>7 DEF LowerChildren, KeepValue, LowerOther, LowerModule, Fail
    <2> QED BY <1>1, <2>1, ValuedSame
<1>8. CASE LowerBinExpr
    <2> DEFINE op == MirOp[Kind(Item)]
               type == MirType[Kind(Item)]
    <2>1. stage = "mir" /\ Kind(Item) \in DOMAIN MirOp /\ Combine(2, op, type)
        BY <1>8 DEF LowerBinExpr, Lowers
    <2>2. op \notin {"call", "method"} /\ type \in Types /\ Kind(Item) # "module"
        BY <1>4, <2>1 DEF MirOp, MirType, BinOps
    <2> HIDE DEF op, type
    <2> QED BY <1>1, <1>3, <2>1, <2>2, ValuedCombine DEF HasType
<1>9. CASE LowerReturn
    <2> DEFINE type == mir[Last(values)].type
    <2>1. stage = "mir" /\ Kind(Item) = "ret"
        BY <1>9 DEF LowerReturn, Lowers
    <2>2. CASE Fail("crashed")
        BY <1>1, <2>2, ValuedSame DEF Fail
    <2>3. CASE values # <<>> /\ Combine(1, "ret", type)
        <3>1. Last(values) \in DOMAIN mir
            BY <1>2, <2>3, SeqEnds
        <3>2. HasType(Item, type)
            BY <2>1, <3>1 DEF AllValued, Valued, HasType, NeverTyped
        <3> HIDE DEF type
        <3> QED BY <1>1, <1>3, <2>1, <2>3, <3>2, ValuedCombine
    <2> QED BY <1>9, <2>2, <2>3 DEF LowerReturn
<1>10. CASE LowerCall
    <2> DEFINE n == Taken(Item)
               args == LastOfStack(values, n)
               isC == CallName(Item) = "ccall" /\ ~InDot(Item)
               bad == \/ Len(values) < n
                      \/ Item \notin DOMAIN targets
                      \/ isC /\ (args = <<>> \/ TypeVariables(Item) = <<>>)
               type == Clone(types[TypeVariables(Item)[1]])
               returns == targets[Item].returns
               op == IF InDot(Item) THEN "method" ELSE "call"
    <2>1. stage = "mir" /\ Kind(Item) = "call" /\ Item # <<>>
        BY <1>3, <1>10 DEF LowerCall, Lowers
    <2>2. IF bad THEN Fail("crashed")
          ELSE IF isC THEN PushOn(Without(values, n), Mir("ccall", type, Tail(args))) /\ UNCHANGED held
          ELSE Combine(n, op, returns)
        BY <1>10 DEF LowerCall, Taken
    <2>3. CASE bad
        BY <1>1, <2>2, <2>3, ValuedSame DEF Fail
    <2>4. CASE ~bad /\ isC
        <3>1. Item \in DOMAIN targets /\ TypeVariables(Item) # <<>>
            BY <2>4
        <3>2. CallFits(Item, targets[Item])
            BY <3>1 DEF CallsInv, CallsFit
        <3>3. Typed(TypeVariables(Item)[1])
            <4> DEFINE v == TypeVariables(Item)[1]
            <4>1. 1 \in DOMAIN TypeVariables(Item)
                <5>1. DOMAIN TypeVariables(Item) = DOMAIN At(Kid(Item, 1)).kids
                    BY DEF TypeVariables
                <5>2. TypeVariables(Item) \in Seq(Seq(Nat))
                    BY <2>1, AtWork, CallIs
                <5> QED BY <3>1, <5>2
            <4>2. v \in Range(TypeVariables(Item))
                BY <4>1 DEF Range
            <4> HIDE DEF v
            <4>3. Entry("type", v) \in Awaited(Item)
                BY <4>2 DEF Awaited
            <4>4. Typed(Entry("type", v).at)
                BY <3>2, <4>3 DEF CallFits
            <4> QED BY <4>4 DEF v, Entry
        <3>4. type \in Types
            BY <1>1, <3>3, ClonesAre
        <3>5. mir' = With(mir, Item, Mir("ccall", type, Tail(args)))
            BY <2>2, <2>4 DEF PushOn
        <3> HIDE DEF type, args
        <3> QED BY <1>1, <2>1, <3>4, <3>5, ValuedPush DEF HasType
    <2>5. CASE ~bad /\ ~isC
        <3>1. Item \in DOMAIN targets /\ Combine(n, op, returns)
            BY <2>2, <2>5
        <3>2. returns \in Types
            BY <3>1 DEF CallsInv, CallsFit, CallFits, TargetIs
        <3>3. IsCalled(Item, op)
            BY <3>1 DEF IsCalled
        <3> HIDE DEF n, op, returns
        <3> QED BY <1>1, <2>1, <3>1, <3>2, <3>3, ValuedCombine DEF HasType
    <2> QED BY <2>3, <2>4, <2>5
<1>11. CASE LowerIf
    <2>1. stage = "mir" /\ Kind(Item) = "if"
        BY <1>11 DEF LowerIf, Lowers
    <2>2. \/ mir' = mir
          \/ mir' = With(mir, Item, Mir("if", "Unit", LastOfStack(held, 2)))
        BY <1>11 DEF LowerIf, PushOn
    <2> QED BY <1>1, <1>3, <1>4, <2>1, <2>2, ValuedSame, ValuedPush DEF HasType
<1>12. CASE LowerBlock
    <2>1. stage = "mir" /\ Kind(Item) = "block"
        BY <1>12 DEF LowerBlock, Lowers
    <2>2. mir' = With(mir, Item, Mir("block", "none", LastOfStack(held, Len(At(Item).kids))))
        BY <1>12 DEF LowerBlock, PushOn
    <2> QED BY <1>1, <1>3, <2>1, <2>2, ValuedPush DEF HasType, NeverTyped
<1>13. CASE LowerFunction \/ LowerStatic
    <2>1. \/ mir' = mir
          \/ mir' = With(mir, End, Mir("ret", "Unit", <<>>))
          \/ mir' = With(mir, End, Mir("ret", "Int32", <<>>))
        BY <1>13 DEF LowerFunction, LowerStatic
    <2>2. stage = "mir" /\ Kind(Item) \in {"fun", "static"}
        BY <1>13 DEF LowerFunction, LowerStatic, Lowers
    <2>3. PICK k \in 1..Len(program.kids) : Item = <<k>>
        BY <2>2, AtWork, WhereKindsStand
    <2>4. End # <<>> /\ End[1] = k
        <3>1. Item \in Seq(Nat)
            BY <2>2, AtWork
        <3>2. Item # <<>> /\ Item[1] = k
            BY <2>3
        <3> QED BY <3>1, <3>2, AppendBegins DEF End
    <2>5. ASSUME NEW type \in {"Unit", "Int32"}, mir' = With(mir, End, Mir("ret", type, <<>>))
          PROVE  AllValued'
        <3>1. Valued(End, Mir("ret", type, <<>>))
            BY <1>4, <2>3, <2>4 DEF Valued, Mir, HasType
        <3>2. PICK i : i = End
            OBVIOUS
        <3> QED BY <1>1, <2>5, <3>1, <3>2, ValuedGrows
    <2> QED BY <1>1, <2>1, <2>5, ValuedSame
<1>14. CASE VisitMir \/ CastArguments \/ FinishLowering
    <2>1. mir' = mir
        BY <1>14 DEF VisitMir, CastArguments, FinishLowering, Fail
    <2> QED BY <1>1, <2>1, ValuedSame
<1> QED BY <1>5, <1>6, <1>7, <1>8, <1>9, <1>10, <1>11, <1>12, <1>13, <1>14 DEF LoweringWork

\* Where a step of the lowering leads to, or how it ends.
CasterStep == LowerModule \/ VisitMir \/ CastArguments \/ FinishLowering
GivesUp == \E how \in {"crashed", "uncaught"} : Fail(how)

LEMMA LoweringLeads ==
    ASSUME LoweringWork
    PROVE  /\ GivesUp \/ CasterStep \/ (stage = "mir" /\ stage' = "mir" /\ casts' = casts)
           /\ CasterStep => GivesUp \/ stage' \in {"casts", "lowered"}
<1> USE DEF Lowers, Combine, PushOn
<1> DEFINE ahead == stage = "mir" /\ stage' = "mir" /\ casts' = casts
<1>1. LowerLeaf => GivesUp \/ ahead
    BY DEF LowerLeaf, GivesUp
<1>2. LowerLocal => GivesUp \/ ahead
    BY DEF LowerLocal, GivesUp
<1>3. LowerChildren \/ KeepValue => GivesUp \/ ahead
    BY DEF LowerChildren, KeepValue, GivesUp
<1>4. LowerBinExpr \/ LowerReturn => GivesUp \/ ahead
    BY DEF LowerBinExpr, LowerReturn, GivesUp
<1>5. LowerCall => GivesUp \/ ahead
    BY DEF LowerCall, GivesUp
<1>6. LowerIf \/ LowerBlock \/ LowerOther => GivesUp \/ ahead
    BY DEF LowerIf, LowerBlock, LowerOther
<1>7. LowerFunction \/ LowerStatic => GivesUp \/ ahead
    BY DEF LowerFunction, LowerStatic, EndFunctionWith
<1>8. CasterStep => GivesUp \/ stage' \in {"casts", "lowered"}
    BY DEF CasterStep, LowerModule, VisitMir, CastArguments, FinishLowering, GivesUp
<1> HIDE DEF ahead
<1>9. GivesUp \/ CasterStep \/ ahead
    BY <1>1, <1>2, <1>3, <1>4, <1>5, <1>6, <1>7 DEF LoweringWork, CasterStep
<1> QED BY <1>8, <1>9 DEF ahead

LEMMA BegunStep ==
    ASSUME LoweringInv, Begun, LoweringWork, LoweringInv'
    PROVE  Begun'
<1>1. stage \in {"mir", "casts"} /\ stage' # "waiting"
    BY LoweringStep
<1>2. CASE stage' = "mir"
    BY <1>2 DEF LoweringInv, Staged, WorkGood, Begun
<1>3. CASE stage' \in {"casts", "lowered"}
    <2>1. Len(functions') = Len(program'.kids)
        BY <1>3 DEF LoweringInv, Staged
    <2>2. Rooted /\ program' = program
        BY LoweringStep DEF LoweringInv, ResolverInv, resolverVars
    <2>3. Len(functions') # 0
        BY <2>1, <2>2, TopKinds
    <2>4. functions' # <<>>
        BY <2>3
    <2> QED BY <1>3, <2>4 DEF Begun
<1>4. CASE GivesUp
    BY <1>1, <1>4 DEF GivesUp, Fail, Begun
<1> QED BY <1>2, <1>3, <1>4, LoweringLeads

LEMMA ArgumentEntriesAre ==
    ASSUME NEW ps \in Seq(DOMAIN mir)
    PROVE  Entries("cast", ps) \in Seq(ArgumentWork)
<1>1. \A k \in 1..Len(ps) : Entry("cast", ps[k]) \in ArgumentWork
    BY DEF Entry, CastWork, ArgumentWork
<1>2. Entries("cast", ps) = [k \in 1..Len(ps) |-> Entry("cast", ps[k])] /\ Len(ps) \in Nat
    BY DEF Entries
<1> HIDE DEF ArgumentWork
<1> QED BY <1>1, <1>2

LEMMA CallsCastStep ==
    ASSUME LoweringInv, AllValued, CallsCast, LoweringWork
    PROVE  CallsCast'
<1> DEFINE W == ArgumentWork
<1>1. UNCHANGED resolverVars /\ stage \in {"mir", "casts"} /\ targets' = targets
    BY LoweringStep DEF resolverVars
<1>2. CASE GivesUp
    BY <1>1, <1>2 DEF GivesUp, Fail, CallsCast
<1>3. CASE stage = "mir" /\ stage' = "mir" /\ casts' = casts
    BY <1>1, <1>3 DEF CallsCast
<1>4. CASE LowerModule
    <2>1. /\ stage' = "casts"
          /\ work' = FlattenSeq([k \in DOMAIN functions |-> Entries("cast", functions[k].body)])
          /\ UNCHANGED <<mir, functions, casts>>
        BY <1>4 DEF LowerModule
    <2> DEFINE ss == [k \in DOMAIN functions |-> Entries("cast", functions[k].body)]
               R == [of : Seq(Nat), body : Seq(DOMAIN mir)]
    <2>2. functions \in Seq(R)
        BY DEF LoweringInv, Built, MirTyped
    <2>3. \A r \in R : r.body \in Seq(DOMAIN mir)
        OBVIOUS
    <2> HIDE DEF R
    <2>4. \A k \in 1..Len(functions) : Entries("cast", functions[k].body) \in Seq(W)
        BY <2>2, <2>3, ArgumentEntriesAre
    <2>5. DOMAIN functions = 1..Len(functions) /\ Len(functions) \in Nat
        BY <2>2
    <2> HIDE DEF W
    <2>6. ss \in Seq(Seq(W))
        BY <2>4, <2>5
    <2> HIDE DEF ss
    <2>7. FlattenSeq(ss) \in Seq(W)
        BY <2>6, Joined
    <2>8. work' \in Seq(W)
        BY <2>1, <2>7 DEF ss
    <2>9. W' = W
        BY <1>1, <2>1 DEF ArgumentWork, W
    <2> QED BY <1>1, <2>1, <2>8, <2>9 DEF CallsCast, W
<1>5. CASE VisitMir \/ CastArguments \/ FinishLowering
    <2>1. stage = "casts" /\ mir' = mir
        BY <1>5 DEF VisitMir, CastArguments, FinishLowering, Fail
    <2>2. work \in Seq(W) /\ W' = W /\ DOMAIN casts \subseteq DOMAIN targets
        BY <1>1, <2>1 DEF CallsCast, ArgumentWork
    <2>3. CASE FinishLowering
        BY <1>1, <2>2, <2>3 DEF FinishLowering, CallsCast
    <2>4. CASE VisitMir
        <3> DEFINE more == IF mir[Item].op \in {"call", "method"} THEN <<Entry("arguments", Item)>>
                           ELSE <<>>
                   es == Entries("cast", CastKids(Item))
        <3>1. CASE Fail("crashed")
            BY <1>2, <3>1 DEF GivesUp
        <3>2. CASE work' = es \o more \o Tail(work) /\ UNCHANGED <<stage, casts>>
            <4>1. work # <<>> /\ Item \in DOMAIN mir /\ MirKids(mir[Item], DOMAIN mir)
                BY <2>1, <2>4, AtCast DEF VisitMir
            <4>2. es \in Seq(W)
                BY <4>1, CastKidsTyped, ArgumentEntriesAre
            <4>3. more \in Seq(W)
                <5>1. mir[Item].op \in {"call", "method"} => Item \in DOMAIN targets
                    BY <4>1 DEF AllValued, Valued, IsCalled
                <5>2. mir[Item].op \in {"call", "method"} => Entry("arguments", Item) \in W
                    BY <4>1, <5>1 DEF Entry, CastWork, ArgumentWork
                <5> HIDE DEF W
                <5> QED BY <5>2
            <4> HIDE DEF W, es, more
            <4>4. Tail(work) \in Seq(W)
                BY <2>2, <4>1
            <4>5. work' \in Seq(W)
                BY <3>2, <4>2, <4>3, <4>4
            <4> QED BY <1>1, <2>2, <3>2, <4>5 DEF CallsCast, W
        <3> QED BY <2>4, <3>1, <3>2 DEF VisitMir
    <2>5. CASE CastArguments
        <3>1. CASE GivesUp
            BY <1>2, <3>1
        <3>2. ASSUME NEW c, casts' = With(casts, Item, c), work' = Tail(work), UNCHANGED stage
              PROVE  CallsCast'
            <4>1. work # <<>> /\ Head(work).do = "arguments"
                BY <2>5 DEF CastArguments
            <4>2. Head(work) \in W /\ Tail(work) \in Seq(W)
                <5> HIDE DEF W
                <5> QED BY <2>2, <4>1, SeqEnds
            <4>3. Item \in DOMAIN targets
                BY <4>1, <4>2 DEF ArgumentWork, Item
            <4>4. DOMAIN casts' = DOMAIN casts \union {Item}
                <5> DEFINE f == With(casts, Item, c)
                <5>1. DOMAIN f = DOMAIN casts \union {Item}
                    BY DEF With
                <5> HIDE DEF f
                <5>2. casts' = f
                    BY <3>2 DEF f
                <5> QED BY <5>1, <5>2
            <4> HIDE DEF W
            <4>5. work' \in Seq(W')
                BY <2>2, <3>2, <4>2
            <4> QED BY <1>1, <2>2, <4>3, <4>4, <4>5 DEF CallsCast, W
        <3> QED BY <2>5, <3>1, <3>2 DEF CastArguments, GivesUp
    <2> QED BY <1>5, <2>3, <2>4, <2>5
<1> QED BY <1>1, <1>2, <1>3, <1>4, <1>5, LoweringLeads DEF CasterStep

LEMMA LoweringTypesStart ==
    ASSUME LoweringInit
    PROVE  LoweringTypes
<1>1. CallsInv
    BY CallsStart DEF LoweringInit
<1>2. mir = <<>> /\ casts = <<>> /\ work = <<>> /\ stage = "waiting" /\ DOMAIN <<>> = {}
    BY DEF LoweringInit
<1>3. DOMAIN mir = {} /\ DOMAIN casts = {}
    BY <1>2
<1> QED BY <1>1, <1>2, <1>3 DEF LoweringTypes, AllValued, CallsCast, Begun

LEMMA LoweringTypesStep ==
    ASSUME LoweringInv, LoweringTypes, [LoweringNext]_backendVars, LoweringInv'
    PROVE  LoweringTypes'
<1>1. CASE Resolve
    <2>1. ResolverNext /\ UNCHANGED loweringVars
        BY <1>1 DEF Resolve
    <2>2. status = "running"
        BY <2>1, ResolverStep
    <2>3. stage = "waiting" /\ mir = <<>> /\ casts = <<>> /\ work = <<>>
        BY <2>2 DEF LoweringInv, Staged, LoweringTypes, Begun
    <2>4. DOMAIN <<>> = {}
        OBVIOUS
    <2>5. stage' = "waiting" /\ work' = <<>> /\ DOMAIN mir' = {} /\ DOMAIN casts' = {}
        BY <2>1, <2>3, <2>4 DEF loweringVars
    <2>6. CallsInv'
        BY <2>1, CallsStep DEF LoweringInv, LoweringTypes
    <2> QED BY <2>5, <2>6 DEF LoweringTypes, AllValued, CallsCast, Begun
<1>2. CASE StartLowering \/ UNCHANGED backendVars
    <2>1. UNCHANGED resolverVars /\ UNCHANGED <<mir, casts, functions>>
        BY <1>2 DEF StartLowering, backendVars, loweringVars
    <2>2. CallsInv'
        BY <2>1, CallsSame DEF LoweringTypes, resolverVars
    <2>3. AllValued'
        BY <2>1, ValuedSame DEF LoweringTypes
    <2>4. CallsCast'
        <3>1. targets' = targets /\ DOMAIN casts' = DOMAIN casts
            BY <2>1 DEF resolverVars
        <3>2. stage' = "casts" => UNCHANGED <<stage, work, mir>>
            BY <1>2 DEF StartLowering, backendVars, loweringVars
        <3>3. stage' = "casts" => work' \in Seq(ArgumentWork')
            BY <3>1, <3>2 DEF LoweringTypes, CallsCast, ArgumentWork
        <3> QED BY <3>1, <3>3 DEF LoweringTypes, CallsCast
    <2>5. Begun'
        <3>1. CASE StartLowering
            BY <3>1 DEF StartLowering, Begun
        <3>2. CASE UNCHANGED backendVars
            BY <3>2 DEF backendVars, loweringVars, LoweringTypes, Begun
        <3> QED BY <1>2, <3>1, <3>2
    <2> QED BY <2>2, <2>3, <2>4, <2>5 DEF LoweringTypes
<1>3. CASE LoweringWork
    <2>1. UNCHANGED resolverVars
        BY <1>3, LoweringStep
    <2>2. CallsInv'
        BY <2>1, CallsSame DEF LoweringTypes, resolverVars
    <2> QED BY <1>3, <2>2, ValuedStep, CallsCastStep, BegunStep DEF LoweringTypes
<1> QED BY <1>1, <1>2, <1>3 DEF LoweringNext, LoweringWork

LEMMA InvLoweringTypeOK ==
    ASSUME LoweringInv, LoweringTypes
    PROVE  LoweringTypeOK
<1>1. stage \in Stages /\ (stage = "waiting" <=> work = <<>> /\ mir = <<>> /\ functions = <<>>)
    BY DEF LoweringInv, Staged, LoweringTypes, Begun
<1>2. MirTyped
    BY DEF LoweringInv, Built
<1>3. \A s \in Seq(DOMAIN mir) : Range(s) \subseteq DOMAIN mir
    BY DEF Range
<1>4. \A p \in DOMAIN mir : mir[p].kids \in Seq(DOMAIN mir)
    BY <1>2 DEF MirTyped, MirKids
<1>5. \A p \in DOMAIN mir : mir[p].type \in Types \union {"none"}
                                /\ Range(mir[p].kids) \subseteq DOMAIN mir
    BY <1>3, <1>4 DEF LoweringTypes, AllValued, Valued, HasType
<1>6. Range(values) \union Range(held) \subseteq DOMAIN mir
    BY <1>2, <1>3 DEF MirTyped
<1> QED BY <1>1, <1>5, <1>6 DEF LoweringTypeOK, LoweringTypes, CallsCast

(***************************************************************************)
(* The lowering's state has the types it should: each value a type that a  *)
(* Roc type resolves to, values and operands are of values that were       *)
(* built, and only calls with a target are cast (MIR.cpp 75-317, 395-525). *)
(***************************************************************************)
THEOREM LoweringTyped == LoweringSpec => []LoweringTypeOK
<1>1. LoweringInit => LoweringInv /\ LoweringTypes
    BY LoweringStarts, LoweringTypesStart
<1>2. LoweringInv /\ LoweringTypes /\ [LoweringNext]_backendVars => LoweringInv' /\ LoweringTypes'
    BY LoweringInductive, LoweringTypesStep
<1>3. LoweringInv /\ LoweringTypes => LoweringTypeOK
    BY InvLoweringTypeOK
<1> QED BY <1>1, <1>2, <1>3, PTL DEF LoweringSpec

-----------------------------------------------------------------------------
(* Where the lowering of a plain module may end.                            *)

\* Of a plain module every expression is one that TypeResolver visits.
LEMMA PlainOutside ==
    ASSUME LoweringInv, status = "resolved", Plain, NEW p, IsExpression(p)
    PROVE  Resolvable(p)
<1> DEFINE Part(k) == SubSeq(p, 1, k)
           Bad == {k \in 1..(Len(p) - 1) : Kind(Part(k)) = "call" /\ InDot(Part(k))}
<1> SUFFICES ASSUME Bad # {} PROVE FALSE
    BY DEF Resolvable, InMethodArguments
<1>1. p \in Seq(Nat) /\ Len(p) \in Nat /\ Rooted /\ ResolverInv /\ MethodsApart
    BY DEF IsExpression, LoweringInv, ResolverInv
<1>2. Bad \in SUBSET Nat
    BY <1>1
<1> HIDE DEF Bad
<1>3. PICK m \in Bad : \A j \in Bad : m <= j
    BY <1>2, LeastElement
<1> USE DEF Bad
<1>4. /\ m \in 1..Len(p) /\ m + 1 \in 1..Len(p) /\ m \in Nat /\ (m + 1) - 1 = m
      /\ Kind(Part(m)) = "call" /\ InDot(Part(m))
    BY <1>1, <1>3
<1> HIDE DEF Bad
<1>5. \A k \in 1..Len(p) : IsExpression(Part(k)) /\ Part(k) \in Seq(Nat) /\ Len(Part(k)) = k
    <2> SUFFICES ASSUME NEW k \in 1..Len(p)
                 PROVE  IsExpression(Part(k)) /\ Part(k) \in Seq(Nat) /\ Len(Part(k)) = k
        OBVIOUS
    <2>1. Part(k) \in Seq(Nat) /\ Len(Part(k)) = k
        BY <1>1
    <2>2. ASSUME NEW j \in 1..k
          PROVE  Part(k)[j] = p[j] /\ SubSeq(Part(k), 1, j - 1) = SubSeq(p, 1, j - 1) /\ j \in 1..Len(p)
        BY <1>1
    <2>3. \A j \in 1..Len(p) : p[j] \in ExpressionKids(At(SubSeq(p, 1, j - 1)))
        BY DEF IsExpression
    <2> HIDE DEF Part
    <2>4. \A j \in 1..Len(Part(k)) : Part(k)[j] \in ExpressionKids(At(SubSeq(Part(k), 1, j - 1)))
        BY <2>1, <2>2, <2>3
    <2> QED BY <2>1, <2>4 DEF IsExpression
<1> DEFINE q == Part(m)
<1>6. IsExpression(q) /\ Len(q) = m /\ q # <<>>
    BY <1>4, <1>5
<1>7. Resolvable(q)
    <2> SUFFICES ASSUME NEW k \in 1..(Len(q) - 1), Kind(SubSeq(q, 1, k)) = "call",
                        InDot(SubSeq(q, 1, k))
                 PROVE  FALSE
        BY <1>6 DEF Resolvable, InMethodArguments
    <2>1. k \in 1..(m - 1) /\ k \in 1..(Len(p) - 1)
        BY <1>1, <1>4, <1>6
    <2>2. SubSeq(q, 1, k) = Part(k)
        BY <1>1, <1>4, <2>1
    <2>3. k \in Bad
        BY <2>1, <2>2 DEF Bad
    <2> QED BY <1>3, <1>4, <2>1, <2>3
<1>8. q \in DOMAIN targets /\ q # Kid(Parent(q), 1)
    <2>1. q \in DOMAIN targets
        BY <1>1, <1>4, <1>7, WhenResolved
    <2> QED BY <1>1, <1>4, <2>1 DEF MethodsApart
<1>9. Children(q) = <<>>
    BY <1>1, <1>4, <1>6, <1>8, PlainMethod
<1> DEFINE c == Part(m + 1)
<1>10. IsExpression(c) /\ c # <<>> /\ Parent(c) = q
    <2>1. c \in Seq(Nat) /\ Len(c) = m + 1 /\ IsExpression(c)
        BY <1>4, <1>5
    <2>2. Parent(c) = SubSeq(c, 1, m)
        BY <1>4, <2>1 DEF Parent, Front
    <2>3. SubSeq(c, 1, m) = q
        BY <1>1, <1>4
    <2> HIDE DEF c, q
    <2> QED BY <1>4, <2>1, <2>2, <2>3
<1> HIDE DEF c, q
<1>11. PICK i \in 1..Len(Children(q)) : c = Children(q)[i]
    BY <1>1, <1>10, ParentOf
<1>12. Len(<<>>) = 0 /\ 1..0 = {}
    OBVIOUS
<1> QED BY <1>9, <1>11, <1>12

\* What the resolvers have left of an expression of a plain module.
LEMMA PlainReady ==
    ASSUME LoweringInv, status = "resolved", Plain, NEW p, IsExpression(p)
    PROVE  /\ Kind(p) \in Names => Typed(p)
           /\ Kind(p) = "call" => p \in DOMAIN targets
           /\ p \in Expressions
<1>1. ResolverInv /\ Resolvable(p) /\ agenda = <<>> /\ Rooted
    BY PlainOutside DEF LoweringInv, ResolverInv, EndsWell
<1>2. Kind(p) \in Names => p \in locals
    BY <1>1, PassEnded DEF Examined, IsLiteral
<1> QED BY <1>1, <1>2, WhenResolved, AllExpressions

\* How the loop of the caster may end.
LoopEnd(given, expected, s, k) ==
    /\ s = [i |-> s.i, to |-> s.to, ends |-> s.ends]
    /\ s.i \in Nat /\ s.i <= k + 1
    /\ s.ends = "crashed" => \E j \in 1..k : given[j] = "none"
    /\ s.ends = "uncaught" => s.i > Len(expected) /\ s.i <= k

LEMMA LoopStepEnds ==
    ASSUME NEW given, Len(given) \in Nat, NEW expected, NEW s,
           NEW k \in 1..Len(given), LoopEnd(given, expected, s, k - 1)
    PROVE  LoopEnd(given, expected, LoopStep(given, expected, k, s), k)
<1> DEFINE t == LoopStep(given, expected, k, s)
<1>1. /\ s = [i |-> s.i, to |-> s.to, ends |-> s.ends] /\ s.i \in Nat /\ s.i <= k /\ k \in 1..k
      /\ k \in Nat /\ \A j \in 1..(k - 1) : j \in 1..k
    BY DEF LoopEnd
<1>2. CASE s.ends # "no" \/ t = s
    <2>1. t = s
        BY <1>2 DEF LoopStep
    <2> HIDE DEF t
    <2> QED BY <1>1, <2>1 DEF LoopEnd, t
<1>3. CASE s.ends = "no" /\ s.i > Len(expected)
    <2>1. t = [s EXCEPT !.ends = "uncaught"]
        BY <1>3 DEF LoopStep
    <2>2. t = [i |-> s.i, to |-> s.to, ends |-> "uncaught"]
        BY <1>1, <2>1
    <2> HIDE DEF t
    <2> QED BY <1>1, <1>3, <2>2 DEF LoopEnd, t
<1>4. CASE s.ends = "no" /\ ~(s.i > Len(expected)) /\ given[k] = "none"
    <2>1. t = [s EXCEPT !.ends = "crashed"]
        BY <1>4 DEF LoopStep
    <2>2. t = [i |-> s.i, to |-> s.to, ends |-> "crashed"]
        BY <1>1, <2>1
    <2> HIDE DEF t
    <2> QED BY <1>1, <1>4, <2>2 DEF LoopEnd, t
<1>5. CASE s.ends = "no" /\ ~(s.i > Len(expected)) /\ given[k] # "none" /\ given[k] # expected[s.i]
    <2> DEFINE c == Coercion(given[k], expected[s.i])
    <2>1. t = [s EXCEPT !.to[s.i] = c, !.i = @ + 1]
        BY <1>5 DEF LoopStep
    <2>2. t = [i |-> s.i + 1, to |-> [s.to EXCEPT ![s.i] = c], ends |-> "no"]
        <3> HIDE DEF c
        <3> QED BY <1>1, <1>5, <2>1
    <2> HIDE DEF t, c
    <2>3. t.i = s.i + 1 /\ t.ends = "no" /\ t = [i |-> t.i, to |-> t.to, ends |-> t.ends]
        BY <2>2
    <2> QED BY <1>1, <2>3 DEF LoopEnd, t
<1>6. CASE s.ends = "no" /\ ~(s.i > Len(expected)) /\ given[k] # "none" /\ given[k] = expected[s.i]
    <2>1. t = s
        BY <1>6 DEF LoopStep
    <2> QED BY <1>2, <2>1
<1> QED BY <1>2, <1>3, <1>4, <1>5, <1>6

\* It crashes at an argument without a type, and throws when there are more
\* arguments than parameters.
LEMMA CastLoopEnds ==
    ASSUME NEW given, Len(given) \in Nat, NEW expected, Len(expected) \in Nat
    PROVE  LET ends == CastLoop(given, expected).ends
           IN /\ ends = "crashed" => \E j \in 1..Len(given) : given[j] = "none"
              /\ ends = "uncaught" => Len(given) > Len(expected)
<1> DEFINE n == Len(given)
<1>1. PICK g : Loop(g, given, expected) /\ CastLoop(given, expected) = g[n]
    BY CastLoopIs
<1> DEFINE T == {k \in 0..n : LoopEnd(given, expected, g[k], k)}
<1>2. n \in Nat
    OBVIOUS
<1>3. 0 \in T
    <2> DEFINE none == [j \in DOMAIN given |-> Uncast]
    <2>1. g[0] = [i |-> 1, to |-> none, ends |-> "no"]
        BY <1>1, <1>2 DEF Loop
    <2> HIDE DEF none
    <2>2. g[0].i = 1 /\ g[0].ends = "no" /\ g[0].to = none
        BY <2>1
    <2>3. LoopEnd(given, expected, g[0], 0)
        BY <2>1, <2>2 DEF LoopEnd
    <2> QED BY <1>2, <2>3
<1>4. ASSUME NEW k \in 0..n, k \in T, k < n PROVE k + 1 \in T
    <2>1. k + 1 \in 1..n /\ k + 1 \in 0..n /\ k + 1 # 0 /\ (k + 1) - 1 = k
        BY <1>2, <1>4
    <2>2. g[k + 1] = LoopStep(given, expected, k + 1, g[k])
        BY <1>1, <2>1 DEF Loop
    <2>3. LoopEnd(given, expected, g[k], k)
        BY <1>4
    <2>4. LoopEnd(given, expected, LoopStep(given, expected, k + 1, g[k]), k + 1)
        BY <2>1, <2>3, LoopStepEnds
    <2> QED BY <2>1, <2>2, <2>4
<1> HIDE DEF T
<1>5. 0..n \subseteq T
    BY <1>2, <1>3, <1>4, UpToInduction
<1>6. LoopEnd(given, expected, g[n], n)
    BY <1>2, <1>5 DEF T
<1> QED BY <1>1, <1>6 DEF LoopEnd

\* A value that stands for an expression with a type has one.
LEMMA ValueOfTyped ==
    ASSUME Rooted, Plain, AllValued, ValuesTyped, NEW a, IsExpression(a), Typed(a),
           ValueOf(a) \in DOMAIN mir
    PROVE  mir[ValueOf(a)].type # "none"
<1>1. Kind(ValueOf(a)) \notin NeverTyped
    <2>1. CASE Kind(a) = "."
        <3>1. Kind(Kid(a, 2)) = "call"
            BY <2>1, PlainNodes
        <3> QED BY <2>1, <3>1 DEF ValueOf, NeverTyped
    <2>2. CASE Kind(a) # "."
        BY <2>2 DEF ValueOf, ValuesTyped, Typed
    <2> QED BY <2>1, <2>2
<1>2. HasType(ValueOf(a), mir[ValueOf(a)].type)
    BY DEF AllValued, Valued
<1> QED BY <1>1, <1>2 DEF HasType, Types

\* What a call of a plain module has as operands.
LEMMA CallOperands ==
    ASSUME LoweringInv, LoweringTypes, status = "resolved", Plain,
           NEW p \in DOMAIN mir, mir[p].op \in {"call", "method"}
    PROVE  /\ IsExpression(p) /\ Kind(p) = "call" /\ p \in DOMAIN targets
           /\ CallFits(p, targets[p]) /\ mir[p].kids \in Seq(DOMAIN mir)
           /\ mir[p].op = "call" => ~InDot(p) /\ mir[p].kids = ValuesOf(Arguments(p))
           /\ mir[p].op = "method" => InDot(p) /\ mir[p].kids = <<ValueOf(Kid(Parent(p), 1))>>
<1>1. IsCalled(p, mir[p].op) /\ CallsFit
    BY DEF LoweringTypes, AllValued, Valued, CallsInv
<1>2. CallFits(p, targets[p]) /\ p \in DOMAIN targets /\ Kind(p) = "call"
    BY <1>1 DEF IsCalled, CallsFit, CallFits
<1>3. IsExpression(p) /\ mir[p].kids = Operands(p)
    BY DEF LoweringInv, Built, ValuesFit, ValueFits
<1>4. mir[p].kids \in Seq(DOMAIN mir)
    BY DEF LoweringInv, Built, MirTyped, MirKids
<1>5. mir[p].op = "call" => ~InDot(p) /\ mir[p].kids = ValuesOf(Arguments(p))
    BY <1>1, <1>2, <1>3 DEF IsCalled, Operands, Children
<1>6. mir[p].op = "method" => InDot(p) /\ mir[p].kids = <<ValueOf(Kid(Parent(p), 1))>>
    BY <1>1, <1>2, <1>3 DEF IsCalled, Operands
<1> QED BY <1>2, <1>3, <1>4, <1>5, <1>6

\* The caster finds the type of the reference of a method call.
LEMMA MethodOwnerTyped ==
    ASSUME LoweringInv, LoweringTypes, status = "resolved", Plain,
           NEW p \in DOMAIN mir, mir[p].op = "method"
    PROVE  mir[mir[p].kids[1]].type # "none"
<1> DEFINE q == Parent(p)
           a == Kid(q, 1)
<1>1. /\ IsExpression(p) /\ Kind(p) = "call" /\ InDot(p) /\ CallFits(p, targets[p])
      /\ mir[p].kids = <<ValueOf(a)>> /\ mir[p].kids \in Seq(DOMAIN mir)
    BY CallOperands
<1>2. Rooted /\ AllValued /\ ValuesTyped
    BY DEF LoweringInv, ResolverInv, LoweringTypes, CallsInv
<1>3. IsExpression(q) /\ Kind(q) = "."
    <2>1. p # <<>>
        BY <1>1, <1>2, CallIs
    <2> QED BY <1>1, <1>2, <2>1, ParentOf DEF InDot
<1> HIDE DEF q
<1>4. IsExpression(a)
    <2> DEFINE b == Kid(q, 2)
    <2>1. Children(q) = <<a, b>>
        BY <1>2, <1>3, PlainNodes
    <2> HIDE DEF a, b
    <2>2. 1 \in DOMAIN Children(q) /\ Children(q)[1] = a
        BY <2>1
    <2> QED BY <1>2, <1>3, <2>2, ChildrenAreExpressions
<1>5. Typed(a)
    BY <1>1 DEF CallFits, q
<1> DEFINE v == ValueOf(a)
<1> HIDE DEF a, v
<1>6. mir[p].kids[1] = v /\ v \in DOMAIN mir
    <2>1. mir[p].kids = <<v>>
        BY <1>1 DEF a, v
    <2> DEFINE S == DOMAIN mir
    <2> HIDE DEF S
    <2>2. <<v>> \in Seq(S)
        BY <1>1, <2>1 DEF S
    <2>3. v \in S
        <3>1. <<v>> # <<>> /\ Head(<<v>>) = v
            OBVIOUS
        <3> QED BY <2>2, <3>1, SeqEnds
    <2> QED BY <2>1, <2>3 DEF S
<1> QED BY <1>2, <1>4, <1>5, <1>6, ValueOfTyped DEF v

\* The caster finds the types of all arguments, and no more of them than the
\* call has.
LEMMA GivenTyped ==
    ASSUME LoweringInv, LoweringTypes, status = "resolved", Plain,
           NEW p \in DOMAIN mir, mir[p].op \in {"call", "method"}
    PROVE  /\ Len(Given(p)) \in Nat /\ Len(Given(p)) <= Len(Arguments(p))
           /\ \A k \in 1..Len(Given(p)) : Given(p)[k] # "none"
           /\ Len(Arguments(p)) \in Nat
<1>1. /\ IsExpression(p) /\ Kind(p) = "call" /\ CallFits(p, targets[p])
      /\ mir[p].kids \in Seq(DOMAIN mir)
      /\ mir[p].op = "call" => ~InDot(p) /\ mir[p].kids = ValuesOf(Arguments(p))
      /\ mir[p].op = "method" => mir[p].kids = <<ValueOf(Kid(Parent(p), 1))>>
    BY CallOperands
<1>2. Rooted /\ AllValued /\ ValuesTyped
    BY DEF LoweringInv, ResolverInv, LoweringTypes, CallsInv
<1>3. Arguments(p) = Children(p) /\ Arguments(p) \in Seq(Seq(Nat)) /\ Len(Arguments(p)) \in Nat
    BY <1>1, <1>2, CallIs, ChildrenAreKids
<1>4. CASE mir[p].op = "method"
    <2>1. MirArguments(p) = <<>>
        <3> DEFINE v == ValueOf(Kid(Parent(p), 1))
        <3> HIDE DEF v
        <3>1. mir[p].kids = <<v>>
            BY <1>1, <1>4 DEF v
        <3>2. Tail(<<v>>) = <<>>
            OBVIOUS
        <3> QED BY <1>4, <3>1, <3>2 DEF MirArguments
    <2>2. Given(p) = <<>>
        BY <2>1 DEF Given
    <2>3. Len(Given(p)) = 0
        BY <2>2
    <2> QED BY <1>3, <2>3
<1>5. CASE mir[p].op = "call"
    <2> DEFINE args == Arguments(p)
               n == Len(args)
    <2>1. ~InDot(p) /\ mir[p].kids = [k \in DOMAIN args |-> ValueOf(args[k])]
        BY <1>1, <1>5 DEF ValuesOf
    <2>2. DOMAIN args = 1..n /\ n \in Nat
        BY <1>3
    <2>3. MirArguments(p) = mir[p].kids
        BY <1>5 DEF MirArguments
    <2> HIDE DEF args, n
    <2>4. Given(p) = [k \in 1..n |-> mir[ValueOf(args[k])].type]
        BY <2>1, <2>2, <2>3 DEF Given
    <2>5. Len(Given(p)) = n
        BY <2>2, <2>4
    <2>6. ASSUME NEW k \in 1..n PROVE mir[ValueOf(args[k])].type # "none"
        <3>1. IsExpression(args[k])
            BY <1>1, <1>2, <1>3, <2>2, ChildrenAreExpressions DEF args
        <3>2. Typed(args[k])
            <4>1. args[k] \in Range(args)
                BY <2>2 DEF Range
            <4>2. Entry("read", args[k]) \in Awaited(p)
                BY <2>1, <4>1 DEF Awaited, args
            <4>3. Typed(Entry("read", args[k]).at)
                BY <1>1, <4>2 DEF CallFits
            <4> QED BY <4>3 DEF Entry
        <3>3. ValueOf(args[k]) \in DOMAIN mir
            <4>1. mir[p].kids[k] = ValueOf(args[k]) /\ DOMAIN mir[p].kids = 1..n
                BY <2>1, <2>2
            <4>2. \A s \in Seq(DOMAIN mir) : k \in DOMAIN s => s[k] \in DOMAIN mir
                OBVIOUS
            <4> QED BY <1>1, <4>1, <4>2
        <3> QED BY <1>2, <3>1, <3>2, <3>3, ValueOfTyped
    <2>7. \A k \in 1..n : Given(p)[k] # "none"
        BY <2>4, <2>6
    <2> QED BY <2>2, <2>5, <2>7 DEF args, n
<1> QED BY <1>4, <1>5

\* The caster of a plain module stops at no missing type, and throws only
\* where a call has too many arguments.
LEMMA PlainCasts ==
    ASSUME LoweringInv, LoweringTypes, Plain, VisitMir \/ CastArguments
    PROVE  /\ stage' # "crashed"
           /\ stage' = "uncaught" => \E p \in Expressions : TooManyArguments(p)
<1>1. stage = "casts" /\ work # <<>> /\ status = "resolved"
    BY DEF VisitMir, CastArguments, LoweringInv, Staged
<1>2. Item \in DOMAIN mir
    BY <1>1, AtCast
<1>3. CASE VisitMir
    <2>1. ~(mir[Item].op = "method" /\ mir[mir[Item].kids[1]].type = "none")
        BY <1>1, <1>2, MethodOwnerTyped
    <2>2. stage' = stage
        BY <1>3, <2>1 DEF VisitMir
    <2> QED BY <1>1, <2>2
<1>4. CASE CastArguments
    <2>1. Item \in DOMAIN targets /\ mir[Item].op \in {"call", "method"}
        <3>1. Head(work) \in ArgumentWork
            <4> DEFINE W == ArgumentWork
            <4>1. work \in Seq(W)
                BY <1>1 DEF LoweringTypes, CallsCast
            <4> HIDE DEF W
            <4>2. Head(work) \in W
                BY <1>1, <4>1, SeqEnds
            <4> QED BY <4>2 DEF W
        <3>2. Head(work).do = "arguments"
            BY <1>4 DEF CastArguments
        <3> QED BY <3>1, <3>2 DEF ArgumentWork, Item
    <2> DEFINE given == Given(Item)
               expected == targets[Item].params
               ends == CastLoop(given, expected).ends
    <2>2. /\ Len(given) \in Nat /\ Len(given) <= Len(Arguments(Item)) /\ Len(Arguments(Item)) \in Nat
          /\ \A k \in 1..Len(given) : given[k] # "none"
        BY <1>1, <1>2, <2>1, GivenTyped
    <2>3. Len(expected) \in Nat /\ Kind(Item) = "call" /\ IsExpression(Item)
        BY <1>1, <1>2, <2>1, CallOperands DEF CallFits, TargetIs
    <2>4. \/ ends \in {"crashed", "uncaught"} /\ stage' = ends
          \/ stage' = stage
        BY <1>4 DEF CastArguments, Fail
    <2>5. Item \in Expressions
        BY <2>3, AllExpressions DEF LoweringInv, ResolverInv
    <2> HIDE DEF given, expected, ends
    <2>6. ends # "crashed"
        BY <2>2, <2>3, CastLoopEnds DEF ends
    <2>7. ends = "uncaught" => Len(given) > Len(expected)
        BY <2>2, <2>3, CastLoopEnds DEF ends
    <2>8. ends = "uncaught" => TooManyArguments(Item)
        BY <2>2, <2>3, <2>7 DEF TooManyArguments, expected
    <2> QED BY <1>1, <2>4, <2>5, <2>6, <2>8
<1> QED BY <1>3, <1>4

\* A visit that finds the operands it pops pushes its value.
LEMMA Underflow ==
    ASSUME LoweringInv, stage = "mir", NEW n, Len(values) >= n, NEW op, NEW type,
           Combine(n, op, type), n \in Nat
    PROVE  stage' = "mir"
<1>1. Len(values) \in Nat
    <2>1. values \in Seq(DOMAIN mir)
        BY DEF LoweringInv, Built, MirTyped
    <2> QED BY <2>1
<1>2. ~(Len(values) < n)
    BY <1>1
<1> QED BY <1>2 DEF Combine, PushOn

\* The values of the children of a node are on the stack.
LEMMA ChildrenOnStack ==
    ASSUME LoweringInv, stage = "mir", Head(work).do = "leave", Plain,
           Kind(Item) \notin {"module", "fun", ".", "if", "block"}
    PROVE  Len(values) >= Len(Children(Item)) /\ Len(Children(Item)) \in Nat /\ Len(values) \in Nat
<1>1. Rooted /\ IsExpression(Item)
    BY AtWork
<1>2. Stack(Item) \in Seq(Seq(Nat)) /\ Values(Item) \in Seq(Seq(Nat))
      /\ Len(Values(Item)) = Len(Children(Item)) /\ Len(Children(Item)) \in Nat
    BY <1>1, StacksTyped, ValuesAre, ChildrenFrom DEF Values
<1>3. values = Stack(Item) \o Values(Item)
    BY OnTop
<1> DEFINE T == Seq(Nat)
           a == Stack(Item)
           b == Values(Item)
<1> HIDE DEF T, a, b
<1>4. a \in Seq(T) /\ b \in Seq(T) /\ values = a \o b
    BY <1>2, <1>3 DEF T, a, b
<1>5. Len(values) = Len(a) + Len(b) /\ Len(a) \in Nat /\ Len(b) \in Nat
    BY <1>4
<1> QED BY <1>2, <1>5 DEF b

\* A call finds its arguments, or its reference.
LEMMA CallOnStack ==
    ASSUME LoweringInv, stage = "mir", Head(work).do = "leave", Plain, Kind(Item) = "call",
           Item \in DOMAIN targets
    PROVE  Len(values) >= Taken(Item) /\ Taken(Item) \in Nat /\ Len(values) \in Nat
<1>1. Rooted /\ IsExpression(Item) /\ Children(Item) = Arguments(Item)
    BY AtWork DEF Children
<1>2. Len(values) >= Len(Children(Item)) /\ Len(Children(Item)) \in Nat /\ Len(values) \in Nat
    BY ChildrenOnStack
<1>3. CASE ~InDot(Item)
    BY <1>1, <1>2, <1>3 DEF Taken
<1>4. CASE InDot(Item)
    <2> DEFINE v == ValueOf(Kid(Parent(Item), 1))
               b == Base(Item)
    <2>1. Item # Kid(Parent(Item), 1)
        BY <1>4 DEF LoweringInv, MethodsApart
    <2>2. Arguments(Item) = <<>> /\ b \in Seq(Seq(Nat)) /\ Stack(Item) = Append(b, v)
        BY <1>1, <1>4, <2>1, PlainMethod
    <2>3. Taken(Item) = 1
        BY <1>4, <2>2 DEF Taken
    <2>4. values = Stack(Item) \o Values(Item)
        BY OnTop
    <2>5. Values(Item) \in Seq(Seq(Nat)) /\ Stack(Item) \in Seq(Seq(Nat))
        BY <1>1, StacksTyped, ValuesAre DEF Values
    <2> DEFINE T == Seq(Nat)
               s == Stack(Item)
               w == Values(Item)
    <2> HIDE DEF T, b, v, s, w
    <2>6. Len(s) >= 1 /\ Len(s) \in Nat
        <3>1. b \in Seq(T) /\ s = Append(b, v) /\ s \in Seq(T)
            BY <2>2, <2>5 DEF s, T
        <3>2. Len(s) = Len(b) + 1 /\ Len(b) \in Nat
            BY <3>1
        <3> QED BY <3>2
    <2>7. Len(values) = Len(s) + Len(w) /\ Len(w) \in Nat
        <3>1. w \in Seq(T) /\ s \in Seq(T) /\ values = s \o w
            BY <2>4, <2>5 DEF s, w, T
        <3> QED BY <3>1
    <2> QED BY <1>2, <2>3, <2>6, <2>7
<1> QED BY <1>3, <1>4

\* The traversal of a plain module crashes at a ccall without a type only.
LEMMA PlainVisits ==
    ASSUME LoweringInv, LoweringTypes, Plain, LoweringWork, stage = "mir"
    PROVE  \/ stage' \in {"mir", "casts"}
           \/ stage' = "crashed" /\ \E p \in Expressions : CWithoutType(p)
<1>1. /\ status = "resolved" /\ IsExpression(Item) /\ Rooted /\ MirTyped
      /\ Len(values) \in Nat /\ values \in Seq(DOMAIN mir)
    <2>1. MirTyped
        BY AtWork
    <2>2. values \in Seq(DOMAIN mir)
        BY <2>1 DEF MirTyped
    <2>3. Len(values) \in Nat
        BY <2>2
    <2> QED BY AtWork, <2>1, <2>2, <2>3
<1>2. /\ Kind(Item) \in Names => Typed(Item)
      /\ Kind(Item) = "call" => Item \in DOMAIN targets
      /\ Item \in Expressions
    BY <1>1, PlainReady
<1>3. \A op, type : Combine(0, op, type) => stage' = "mir"
    BY <1>1, Underflow
<1>4. LowerLeaf => stage' = "mir"
    BY <1>3 DEF LowerLeaf
<1>5. LowerLocal => stage' = "mir"
    BY <1>2, <1>3 DEF LowerLocal, Lowers
<1>6. ASSUME KeepValue PROVE stage' = "mir"
    <2>1. Head(work).do = "keep"
        BY <1>6 DEF KeepValue
    <2>2. values = Append(Stack(Item), ValueOf(Item))
        BY <2>1, AtKeep
    <2>3. Stack(Item) \in Seq(Seq(Nat)) /\ ValueOf(Item) \in Seq(Nat)
        BY <1>1, StacksTyped, ValuesAre
    <2> DEFINE s == Stack(Item)
               v == ValueOf(Item)
    <2> HIDE DEF s, v
    <2>4. Len(Append(s, v)) = Len(s) + 1 /\ Len(s) \in Nat
        BY <2>3 DEF s, v
    <2>5. values # <<>>
        BY <2>2, <2>4 DEF s, v
    <2> QED BY <1>6, <2>5 DEF KeepValue
<1>7. ASSUME LowerBinExpr PROVE stage' = "mir"
    <2>1. Head(work).do = "leave" /\ Kind(Item) \in DOMAIN MirOp
        BY <1>7 DEF LowerBinExpr, Lowers
    <2>2. /\ Kind(Item) \notin {"module", "fun", "static", "body", ".", "if", "block", "ret", "call"}
          /\ Kind(Item) \in BinOps \ {"!"}
        BY <2>1, MirOps
    <2>3. Len(Children(Item)) = 2
        <3>1. Len(Children(Item)) = Len(At(Item).kids) /\ Len(At(Item).kids) \in Arity(Kind(Item))
            BY <1>1, <2>2, ArityIs
        <3>2. Arity(Kind(Item)) = {1, 2}
            BY <2>2, AritiesAre
        <3>3. Len(At(Item).kids) # 1
            BY <1>1, <2>2, NoNullLeft DEF NullLeft, LoweringInv
        <3> QED BY <3>1, <3>2, <3>3
    <2>4. Len(values) >= 2
        BY <2>1, <2>2, <2>3, ChildrenOnStack
    <2> DEFINE op == MirOp[Kind(Item)]
               type == MirType[Kind(Item)]
    <2>5. Combine(2, op, type)
        BY <1>7 DEF LowerBinExpr
    <2> HIDE DEF op, type
    <2> QED BY <2>4, <2>5, Underflow
<1>8. ASSUME LowerReturn PROVE stage' = "mir"
    <2>1. Head(work).do = "leave" /\ Kind(Item) = "ret"
        BY <1>8 DEF LowerReturn, Lowers
    <2>2. Len(Children(Item)) = 1
        BY <1>1, <2>1, ArityIs, AritiesAre
    <2>3. Len(values) >= 1
        BY <2>1, <2>2, ChildrenOnStack
    <2>4. values # <<>>
        BY <2>3
    <2> DEFINE type == mir[Last(values)].type
    <2>5. Combine(1, "ret", type)
        BY <1>8, <2>4 DEF LowerReturn
    <2> HIDE DEF type
    <2> QED BY <2>3, <2>5, Underflow
<1>9. ASSUME LowerCall
      PROVE  stage' = "mir" \/ (stage' = "crashed" /\ \E p \in Expressions : CWithoutType(p))
    <2> DEFINE n == Taken(Item)
               args == LastOfStack(values, n)
               isC == CallName(Item) = "ccall" /\ ~InDot(Item)
               bad == \/ Len(values) < n
                      \/ Item \notin DOMAIN targets
                      \/ isC /\ (args = <<>> \/ TypeVariables(Item) = <<>>)
    <2>1. Head(work).do = "leave" /\ Kind(Item) = "call" /\ Item \in DOMAIN targets
        BY <1>2, <1>9 DEF LowerCall, Lowers
    <2>2. Len(values) >= n /\ n \in Nat
        BY <2>1, CallOnStack
    <2>3. \/ bad /\ Fail("crashed")
          \/ ~bad /\ stage' = "mir"
        BY <1>9 DEF LowerCall, Taken, Combine, PushOn
    <2>4. isC => args # <<>>
        <3> SUFFICES ASSUME isC PROVE args # <<>>
            OBVIOUS
        <3>1. args = ValuesOf(Arguments(Item))
            BY <2>1, CallTakes
        <3>2. CallFits(Item, targets[Item])
            BY <2>1 DEF LoweringTypes, CallsInv, CallsFit
        <3>3. Arguments(Item) # <<>>
            BY <3>2 DEF CallFits
        <3>4. Arguments(Item) \in Seq(Seq(Nat))
            BY <1>1, <2>1, CallIs, ChildrenAreKids
        <3> DEFINE as == Arguments(Item)
        <3> HIDE DEF as, args
        <3>5. 1 \in DOMAIN as
            BY <3>3, <3>4 DEF as
        <3>6. DOMAIN ValuesOf(as) = DOMAIN as
            BY DEF ValuesOf
        <3>7. DOMAIN <<>> = {}
            OBVIOUS
        <3> QED BY <3>1, <3>5, <3>6, <3>7 DEF as
    <2>5. bad => CWithoutType(Item)
        <3>1. ~(Len(values) < n)
            BY <1>1, <2>2
        <3> HIDE DEF n, args
        <3> QED BY <2>1, <2>4, <3>1 DEF CWithoutType
    <2> HIDE DEF bad
    <2> QED BY <1>2, <2>3, <2>5 DEF Fail
<1>10. LowerChildren \/ LowerIf \/ LowerBlock \/ LowerOther \/ LowerFunction \/ LowerStatic
           => stage' = "mir"
    BY DEF LowerChildren, LowerIf, LowerBlock, LowerOther, LowerFunction, LowerStatic,
           EndFunctionWith, PushOn
<1>11. LowerModule => stage' = "casts"
    BY DEF LowerModule
<1>12. ~VisitMir /\ ~CastArguments /\ ~FinishLowering
    BY DEF VisitMir, CastArguments, FinishLowering
<1> QED BY <1>4, <1>5, <1>6, <1>7, <1>8, <1>9, <1>10, <1>11, <1>12 DEF LoweringWork

\* What stops the lowering does not change.
LEMMA SameStops ==
    ASSUME program' = program, targets' = targets
    PROVE  /\ (\E p \in Expressions : CWithoutType(p)) => \E p \in Expressions' : CWithoutType(p)'
           /\ (\E p \in Expressions : TooManyArguments(p))
                  => \E p \in Expressions' : TooManyArguments(p)'
<1>1. \A p : /\ Kind(p)' = Kind(p) /\ At(p)' = At(p) /\ CallName(p)' = CallName(p)
             /\ Arguments(p)' = Arguments(p)
    BY SameTree, SameCalls
<1>2. \A p : TypeVariables(p)' = TypeVariables(p)
    BY <1>1 DEF TypeVariables, Kid
<1>3. Expressions' = Expressions
    BY DEF Expressions, At, Kid
<1>4. \A p : CWithoutType(p) => CWithoutType(p)'
    BY <1>1, <1>2 DEF CWithoutType
<1>5. \A p : TooManyArguments(p) => TooManyArguments(p)'
    BY <1>1 DEF TooManyArguments
<1> QED BY <1>3, <1>4, <1>5

LEMMA PlainIsLoweredStep ==
    ASSUME LoweringInv, LoweringTypes, PlainIsLowered, [LoweringNext]_backendVars
    PROVE  PlainIsLowered'
<1> DEFINE C == \E p \in Expressions : CWithoutType(p)
           M == \E p \in Expressions : TooManyArguments(p)
<1>1. CASE Resolve \/ StartLowering
    <2>1. stage' \notin {"crashed", "uncaught"}
        <3>1. CASE StartLowering
            BY <3>1 DEF StartLowering
        <3>2. CASE Resolve
            <4>1. stage' = stage /\ status = "running"
                BY <3>2, ResolverStep DEF Resolve, loweringVars
            <4>2. stage = "waiting"
                BY <4>1 DEF LoweringInv, Staged
            <4> QED BY <4>1, <4>2
        <3> QED BY <1>1, <3>1, <3>2
    <2> QED BY <2>1 DEF PlainIsLowered
<1>2. CASE UNCHANGED backendVars \/ LoweringWork
    <2>1. program' = program /\ targets' = targets
        BY <1>2, LoweringStep DEF backendVars, resolverVars
    <2>2. Plain' = Plain
        BY <2>1, SameTree
    <2>3. (C => C') /\ (M => M')
        BY <2>1, SameStops
    <2>4. Plain => (stage' = "crashed" => C) /\ (stage' = "uncaught" => M)
        <3>1. CASE UNCHANGED backendVars
            BY <3>1 DEF PlainIsLowered, backendVars, loweringVars
        <3>2. CASE LoweringWork
            <4> SUFFICES ASSUME Plain
                         PROVE  (stage' = "crashed" => C) /\ (stage' = "uncaught" => M)
                OBVIOUS
            <4>1. CASE stage = "mir"
                BY <3>2, <4>1, PlainVisits
            <4>2. CASE stage = "casts"
                <5>1. VisitMir \/ CastArguments \/ FinishLowering
                    BY <3>2, <4>2 DEF LoweringWork, LowerLeaf, LowerLocal, LowerChildren, KeepValue,
                       LowerBinExpr, LowerReturn, LowerCall, LowerIf, LowerBlock, LowerOther,
                       LowerFunction, LowerStatic, LowerModule, Lowers
                <5>2. FinishLowering => stage' = "lowered"
                    BY DEF FinishLowering
                <5> QED BY <5>1, <5>2, PlainCasts
            <4> QED BY <3>2, <4>1, <4>2, LoweringStep
        <3> QED BY <1>2, <3>1, <3>2
    <2> HIDE DEF C, M
    <2>5. Plain' => (stage' = "crashed" => C') /\ (stage' = "uncaught" => M')
        BY <2>2, <2>3, <2>4
    <2> QED BY <2>5 DEF PlainIsLowered, C, M
<1> QED BY <1>1, <1>2 DEF LoweringNext, LoweringWork

(***************************************************************************)
(* A plain module that resolves is lowered, unless a call has more         *)
(* arguments than its target has parameters or a ccall has no type: no     *)
(* stack is popped when empty and no missing context is read               *)
(* (MIR.cpp 123-164, 487-525).                                             *)
(***************************************************************************)
THEOREM PlainLowered == LoweringSpec => []PlainIsLowered
<1>1. LoweringInit => LoweringInv /\ LoweringTypes /\ PlainIsLowered
    <2>1. LoweringInit => PlainIsLowered
        BY DEF LoweringInit, PlainIsLowered
    <2> QED BY <2>1, LoweringStarts, LoweringTypesStart
<1>2. LoweringInv /\ LoweringTypes /\ PlainIsLowered /\ [LoweringNext]_backendVars
          => LoweringInv' /\ LoweringTypes' /\ PlainIsLowered'
    BY LoweringInductive, LoweringTypesStep, PlainIsLoweredStep
<1> QED BY <1>1, <1>2, PTL DEF LoweringSpec
=============================================================================
