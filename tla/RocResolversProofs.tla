------------------------- MODULE RocResolversProofs -------------------------
(***************************************************************************)
(* Proofs about RocResolvers, for every set of modules: what the passes    *)
(* visit, and that a module they accept has what the lowering reads of it. *)
(***************************************************************************)
EXTENDS RocResolvers, SetInduction

-----------------------------------------------------------------------------
(* Paths.                                                                   *)

Walk(g, p) == g = [k \in 0..Len(p) |-> IF k = 0 THEN program ELSE g[k - 1].kids[p[k]]]

\* At satisfies its equation.
LEMMA WalkExists ==
    ASSUME NEW p \in Seq(Nat)
    PROVE  \E g : Walk(g, p)
<1> DEFINE n == Len(p)
           W(m, g) == g = [k \in 0..m |-> IF k = 0 THEN program ELSE g[k - 1].kids[p[k]]]
           T == {m \in 0..n : \E g : W(m, g)}
<1>1. n \in Nat
    OBVIOUS
<1>2. 0 \in T
    <2> DEFINE g == [k \in 0..0 |-> IF k = 0 THEN program ELSE program]
    <2>1. \A k \in 0..0 : k = 0 /\ g[k] = program
        OBVIOUS
    <2>2. g = [k \in 0..0 |-> g[k]]
        OBVIOUS
    <2> HIDE DEF g
    <2>3. W(0, g)
        BY <2>1, <2>2
    <2>4. 0 \in 0..n
        BY <1>1
    <2> QED BY <2>3, <2>4
<1>3. ASSUME NEW m \in 0..n, m \in T, m < n PROVE m + 1 \in T
    <2>1. PICK g : W(m, g)
        BY <1>3
    <2> DEFINE h == [k \in 0..(m + 1) |-> IF k = m + 1 THEN g[m].kids[p[m + 1]] ELSE g[k]]
    <2>2. \A k \in 0..m : h[k] = g[k] /\ k # m + 1
        BY <1>1
    <2>3. h[m + 1] = g[m].kids[p[m + 1]]
        OBVIOUS
    <2>4. h = [k \in 0..(m + 1) |-> h[k]]
        OBVIOUS
    <2> HIDE DEF h
    <2>5. ASSUME NEW k \in 0..(m + 1)
          PROVE  h[k] = IF k = 0 THEN program ELSE h[k - 1].kids[p[k]]
        <3>1. CASE k = 0
            BY <3>1, <2>1, <2>2
        <3>2. CASE k \in 1..m
            <4>1. k \in 0..m /\ k - 1 \in 0..m /\ k # 0
                BY <3>2
            <4>2. g[k] = g[k - 1].kids[p[k]]
                BY <4>1, <2>1
            <4> QED BY <4>1, <4>2, <2>2
        <3>3. CASE k = m + 1
            <4>1. k - 1 = m /\ m \in 0..m /\ k # 0
                BY <3>3
            <4> QED BY <4>1, <3>3, <2>2, <2>3
        <3> QED BY <3>1, <3>2, <3>3
    <2>6. W(m + 1, h)
        BY <2>4, <2>5
    <2>7. m + 1 \in 0..n
        BY <1>1, <1>3
    <2> QED BY <2>6, <2>7
<1> HIDE DEF T
<1>4. 0..n \subseteq T
    BY <1>1, <1>2, <1>3, UpToInduction
<1>5. n \in T
    BY <1>1, <1>4
<1> QED BY <1>5 DEF T, Walk

LEMMA AtWalk ==
    ASSUME NEW p \in Seq(Nat)
    PROVE  \E g : Walk(g, p) /\ At(p) = g[Len(p)]
<1> DEFINE at == CHOOSE g : Walk(g, p)
<1>1. Walk(at, p)
    BY WalkExists
<1>2. At(p) = at[Len(p)]
    BY DEF At, Walk
<1> QED BY <1>1, <1>2

\* Two walks agree on the path they share.
LEMMA SameWalk ==
    ASSUME NEW p \in Seq(Nat), NEW q \in Seq(Nat), NEW g, NEW h, Walk(g, p), Walk(h, q),
           Len(p) <= Len(q), \A k \in 1..Len(p) : p[k] = q[k]
    PROVE  g[Len(p)] = h[Len(p)]
<1> DEFINE n == Len(p)
           T == {m \in 0..n : g[m] = h[m]}
<1>1. n \in Nat /\ Len(q) \in Nat /\ n <= Len(q)
    OBVIOUS
<1>2. \A k \in 0..n : g[k] = IF k = 0 THEN program ELSE g[k - 1].kids[p[k]]
    BY DEF Walk
<1>3. \A k \in 0..n : h[k] = IF k = 0 THEN program ELSE h[k - 1].kids[q[k]]
    <2>1. \A k \in 0..Len(q) : h[k] = IF k = 0 THEN program ELSE h[k - 1].kids[q[k]]
        BY DEF Walk
    <2>2. 0..n \subseteq 0..Len(q)
        BY <1>1
    <2> QED BY <2>1, <2>2
<1>4. 0 \in T
    BY <1>1, <1>2, <1>3
<1>5. ASSUME NEW m \in 0..n, m \in T, m < n PROVE m + 1 \in T
    <2>1. m + 1 \in 0..n /\ m + 1 # 0 /\ (m + 1) - 1 = m /\ m + 1 \in 1..n
        BY <1>1, <1>5
    <2>2. g[m + 1] = g[m].kids[p[m + 1]] /\ h[m + 1] = h[m].kids[q[m + 1]]
        BY <2>1, <1>2, <1>3
    <2> QED BY <1>5, <2>1, <2>2
<1> HIDE DEF T
<1>6. 0..n \subseteq T
    BY <1>1, <1>4, <1>5, UpToInduction
<1>7. n \in 0..n
    BY <1>1
<1> QED BY <1>6, <1>7 DEF T

LEMMA AtModule == At(<<>>) = program
<1>1. <<>> \in Seq(Nat) /\ Len(<<>>) = 0
    OBVIOUS
<1>2. PICK g : Walk(g, <<>>) /\ At(<<>>) = g[Len(<<>>)]
    BY <1>1, AtWalk
<1> QED BY <1>1, <1>2 DEF Walk

\* What stands at a kid's path is that kid.
LEMMA AtKid ==
    ASSUME NEW p \in Seq(Nat), NEW k \in Nat
    PROVE  Kid(p, k) \in Seq(Nat) /\ At(Kid(p, k)) = At(p).kids[k]
<1> DEFINE q == Kid(p, k)
<1>1. q \in Seq(Nat) /\ Len(q) = Len(p) + 1 /\ Len(p) \in Nat /\ q[Len(p) + 1] = k
      /\ \A i \in 1..Len(p) : p[i] = q[i]
    BY DEF Kid
<1> HIDE DEF q
<1>2. PICK g : Walk(g, p) /\ At(p) = g[Len(p)]
    BY AtWalk
<1>3. PICK h : Walk(h, q) /\ At(q) = h[Len(q)]
    BY <1>1, AtWalk
<1>4. g[Len(p)] = h[Len(p)]
    BY <1>1, <1>2, <1>3, SameWalk
<1>5. Len(q) \in 0..Len(q) /\ Len(q) # 0 /\ Len(q) - 1 = Len(p)
    BY <1>1
<1>6. h[Len(q)] = h[Len(p)].kids[q[Len(q)]]
    BY <1>3, <1>5 DEF Walk
<1>7. At(q) = At(p).kids[k]
    BY <1>1, <1>2, <1>3, <1>4, <1>6
<1> QED BY <1>1, <1>7 DEF q

-----------------------------------------------------------------------------
(* Expressions.                                                             *)

Tree(h, t) ==
    IF h = 0 THEN {}
    ELSE {n \in [op : STRING, kids : Seq(t[h - 1])] :
             /\ Len(n.kids) \in Arity(n.op)
             /\ \A k \in ExpressionKids(n) : MayHold(n.op, n.kids[k].op)}

LEMMA TreesExist == TreeUpTo = [h \in 0..Height |-> Tree(h, TreeUpTo)]
<1> DEFINE W(m, g) == g = [k \in 0..m |-> Tree(k, g)]
           T == {m \in 0..Height : \E g : W(m, g)}
<1>1. Height \in Nat
    BY HeightAssumption
<1>2. 0 \in T
    <2> DEFINE g == [k \in 0..0 |-> {}]
    <2>1. \A k \in 0..0 : k = 0 /\ g[k] = {}
        OBVIOUS
    <2>2. g = [k \in 0..0 |-> g[k]]
        OBVIOUS
    <2> HIDE DEF g
    <2>3. \A k \in 0..0 : g[k] = Tree(k, g)
        BY <2>1 DEF Tree
    <2>4. W(0, g)
        BY <2>2, <2>3
    <2>5. 0 \in 0..Height
        BY <1>1
    <2> QED BY <2>4, <2>5
<1>3. ASSUME NEW m \in 0..Height, m \in T, m < Height PROVE m + 1 \in T
    <2>1. PICK g : W(m, g)
        BY <1>3
    <2> DEFINE h == [k \in 0..(m + 1) |-> IF k = m + 1 THEN Tree(m + 1, g) ELSE g[k]]
    <2>2. \A k \in 0..m : h[k] = g[k] /\ k # m + 1
        BY <1>1
    <2>3. h[m + 1] = Tree(m + 1, g)
        OBVIOUS
    <2>4. h = [k \in 0..(m + 1) |-> h[k]]
        OBVIOUS
    <2> HIDE DEF h
    <2>5. \A k \in 0..(m + 1) : k # 0 => h[k - 1] = g[k - 1]
        BY <2>2
    <2>6. \A k \in 0..(m + 1) : Tree(k, h) = Tree(k, g)
        BY <2>5 DEF Tree
    <2>7. \A k \in 0..m : g[k] = Tree(k, g)
        BY <2>1
    <2>8. ASSUME NEW k \in 0..(m + 1) PROVE h[k] = Tree(k, h)
        <3>1. k \in 0..m \/ k = m + 1
            OBVIOUS
        <3>2. CASE k \in 0..m
            BY <3>2, <2>2, <2>6, <2>7
        <3>3. CASE k = m + 1
            BY <3>3, <2>3, <2>6
        <3> QED BY <3>1, <3>2, <3>3
    <2>9. W(m + 1, h)
        BY <2>4, <2>8
    <2>10. m + 1 \in 0..Height
        BY <1>1, <1>3
    <2> QED BY <2>9, <2>10
<1> HIDE DEF T
<1>4. 0..Height \subseteq T
    BY <1>1, <1>2, <1>3, UpToInduction
<1>5. Height \in T
    BY <1>1, <1>4
<1>6. PICK g : W(Height, g)
    BY <1>5 DEF T
<1> QED BY <1>6 DEF TreeUpTo, Tree

\* A node of a tree.
Nodes == UNION {TreeUpTo[h] : h \in 0..Height}

\* The children of a node are nodes.
LEMMA NodesAre ==
    ASSUME NEW n \in Nodes
    PROVE  /\ n.kids \in Seq(Nodes) /\ n.op \in STRING
           /\ n.op = "fun" => Len(n.kids) = 4
           /\ n.op \in {"call", "if"} => Len(n.kids) >= 1
           /\ Len(n.kids) \in Arity(n.op)
           /\ \A k \in ExpressionKids(n) : MayHold(n.op, n.kids[k].op)
<1>1. PICK h \in 0..Height : n \in TreeUpTo[h]
    BY DEF Nodes
<1>2. n \in Tree(h, TreeUpTo)
    BY <1>1, TreesExist
<1>3. /\ h # 0 /\ n.kids \in Seq(TreeUpTo[h - 1]) /\ n.op \in STRING
      /\ Len(n.kids) \in Arity(n.op)
      /\ \A k \in ExpressionKids(n) : MayHold(n.op, n.kids[k].op)
    BY <1>2 DEF Tree
<1>4. h - 1 \in 0..Height
    BY <1>3, HeightAssumption
<1>5. TreeUpTo[h - 1] \subseteq Nodes
    BY <1>4 DEF Nodes
<1>6. n.kids \in Seq(Nodes)
    BY <1>3, <1>5
<1>7. n.op = "fun" => Arity(n.op) = {4}
    BY DEF Arity, BinOps
<1>8. n.op = "call" => Arity(n.op) = Nat \ {0}
    BY DEF Arity, BinOps
<1>9. n.op = "if" => Arity(n.op) = {2, 3}
    BY DEF Arity, BinOps
<1>10. n.op = "fun" => Len(n.kids) = 4
    BY <1>3, <1>7
<1>11. Len(n.kids) \in Nat
    BY <1>6
<1>12. n.op = "call" => Len(n.kids) >= 1
    BY <1>3, <1>8, <1>11
<1>13. n.op = "if" => Len(n.kids) >= 1
    BY <1>3, <1>9, <1>11
<1>14. n.op \in {"call", "if"} => Len(n.kids) >= 1
    BY <1>12, <1>13
<1> QED BY <1>3, <1>6, <1>10, <1>14, Zenon

Rooted == program \in {Program(m) : m \in Programs}

LEMMA RootNode == Rooted => At(<<>>) \in Nodes
<1>1. Height \in 0..Height
    BY HeightAssumption
<1> QED BY <1>1, AtModule, ProgramsAssumption DEF Rooted, IsModule, Nodes

\* The children that are expressions are nodes.
LEMMA KidNodes ==
    ASSUME NEW n \in Nodes, NEW i \in ExpressionKids(n)
    PROVE  i \in Nat /\ i \in 1..Len(n.kids) /\ Len(n.kids) \in Nat /\ n.kids[i] \in Nodes
<1>1. n.kids \in Seq(Nodes) /\ (n.op = "fun" => Len(n.kids) = 4)
    BY NodesAre
<1>2. Len(n.kids) \in Nat /\ \A k \in 1..Len(n.kids) : n.kids[k] \in Nodes
    BY <1>1
<1>3. (i \in {4} /\ n.op = "fun") \/ i \in 2..Len(n.kids) \/ i \in 1..Len(n.kids)
    BY DEF ExpressionKids
<1>4. i \in 1..Len(n.kids)
    <2>1. CASE i = 4 /\ n.op = "fun"
        <3>1. Len(n.kids) = 4 /\ 4 \in 1..4
            BY <2>1, <1>1
        <3> QED BY <2>1, <3>1
    <2>2. CASE i \in 2..Len(n.kids)
        BY <2>2, <1>2
    <2> QED BY <2>1, <2>2, <1>3
<1> QED BY <1>2, <1>4

\* The path to a child, and the path above.
LEMMA KidOf ==
    ASSUME NEW p \in Seq(Nat), NEW k \in 1..Len(p)
    PROVE  /\ SubSeq(p, 1, k) = Kid(SubSeq(p, 1, k - 1), p[k])
           /\ SubSeq(p, 1, k - 1) \in Seq(Nat) /\ Len(SubSeq(p, 1, k - 1)) = k - 1
           /\ SubSeq(p, 1, k) \in Seq(Nat) /\ Len(SubSeq(p, 1, k)) = k
           /\ p[k] \in Nat /\ k \in Nat
BY DEF Kid

LEMMA PathIsItsOwn ==
    ASSUME NEW p \in Seq(Nat)
    PROVE  SubSeq(p, 1, Len(p)) = p /\ SubSeq(p, 1, 0) = <<>> /\ Len(p) \in Nat
OBVIOUS

\* Every node on the way to an expression is a node of the module.
LEMMA ExpressionNodes ==
    ASSUME Rooted, NEW p, IsExpression(p), NEW k \in 0..Len(p)
    PROVE  At(SubSeq(p, 1, k)) \in Nodes
<1> DEFINE n == Len(p)
           T == {m \in 0..n : At(SubSeq(p, 1, m)) \in Nodes}
<1>1. p \in Seq(Nat) /\ n \in Nat
    BY DEF IsExpression
<1>2. 0 \in T
    <2>1. At(SubSeq(p, 1, 0)) \in Nodes
        BY <1>1, PathIsItsOwn, RootNode
    <2>2. 0 \in 0..n
        BY <1>1
    <2> QED BY <2>1, <2>2
<1>3. ASSUME NEW m \in 0..n, m \in T, m < n PROVE m + 1 \in T
    <2>1. m + 1 \in 1..Len(p) /\ (m + 1) - 1 = m /\ m + 1 \in 0..n
        BY <1>1, <1>3
    <2>2. SubSeq(p, 1, m + 1) = Kid(SubSeq(p, 1, m), p[m + 1]) /\ SubSeq(p, 1, m) \in Seq(Nat)
          /\ p[m + 1] \in Nat
        BY <1>1, <2>1, KidOf
    <2>3. p[m + 1] \in ExpressionKids(At(SubSeq(p, 1, m)))
        BY <2>1 DEF IsExpression
    <2>4. At(SubSeq(p, 1, m + 1)) = At(SubSeq(p, 1, m)).kids[p[m + 1]]
        BY <2>2, AtKid
    <2>5. At(SubSeq(p, 1, m)) \in Nodes
        BY <1>3
    <2> QED BY <2>1, <2>3, <2>4, <2>5, KidNodes
<1> HIDE DEF T
<1>4. 0..n \subseteq T
    BY <1>1, <1>2, <1>3, UpToInduction
<1> QED BY <1>4 DEF T

LEMMA ExpressionNode ==
    ASSUME Rooted, NEW p, IsExpression(p)
    PROVE  p \in Seq(Nat) /\ At(p) \in Nodes
<1>1. p \in Seq(Nat) /\ Len(p) \in Nat
    BY DEF IsExpression
<1>2. Len(p) \in 0..Len(p) /\ SubSeq(p, 1, Len(p)) = p
    BY <1>1
<1> QED BY <1>1, <1>2, ExpressionNodes

LEMMA ModuleIsExpression == IsExpression(<<>>)
BY DEF IsExpression

\* A child that is an expression is one in the module too.
LEMMA KidIsExpression ==
    ASSUME Rooted, NEW p, IsExpression(p), NEW i \in ExpressionKids(At(p))
    PROVE  IsExpression(Kid(p, i)) /\ Len(Kid(p, i)) = Len(p) + 1 /\ i \in Nat
<1> DEFINE q == Kid(p, i)
<1>1. p \in Seq(Nat) /\ i \in Nat /\ Len(p) \in Nat
    BY ExpressionNode, KidNodes
<1>2. q \in Seq(Nat) /\ Len(q) = Len(p) + 1 /\ q[Len(p) + 1] = i
      /\ \A k \in 1..Len(p) : q[k] = p[k]
    BY <1>1 DEF Kid
<1>3. \A k \in 1..(Len(p) + 1) : SubSeq(q, 1, k - 1) = SubSeq(p, 1, k - 1)
    BY <1>1 DEF Kid
<1>4. SubSeq(p, 1, (Len(p) + 1) - 1) = p
    BY <1>1
<1> HIDE DEF q
<1>5. ASSUME NEW k \in 1..Len(q) PROVE q[k] \in ExpressionKids(At(SubSeq(q, 1, k - 1)))
    <2>1. CASE k \in 1..Len(p)
        BY <2>1, <1>1, <1>2, <1>3 DEF IsExpression
    <2>2. CASE k = Len(p) + 1
        BY <2>2, <1>1, <1>2, <1>3, <1>4
    <2> QED BY <2>1, <2>2, <1>1, <1>2
<1> QED BY <1>1, <1>2, <1>5 DEF q, IsExpression

Above(q, p) == q \in Seq(Nat) /\ Len(q) <= Len(p) /\ q = SubSeq(p, 1, Len(q))

\* The visits of an expression's children lead to all that is below it.
LEMMA ChildrenCover ==
    ASSUME Rooted, NEW p, IsExpression(p), NEW q, Above(q, p)
    PROVE  q = p \/ \E c \in DOMAIN Children(q) : Above(Children(q)[c], p)
<1> SUFFICES ASSUME q # p PROVE \E c \in DOMAIN Children(q) : Above(Children(q)[c], p)
    OBVIOUS
<1>1. p \in Seq(Nat) /\ q \in Seq(Nat) /\ Len(p) \in Nat /\ Len(q) \in Nat /\ Len(q) <= Len(p)
      /\ q = SubSeq(p, 1, Len(q))
    BY DEF IsExpression, Above
<1>2. Len(q) # Len(p)
    BY <1>1
<1> DEFINE n == Len(q) + 1
           i == p[n]
<1>3. n \in 1..Len(p) /\ n - 1 = Len(q)
    BY <1>1, <1>2
<1>4. i \in ExpressionKids(At(q))
    BY <1>1, <1>3 DEF IsExpression
<1>5. At(q) \in Nodes
    <2>1. Len(q) \in 0..Len(p)
        BY <1>1
    <2> QED BY <2>1, <1>1, ExpressionNodes
<1>6. SubSeq(p, 1, n) = Kid(SubSeq(p, 1, n - 1), i) /\ Len(SubSeq(p, 1, n)) = n
      /\ SubSeq(p, 1, n) \in Seq(Nat)
    BY <1>1, <1>3, KidOf
<1>6a. SubSeq(p, 1, n - 1) = q
    BY <1>1, <1>3
<1>6b. Kid(q, i) = SubSeq(p, 1, n) /\ Len(Kid(q, i)) = n /\ Kid(q, i) \in Seq(Nat)
    BY <1>6, <1>6a
<1>6c. n <= Len(p)
    BY <1>1, <1>3
<1> HIDE DEF i, n
<1>7. Above(Kid(q, i), p)
    BY <1>6b, <1>6c DEF Above
<1> USE DEF i, n
<1>8. Len(At(q).kids) \in Nat /\ i \in 1..Len(At(q).kids)
    BY <1>4, <1>5, KidNodes
<1> HIDE DEF i, n
<1>9. \E c \in DOMAIN Children(q) : Children(q)[c] = Kid(q, i)
    <2>1. CASE Kind(q) = "fun"
        <3>1. i = 4
            BY <2>1, <1>4 DEF ExpressionKids, Kind
        <3>2. Children(q) = <<Kid(q, 4)>>
            BY <2>1 DEF Children, Body
        <3> QED BY <3>1, <3>2
    <2>2. CASE Kind(q) = "call"
        <3>1. i \in 2..Len(At(q).kids)
            BY <2>2, <1>4 DEF ExpressionKids, Kind
        <3>2. Children(q) = [k \in 1..(Len(At(q).kids) - 2 + 1) |-> Kid(q, 2 + k - 1)]
            BY <2>2 DEF Children, Arguments, Kids
        <3>3. i - 1 \in 1..(Len(At(q).kids) - 2 + 1) /\ 2 + (i - 1) - 1 = i
            BY <3>1, <1>8
        <3> QED BY <3>2, <3>3
    <2>3. CASE Kind(q) # "fun" /\ Kind(q) # "call"
        <3>1. Kind(q) \notin Names \union Numbers \union {"string"}
            BY <2>3, <1>4 DEF ExpressionKids, Kind
        <3>2. Children(q) = [k \in 1..(Len(At(q).kids) - 1 + 1) |-> Kid(q, 1 + k - 1)]
            BY <2>3, <3>1 DEF Children, Kids
        <3>3. i \in 1..(Len(At(q).kids) - 1 + 1) /\ 1 + i - 1 = i
            BY <1>8
        <3> QED BY <3>2, <3>3
    <2> QED BY <2>1, <2>2, <2>3
<1> QED BY <1>7, <1>9

\* The expressions right below those of S.
Below(S) == UNION {{Kid(q, i) : i \in ExpressionKids(At(q))} : q \in S}

IsLevels(g) == g = [k \in 0..Height |-> IF k = 0 THEN {<<>>} ELSE Below(g[k - 1])]

\* Expressions is gathered level by level.
LEMMA Levels ==
    ASSUME Rooted
    PROVE  \E g : IsLevels(g) /\ Expressions = UNION {g[k] : k \in 0..Height}
<1> DEFINE E == {q \in Seq(Nat) : IsExpression(q)}
           F == [x \in (1..Height) \X (SUBSET E) |-> Below(x[2])]
           b == {<<>>}
           U == SUBSET E
<1>1. Height \in Nat
    BY HeightAssumption
<1>2. \A S \in SUBSET E : Below(S) \in SUBSET E
    <2> SUFFICES ASSUME NEW S \in SUBSET E, NEW q \in S, NEW i \in ExpressionKids(At(q))
                 PROVE  Kid(q, i) \in E
        BY DEF Below
    <2>1. IsExpression(Kid(q, i))
        BY KidIsExpression
    <2> QED BY <2>1 DEF IsExpression
<1>3. F \in [(1..Height) \X U -> U] /\ b \in U
    BY <1>2, ModuleIsExpression
<1>4. \A k \in 1..Height : \A S \in SUBSET E : F[<<k, S>>] = Below(S)
    OBVIOUS
<1> HIDE DEF F, b, U
<1>5. PICK f \in [0..Height -> U] : Follows(f, Height, b, F)
    BY <1>1, <1>3, FunctionBySteps
<1> USE DEF U
<1>6. f[0] = b /\ \A k \in 1..Height : f[k] = F[<<k, f[k - 1]>>]
    BY <1>5 DEF Follows
<1>7. \A k \in 1..Height : f[k - 1] \in SUBSET E
    BY <1>1
<1> HIDE DEF E
<1>8. \A k \in 0..Height : f[k] = IF k = 0 THEN {<<>>} ELSE Below(f[k - 1])
    <2>1. \A k \in 1..Height : F[<<k, f[k - 1]>>] = Below(f[k - 1])
        BY <1>4, <1>7
    <2>2. \A k \in 1..Height : f[k] = Below(f[k - 1])
        BY <1>6, <2>1
    <2>3. \A k \in 0..Height : k = 0 \/ k \in 1..Height
        BY <1>1
    <2> QED BY <1>6, <2>2, <2>3 DEF b
<1>9. f = [k \in 0..Height |-> f[k]]
    BY <1>5
<1>10. IsLevels(f)
    BY <1>8, <1>9 DEF IsLevels
<1> DEFINE level == CHOOSE g : IsLevels(g)
<1>11. IsLevels(level)
    BY <1>10
<1>12. Expressions = UNION {level[k] : k \in 0..Height}
    BY DEF Expressions, IsLevels, Below
<1> QED BY <1>11, <1>12

\* Expressions holds only expressions.
LEMMA ExpressionsAre ==
    ASSUME Rooted, NEW p \in Expressions
    PROVE  IsExpression(p)
<1>1. PICK level : IsLevels(level) /\ Expressions = UNION {level[k] : k \in 0..Height}
    BY Levels
<1>2. \A k \in 0..Height : level[k] = IF k = 0 THEN {<<>>} ELSE Below(level[k - 1])
    BY <1>1 DEF IsLevels
<1> DEFINE T == {k \in 0..Height : \A q \in level[k] : IsExpression(q)}
<1>3. Height \in Nat
    BY HeightAssumption
<1>4. 0 \in T
    BY <1>2, <1>3, ModuleIsExpression
<1>5. ASSUME NEW m \in 0..Height, m \in T, m < Height PROVE m + 1 \in T
    <2>1. m + 1 \in 0..Height /\ m + 1 # 0 /\ (m + 1) - 1 = m
        BY <1>3, <1>5
    <2>2. level[m + 1] = Below(level[m])
        BY <2>1, <1>2
    <2>3. \A q \in Below(level[m]) : IsExpression(q)
        BY <1>5, KidIsExpression DEF Below
    <2> QED BY <2>1, <2>2, <2>3
<1> HIDE DEF T
<1>6. 0..Height \subseteq T
    BY <1>3, <1>4, <1>5, UpToInduction
<1> QED BY <1>1, <1>6 DEF T

LEMMA OneLevelLower ==
    ASSUME NEW h \in 0..Height, NEW n \in TreeUpTo[h]
    PROVE  n \in Nodes /\ h # 0 /\ h \in Nat /\ n.kids \in Seq(TreeUpTo[h - 1])
<1>1. n \in Tree(h, TreeUpTo)
    BY TreesExist
<1> QED BY <1>1, HeightAssumption DEF Tree, Nodes

\* An expression is not as deep as the tree is high.
LEMMA NotTooDeep ==
    ASSUME Rooted, NEW p, IsExpression(p)
    PROVE  Len(p) \in Nat /\ Len(p) < Height
<1> DEFINE n == Len(p)
           T == {m \in 0..n : m < Height /\ At(SubSeq(p, 1, m)) \in TreeUpTo[Height - m]}
<1>1. p \in Seq(Nat) /\ n \in Nat /\ Height \in Nat
    BY HeightAssumption DEF IsExpression
<1>2. 0 \in T
    <2>1. At(<<>>) \in TreeUpTo[Height]
        BY AtModule, ProgramsAssumption DEF Rooted, IsModule
    <2>2. Height \in 0..Height /\ Height - 0 = Height /\ 0 \in 0..n
        BY <1>1
    <2>3. Height # 0
        BY <2>1, <2>2, OneLevelLower
    <2>4. SubSeq(p, 1, 0) = <<>>
        BY <1>1
    <2>5. At(SubSeq(p, 1, 0)) = At(<<>>)
        BY <2>4, Zenon
    <2>6. At(SubSeq(p, 1, 0)) \in TreeUpTo[Height - 0]
        BY <2>1, <2>2, <2>5, Zenon
    <2>7. 0 < Height
        BY <1>1, <2>3
    <2> QED BY <2>2, <2>6, <2>7, Zenon
<1>3. ASSUME NEW m \in 0..n, m \in T, m < n PROVE m + 1 \in T
    <2> DEFINE q == SubSeq(p, 1, m)
               h == Height - m
    <2>1. m + 1 \in 1..Len(p) /\ (m + 1) - 1 = m /\ m + 1 \in 0..n
        BY <1>1, <1>3
    <2>2. SubSeq(p, 1, m + 1) = Kid(q, p[m + 1]) /\ q \in Seq(Nat) /\ p[m + 1] \in Nat
        BY <1>1, <2>1, KidOf
    <2>3. p[m + 1] \in ExpressionKids(At(q))
        BY <2>1 DEF IsExpression
    <2>4. At(SubSeq(p, 1, m + 1)) = At(q).kids[p[m + 1]]
        BY <2>2, AtKid
    <2>5. At(q) \in TreeUpTo[h] /\ h \in 0..Height /\ m < Height
        BY <1>1, <1>3
    <2>6. At(q) \in Nodes /\ At(q).kids \in Seq(TreeUpTo[h - 1])
        BY <2>5, OneLevelLower
    <2>7. p[m + 1] \in 1..Len(At(q).kids)
        BY <2>3, <2>6, KidNodes
    <2>8. At(SubSeq(p, 1, m + 1)) \in TreeUpTo[h - 1]
        BY <2>4, <2>6, <2>7
    <2>9. h - 1 \in 0..Height /\ h - 1 = Height - (m + 1)
        BY <1>1, <2>1, <2>5
    <2>10. h - 1 # 0
        BY <2>8, <2>9, OneLevelLower
    <2>11. m + 1 < Height
        BY <1>1, <2>1, <2>5, <2>9, <2>10
    <2> QED BY <2>1, <2>8, <2>9, <2>11
<1> HIDE DEF T
<1>4. 0..n \subseteq T
    BY <1>1, <1>2, <1>3, UpToInduction
<1>5. n \in T
    BY <1>1, <1>4
<1> QED BY <1>1, <1>5 DEF T

\* Expressions holds all of them.
LEMMA AllExpressions ==
    ASSUME Rooted, NEW p, IsExpression(p)
    PROVE  p \in Expressions
<1>1. PICK level : IsLevels(level) /\ Expressions = UNION {level[k] : k \in 0..Height}
    BY Levels
<1>2. \A k \in 0..Height : level[k] = IF k = 0 THEN {<<>>} ELSE Below(level[k - 1])
    BY <1>1 DEF IsLevels
<1> DEFINE n == Len(p)
           T == {m \in 0..n : SubSeq(p, 1, m) \in level[m]}
<1>3. p \in Seq(Nat) /\ n \in Nat /\ n < Height /\ Height \in Nat
    BY NotTooDeep, HeightAssumption DEF IsExpression
<1>4. 0 \in T
    <2>1. SubSeq(p, 1, 0) = <<>> /\ 0 \in 0..n /\ 0 \in 0..Height
        BY <1>3
    <2> QED BY <2>1, <1>2
<1>5. ASSUME NEW m \in 0..n, m \in T, m < n PROVE m + 1 \in T
    <2>1. m + 1 \in 1..Len(p) /\ (m + 1) - 1 = m /\ m + 1 \in 0..n /\ m + 1 # 0
          /\ m + 1 \in 0..Height
        BY <1>3, <1>5
    <2>2. SubSeq(p, 1, m + 1) = Kid(SubSeq(p, 1, m), p[m + 1])
        BY <1>3, <2>1, KidOf
    <2>3. p[m + 1] \in ExpressionKids(At(SubSeq(p, 1, m)))
        BY <2>1 DEF IsExpression
    <2>4. level[m + 1] = Below(level[m])
        BY <2>1, <1>2
    <2>5. SubSeq(p, 1, m + 1) \in Below(level[m])
        BY <2>2, <2>3, <1>5 DEF Below
    <2> QED BY <2>1, <2>4, <2>5
<1> HIDE DEF T
<1>6. 0..n \subseteq T
    BY <1>3, <1>4, <1>5, UpToInduction
<1>7. n \in T /\ n \in 0..Height
    BY <1>3, <1>6
<1>8. SubSeq(p, 1, n) = p
    BY <1>3, PathIsItsOwn
<1> QED BY <1>1, <1>7, <1>8 DEF T

-----------------------------------------------------------------------------
(* The agenda.                                                              *)

LEMMA WithIs ==
    ASSUME NEW f, NEW x, NEW v
    PROVE  /\ DOMAIN With(f, x, v) = DOMAIN f \union {x}
           /\ With(f, x, v)[x] = v
           /\ \A y \in DOMAIN f : y # x => With(f, x, v)[y] = f[y]
BY DEF With

\* What a sequence holds when its head is replaced by es.
LEMMA RangePut ==
    ASSUME NEW S, NEW s \in Seq(S), s # <<>>, NEW es \in Seq(S)
    PROVE  /\ es \o Tail(s) \in Seq(S)
           /\ Range(es \o Tail(s)) = Range(es) \union Range(Tail(s))
           /\ Range(s) = {Head(s)} \union Range(Tail(s))
           /\ Head(s) \in S
<1> DEFINE r == Tail(s)
           t == es \o r
<1>1. /\ r \in Seq(S) /\ Len(r) \in Nat /\ Len(es) \in Nat /\ Len(s) = Len(r) + 1
      /\ Head(s) = s[1] /\ \A i \in 1..Len(r) : r[i] = s[i + 1]
    OBVIOUS
<1> HIDE DEF r
<1>2. /\ t \in Seq(S) /\ DOMAIN t = 1..(Len(es) + Len(r))
      /\ DOMAIN es = 1..Len(es) /\ DOMAIN r = 1..Len(r)
    BY <1>1
<1>3. \A i \in 1..Len(es) : t[i] = es[i]
    BY <1>1
<1>4. \A i \in 1..Len(r) : t[i + Len(es)] = r[i]
    BY <1>1
<1> HIDE DEF t
<1>5. \A i \in 1..(Len(es) + Len(r)) :
          i \in 1..Len(es) \/ (i - Len(es) \in 1..Len(r) /\ (i - Len(es)) + Len(es) = i)
    BY <1>1
<1>6. Range(t) = Range(es) \union Range(r)
    <2>1. ASSUME NEW e \in Range(t) PROVE e \in Range(es) \union Range(r)
        <3>1. PICK i \in 1..(Len(es) + Len(r)) : e = t[i]
            BY <1>2 DEF Range
        <3> QED BY <3>1, <1>5, <1>2, <1>3, <1>4 DEF Range
    <2>2. Range(es) \subseteq Range(t)
        <3>1. \A i \in 1..Len(es) : i \in 1..(Len(es) + Len(r))
            BY <1>1
        <3> QED BY <3>1, <1>2, <1>3 DEF Range
    <2>3. Range(r) \subseteq Range(t)
        <3>1. \A i \in 1..Len(r) : i + Len(es) \in 1..(Len(es) + Len(r))
            BY <1>1
        <3> QED BY <3>1, <1>2, <1>4 DEF Range
    <2> QED BY <2>1, <2>2, <2>3
<1>7. Range(s) = {Head(s)} \union Range(r)
    <2>1. DOMAIN s = 1..(Len(r) + 1)
        BY <1>1
    <2>2. ASSUME NEW e \in Range(s) PROVE e \in {Head(s)} \union Range(r)
        <3>1. PICK i \in 1..(Len(r) + 1) : e = s[i]
            BY <2>1 DEF Range
        <3>2. i = 1 \/ (i - 1 \in 1..Len(r) /\ (i - 1) + 1 = i)
            BY <1>1
        <3> QED BY <3>1, <3>2, <1>1, <1>2 DEF Range
    <2>3. Head(s) \in Range(s)
        <3>1. 1 \in 1..(Len(r) + 1)
            BY <1>1
        <3> QED BY <3>1, <2>1, <1>1 DEF Range
    <2>4. ASSUME NEW e \in Range(r) PROVE e \in Range(s)
        <3>1. PICK i \in 1..Len(r) : e = r[i]
            BY <1>2 DEF Range
        <3>2. i + 1 \in 1..(Len(r) + 1) /\ e = s[i + 1]
            BY <3>1, <1>1
        <3> QED BY <3>2, <2>1 DEF Range
    <2> QED BY <2>2, <2>3, <2>4
<1> QED BY <1>2, <1>6, <1>7, <1>1 DEF r, t

Jobs == {"visit", "leave", "signature", "type", "read"}
AnEntry == [do : Jobs, at : Seq(Nat)]

LEMMA EntryIs ==
    ASSUME NEW do \in Jobs, NEW p \in Seq(Nat)
    PROVE  Entry(do, p) \in AnEntry /\ Entry(do, p).do = do /\ Entry(do, p).at = p
BY DEF Entry, AnEntry

LEMMA EntriesAre ==
    ASSUME NEW do \in Jobs, NEW ps \in Seq(Seq(Nat))
    PROVE  /\ Entries(do, ps) \in Seq(AnEntry)
           /\ Range(Entries(do, ps)) = {Entry(do, q) : q \in Range(ps)}
<1> DEFINE es == Entries(do, ps)
<1>1. Len(ps) \in Nat /\ DOMAIN ps = 1..Len(ps) /\ \A k \in 1..Len(ps) : ps[k] \in Seq(Nat)
    OBVIOUS
<1>2. es = [k \in 1..Len(ps) |-> Entry(do, ps[k])]
    BY <1>1 DEF Entries
<1>3. \A k \in 1..Len(ps) : Entry(do, ps[k]) \in AnEntry
    BY <1>1, EntryIs
<1> HIDE DEF es
<1>4. es \in Seq(AnEntry)
    BY <1>1, <1>2, <1>3
<1>5. Range(es) = {Entry(do, q) : q \in Range(ps)}
    BY <1>1, <1>2 DEF Range
<1> QED BY <1>4, <1>5 DEF es

LEMMA InTurnsAre ==
    ASSUME NEW do \in Jobs, NEW next \in Jobs, NEW ps \in Seq(Seq(Nat))
    PROVE  /\ InTurns(do, next, ps) \in Seq(AnEntry)
           /\ Range(InTurns(do, next, ps)) =
                 {Entry(do, q) : q \in Range(ps)} \union {Entry(next, q) : q \in Range(ps)}
<1> DEFINE es == InTurns(do, next, ps)
           n == Len(ps)
           at(k) == ps[(k + 1) \div 2]
<1>1. n \in Nat /\ DOMAIN ps = 1..n /\ \A k \in 1..n : ps[k] \in Seq(Nat)
    OBVIOUS
<1>2. es = [k \in 1..(2 * n) |-> Entry(IF k % 2 = 1 THEN do ELSE next, at(k))]
    BY DEF InTurns
<1> HIDE DEF es, n
<1>3. \A k \in 1..(2 * n) : (k + 1) \div 2 \in 1..n
    BY <1>1
<1>4. \A k \in 1..(2 * n) : at(k) \in Seq(Nat) /\ at(k) \in Range(ps)
    BY <1>1, <1>3 DEF Range
<1>5. \A k \in 1..(2 * n) : Entry(IF k % 2 = 1 THEN do ELSE next, at(k)) \in AnEntry
    BY <1>4, EntryIs
<1> HIDE DEF at
<1>6. es \in Seq(AnEntry) /\ DOMAIN es = 1..(2 * n)
    BY <1>1, <1>2, <1>5
<1>7. ASSUME NEW e \in Range(es)
      PROVE  e \in {Entry(do, q) : q \in Range(ps)} \union {Entry(next, q) : q \in Range(ps)}
    <2>1. PICK k \in 1..(2 * n) : e = es[k]
        BY <1>6 DEF Range
    <2>2. e = Entry(IF k % 2 = 1 THEN do ELSE next, at(k))
        BY <2>1, <1>2
    <2>3. e = Entry(do, at(k)) \/ e = Entry(next, at(k))
        BY <2>2
    <2> QED BY <2>3, <1>4
<1>8. ASSUME NEW q \in Range(ps)
      PROVE  Entry(do, q) \in Range(es) /\ Entry(next, q) \in Range(es)
    <2>1. PICK j \in 1..n : q = ps[j]
        BY <1>1 DEF Range
    <2>2. /\ 2 * j \in 1..(2 * n) /\ 2 * j - 1 \in 1..(2 * n)
          /\ (2 * j) % 2 # 1 /\ (2 * j - 1) % 2 = 1
          /\ (2 * j + 1) \div 2 = j /\ ((2 * j - 1) + 1) \div 2 = j
        BY <1>1
    <2>3. es[2 * j] = Entry(next, q) /\ es[2 * j - 1] = Entry(do, q)
        BY <2>1, <2>2, <1>2 DEF at
    <2> QED BY <2>2, <2>3, <1>6 DEF Range
<1>9. Range(es) = {Entry(do, q) : q \in Range(ps)} \union {Entry(next, q) : q \in Range(ps)}
    BY <1>7, <1>8
<1> QED BY <1>6, <1>9 DEF es

-----------------------------------------------------------------------------
(* Signatures, calls and names.                                             *)

SignatureOf(f) == Range(ParamTypes(f)) \union {ReturnType(f)}

LEMMA FunctionsAre ==
    ASSUME Rooted, NEW f \in FunctionNodes
    PROVE  /\ f \in Seq(Nat) /\ At(f) \in Nodes /\ Kind(f) = "fun"
           /\ At(f).kids[2] \in Nodes
<1>1. PICK k \in 2..Len(program.kids) : f = <<k>>
    BY DEF FunctionNodes
<1>2. program \in Nodes
    BY RootNode, AtModule
<1>3. program.kids \in Seq(Nodes) /\ Len(program.kids) \in Nat
    BY <1>2, NodesAre
<1>4. k \in Nat /\ k \in 1..Len(program.kids)
    BY <1>3
<1>5. <<>> \in Seq(Nat) /\ Kid(<<>>, k) = f
    BY <1>1, <1>4 DEF Kid
<1>6. f \in Seq(Nat) /\ At(f) = program.kids[k]
    BY <1>4, <1>5, AtKid, AtModule
<1>7. At(f) \in Nodes
    BY <1>3, <1>4, <1>6
<1>8. PICK m \in Programs : program = Program(m)
    BY DEF Rooted
<1>9. Kind(f) = "fun"
    <2> DEFINE fs == m.functions
    <2>1. program.kids = <<Node("static", m.statics)>> \o fs
        BY <1>8 DEF Program, Node
    <2>2. \A j \in DOMAIN fs : fs[j].op = "fun"
        BY ProgramsAssumption DEF IsModule
    <2> HIDE DEF fs
    <2>3. k - 1 \in DOMAIN fs /\ program.kids[k] = fs[k - 1]
        BY <1>1, <1>3, <2>1
    <2> QED BY <2>2, <2>3, <1>6 DEF Kind
<1>10. At(f).kids \in Seq(Nodes) /\ Len(At(f).kids) = 4
    BY <1>7, <1>9, NodesAre DEF Kind
<1>11. At(f).kids[2] \in Nodes
    BY <1>10
<1> QED BY <1>6, <1>7, <1>9, <1>11

LEMMA SignatureIs ==
    ASSUME Rooted, NEW f \in FunctionNodes
    PROVE  /\ ParamTypes(f) \in Seq(Seq(Nat)) /\ ReturnType(f) \in Seq(Nat)
           /\ Append(ParamTypes(f), ReturnType(f)) \in Seq(Seq(Nat))
           /\ Range(Append(ParamTypes(f), ReturnType(f))) = SignatureOf(f)
           /\ DOMAIN ParamNames(f) = DOMAIN ParamTypes(f)
           /\ DOMAIN ParamNames(f) \in SUBSET Nat
<1> DEFINE n == Len(At(f).kids[2].kids)
           ps == ParamTypes(f)
           r == ReturnType(f)
<1>1. f \in Seq(Nat) /\ At(f).kids[2].kids \in Seq(Nodes)
    BY FunctionsAre, NodesAre
<1>2. n \in Nat /\ DOMAIN At(f).kids[2].kids = 1..n
    BY <1>1
<1> DEFINE path(k) == f \o <<2, k, 2>>
<1>3. ps = [k \in 1..n |-> path(k)] /\ DOMAIN ParamNames(f) = 1..n
    BY <1>2 DEF ParamTypes, ParamNames
<1>4. r \in Seq(Nat)
    BY <1>1 DEF ReturnType, Kid
<1> HIDE DEF n, r
<1>5. \A k \in 1..n : path(k) \in Seq(Nat)
    BY <1>1, <1>2
<1> HIDE DEF ps, path
<1>6. ps \in Seq(Seq(Nat)) /\ Len(ps) = n /\ DOMAIN ps = 1..n
    BY <1>2, <1>3, <1>5
<1>7. /\ Append(ps, r) \in Seq(Seq(Nat)) /\ DOMAIN Append(ps, r) = 1..(n + 1)
      /\ Append(ps, r)[n + 1] = r /\ \A k \in 1..n : Append(ps, r)[k] = ps[k]
    BY <1>2, <1>4, <1>6
<1>8. Range(Append(ps, r)) = Range(ps) \union {r}
    <2>1. \A k \in 1..(n + 1) : k \in 1..n \/ k = n + 1
        BY <1>2
    <2>2. n + 1 \in 1..(n + 1) /\ \A k \in 1..n : k \in 1..(n + 1)
        BY <1>2
    <2> QED BY <2>1, <2>2, <1>6, <1>7 DEF Range
<1>9. 1..n \in SUBSET Nat
    OBVIOUS
<1> QED BY <1>3, <1>4, <1>6, <1>7, <1>8, <1>9 DEF ps, r, SignatureOf

LEMMA CallIs ==
    ASSUME Rooted, NEW p, IsExpression(p), Kind(p) = "call"
    PROVE  /\ TypeVariables(p) \in Seq(Seq(Nat))
           /\ Arguments(p) = Children(p)
           /\ p # <<>>
<1>1. p \in Seq(Nat) /\ At(p) \in Nodes
    BY ExpressionNode
<1>2. At(p).kids \in Seq(Nodes) /\ Len(At(p).kids) >= 1
    BY <1>1, NodesAre DEF Kind
<1>3. At(p).kids[1] \in Nodes
    BY <1>2
<1>4. At(Kid(p, 1)) \in Nodes
    BY <1>1, <1>3, AtKid
<1> DEFINE n == Len(At(Kid(p, 1)).kids)
<1>5. n \in Nat /\ DOMAIN At(Kid(p, 1)).kids = 1..n
    BY <1>4, NodesAre
<1>6. TypeVariables(p) = [k \in 1..n |-> p \o <<1, k, 1>>]
    BY <1>5 DEF TypeVariables
<1> HIDE DEF n
<1>7. \A k \in 1..n : p \o <<1, k, 1>> \in Seq(Nat)
    BY <1>1, <1>5
<1>8. TypeVariables(p) \in Seq(Seq(Nat))
    BY <1>5, <1>6, <1>7
<1>9. At(<<>>).op = "module"
    <2>1. PICK m \in Programs : program = Program(m)
        BY DEF Rooted
    <2> QED BY <2>1, AtModule DEF Program, Node
<1>10. Arguments(p) = Children(p)
    BY DEF Children
<1> QED BY <1>8, <1>9, <1>10 DEF Kind

\* A name that is a parameter's has one it stands for.
LEMMA ParamIs ==
    ASSUME Rooted, NEW p, IsLocalSymbol(p)
    PROVE  FunctionOf(p) \in FunctionNodes /\ ParamOf(p) \in SignatureOf(FunctionOf(p))
<1> DEFINE f == FunctionOf(p)
           T == {k \in DOMAIN ParamNames(f) : ParamNames(f)[k] = Kind(p)}
<1>1. f \in FunctionNodes /\ Kind(p) \in Range(ParamNames(f))
    BY DEF IsLocalSymbol
<1> HIDE DEF f
<1>2. T # {} /\ DOMAIN ParamNames(f) \in SUBSET Nat /\ DOMAIN ParamNames(f) = DOMAIN ParamTypes(f)
    BY <1>1, SignatureIs DEF Range
<1>3. PICK x \in T : \A y \in T : x <= y
    BY <1>2, LeastElement
<1>4. x \in DOMAIN ParamNames(f) /\ ParamNames(f)[x] = Kind(p) /\ x \in Nat
    BY <1>2
<1>5. \A j \in 1..(x - 1) : ParamNames(f)[j] # Kind(p)
    <2> SUFFICES ASSUME NEW j \in 1..(x - 1), ParamNames(f)[j] = Kind(p) PROVE FALSE
        OBVIOUS
    <2>1. ParamTypes(f) \in Seq(Seq(Nat))
        BY <1>1, SignatureIs
    <2>2. j \in DOMAIN ParamNames(f)
        BY <2>1, <1>2, <1>4
    <2> QED BY <2>2, <1>3, <1>4
<1> DEFINE Is(k) == /\ ParamNames(f)[k] = Kind(p)
                    /\ \A j \in 1..(k - 1) : ParamNames(f)[j] # Kind(p)
           c == CHOOSE k \in DOMAIN ParamNames(f) : Is(k)
<1>6. c \in DOMAIN ParamNames(f)
    BY <1>4, <1>5
<1>7. ParamOf(p) = ParamTypes(f)[c]
    BY DEF ParamOf, f
<1> HIDE DEF c
<1> QED BY <1>1, <1>2, <1>6, <1>7 DEF f, SignatureOf, Range

-----------------------------------------------------------------------------
(* What the agenda still opens: a visit leads to every node below its own.  *)

Remaining == Range(agenda)

Covers(e, p) == e.do = "visit" /\ Above(e.at, p)
Opens(e, p) == Covers(e, p) \/ (e.do = "leave" /\ e.at = p)
Signs(e, p) ==
    (e.do \in {"type", "leave"} /\ e.at = p) \/ (e.do = "signature" /\ p \in SignatureOf(e.at))

Visiting(p) == \E e \in Remaining : Covers(e, p)
Open(p) == \E e \in Remaining : Opens(e, p)
Signing(p) == \E e \in Remaining : Signs(e, p)

\* An expression that TypeResolver visits.
Resolvable(p) == IsExpression(p) /\ ~InMethodArguments(p)

\* No node is opened twice.
Once(es) ==
    \A i, j \in DOMAIN es : i < j =>
        \A p : IsExpression(p) => ~(Opens(es[i], p) /\ Opens(es[j], p))

\* es opens what e opens, or less.
Within(es, e) == \A p : IsExpression(p) => \A x \in Range(es) : Opens(x, p) => Opens(e, p)

\* What LiteralResolver looks at.
Examined(p) == IsLiteral(p) \/ NullLeft(p)

LEMMA SameModule ==
    ASSUME program' = program
    PROVE  /\ Rooted' = Rooted
           /\ \A p : At(p)' = At(p) /\ Kind(p)' = Kind(p) /\ IsLiteral(p)' = IsLiteral(p)
                     /\ Examined(p)' = Examined(p)
                     /\ IsExpression(p)' = IsExpression(p)
                     /\ InMethodArguments(p)' = InMethodArguments(p)
                     /\ IsLocalSymbol(p)' = IsLocalSymbol(p)
                     /\ SignatureOf(p)' = SignatureOf(p)
           /\ FunctionNodes' = FunctionNodes
<1>1. \A p : At(p)' = At(p)
    BY DEF At
<1>2. \A p : Kind(p)' = Kind(p) /\ IsLiteral(p)' = IsLiteral(p)
    BY <1>1 DEF Kind, IsLiteral
<1>12. \A p : Examined(p)' = Examined(p)
    BY <1>1, <1>2 DEF Examined, NullLeft
<1>3. \A p : IsExpression(p)' = IsExpression(p)
    BY <1>1 DEF IsExpression
<1>4. \A p : InDot(p)' = InDot(p)
    BY <1>2 DEF InDot
<1>5. \A p : InMethodArguments(p)' = InMethodArguments(p)
    BY <1>2, <1>4 DEF InMethodArguments
<1>6. FunctionNodes' = FunctionNodes
    BY DEF FunctionNodes
<1>7. \A p : ParamTypes(p)' = ParamTypes(p)
    BY <1>1 DEF ParamTypes
<1>8. \A p : ParamNames(p)' = ParamNames(p)
    BY <1>1, <1>2 DEF ParamNames
<1>9. \A p : IsLocalSymbol(p)' = IsLocalSymbol(p)
    BY <1>2, <1>6, <1>8 DEF IsLocalSymbol, FunctionOf
<1>10. \A p : SignatureOf(p)' = SignatureOf(p)
    BY <1>7 DEF SignatureOf, ReturnType, Kid
<1>11. Rooted' = Rooted
    BY DEF Rooted
<1> QED BY <1>1, <1>2, <1>3, <1>5, <1>6, <1>9, <1>10, <1>11, <1>12

LEMMA SameAgenda ==
    ASSUME program' = program, agenda' = agenda
    PROVE  /\ Remaining' = Remaining /\ Once(agenda)' = Once(agenda)
           /\ \A p : Visiting(p)' = Visiting(p) /\ Open(p)' = Open(p) /\ Signing(p)' = Signing(p)
<1>1. \A p : IsExpression(p)' = IsExpression(p) /\ SignatureOf(p)' = SignatureOf(p)
    BY SameModule
<1>2. Remaining' = Remaining
    BY DEF Remaining
<1>3. \A e, p : Covers(e, p)' = Covers(e, p) /\ Opens(e, p)' = Opens(e, p)
    BY DEF Covers, Opens, Above
<1>4. \A e, p : Signs(e, p)' = Signs(e, p)
    BY <1>1 DEF Signs
<1>5. Once(agenda)' = Once(agenda)
    BY <1>1, <1>3 DEF Once
<1> QED BY <1>2, <1>3, <1>4, <1>5 DEF Visiting, Open, Signing

(***************************************************************************)
(* The entry at the head of the agenda is replaced by es, which opens no   *)
(* more than the entry did.                                                *)
(***************************************************************************)
Replaced(es) ==
    /\ agenda # <<>> /\ es \in Seq(AnEntry)
    /\ agenda' = es \o Tail(agenda)
    /\ program' = program
    /\ Once(es) /\ Within(es, Head(agenda))

LEMMA Opening ==
    ASSUME agenda \in Seq(AnEntry), Once(agenda), NEW es, Replaced(es)
    PROVE  /\ agenda' \in Seq(AnEntry) /\ Once(agenda)'
           /\ Head(agenda) \in Remaining /\ Head(agenda) \in AnEntry
           /\ \A e \in Remaining' : e \in Range(es) \/ e \in Remaining
           /\ \A p : IsExpression(p) /\ Open(p)' => Open(p)
           /\ \A p : Visiting(p) => Visiting(p)' \/ Covers(Head(agenda), p)
           /\ \A p : Open(p) => Open(p)' \/ Opens(Head(agenda), p)
           /\ \A p : Signing(p) => Signing(p)' \/ Signs(Head(agenda), p)
           /\ \A p : (\E e \in Range(es) : Covers(e, p)) => Visiting(p)'
           /\ \A p : (\E e \in Range(es) : Opens(e, p)) => Open(p)'
           /\ \A p : (\E e \in Range(es) : Signs(e, p)) => Signing(p)'
           /\ \A p : IsExpression(p) /\ Opens(Head(agenda), p)
                        /\ ~(\E e \in Range(es) : Opens(e, p)) => ~Open(p)'
<1> DEFINE h == Head(agenda)
           r == Tail(agenda)
           t == es \o r
<1>0. /\ agenda # <<>> /\ es \in Seq(AnEntry) /\ agenda' = t /\ program' = program
      /\ Once(es) /\ Within(es, h)
    BY DEF Replaced
<1>1. /\ t \in Seq(AnEntry) /\ Range(t) = Range(es) \union Range(r)
      /\ Remaining = {h} \union Range(r) /\ h \in AnEntry
    BY <1>0, RangePut DEF Remaining
<1>2. /\ r \in Seq(AnEntry) /\ Len(r) \in Nat /\ Len(es) \in Nat /\ DOMAIN agenda = 1..(Len(r) + 1)
      /\ DOMAIN r = 1..Len(r) /\ DOMAIN es = 1..Len(es) /\ DOMAIN t = 1..(Len(es) + Len(r))
      /\ h = agenda[1] /\ \A i \in 1..Len(r) : r[i] = agenda[i + 1]
    BY <1>0
<1>3. (\A i \in 1..Len(es) : t[i] = es[i]) /\ \A i \in 1..Len(r) : t[i + Len(es)] = r[i]
    BY <1>0, <1>2
<1> HIDE DEF h, r, t
<1>4. \A p : IsExpression(p)' = IsExpression(p) /\ SignatureOf(p)' = SignatureOf(p)
    BY <1>0, SameModule
<1>5. \A e, p : Covers(e, p)' = Covers(e, p) /\ Opens(e, p)' = Opens(e, p)
    BY DEF Covers, Opens, Above
<1>6. \A e, p : Signs(e, p)' = Signs(e, p)
    BY <1>4 DEF Signs
<1>7. Remaining' = Range(es) \union Range(r)
    BY <1>0, <1>1 DEF Remaining
<1>8. \A p : IsExpression(p) => \A x \in Range(r) : ~(Opens(h, p) /\ Opens(x, p))
    <2> SUFFICES ASSUME NEW p, IsExpression(p), NEW x \in Range(r)
                 PROVE  ~(Opens(h, p) /\ Opens(x, p))
        OBVIOUS
    <2>1. PICK i \in 1..Len(r) : x = r[i]
        BY <1>2 DEF Range
    <2>2. 1 \in DOMAIN agenda /\ i + 1 \in DOMAIN agenda /\ 1 < i + 1 /\ x = agenda[i + 1]
        BY <2>1, <1>2
    <2> QED BY <2>2, <1>2 DEF Once
<1>9. \A p : IsExpression(p) => \A x \in Range(es) : Opens(x, p) => Opens(h, p)
    BY <1>0 DEF Within
<1>10. Once(agenda)'
    <2> SUFFICES ASSUME NEW i \in DOMAIN t, NEW j \in DOMAIN t, i < j, NEW p, IsExpression(p)
                 PROVE  ~(Opens(t[i], p) /\ Opens(t[j], p))
        BY <1>0, <1>4, <1>5 DEF Once
    <2>1. CASE j \in 1..Len(es)
        <3>1. i \in 1..Len(es)
            BY <2>1, <1>2
        <3> QED BY <2>1, <3>1, <1>0, <1>2, <1>3 DEF Once
    <2>2. CASE j \notin 1..Len(es) /\ i \in 1..Len(es)
        <3>1. j - Len(es) \in 1..Len(r) /\ (j - Len(es)) + Len(es) = j
            BY <2>2, <1>2
        <3>2. t[j] \in Range(r) /\ t[i] \in Range(es)
            BY <2>2, <3>1, <1>2, <1>3 DEF Range
        <3> QED BY <3>2, <1>8, <1>9
    <2>3. CASE j \notin 1..Len(es) /\ i \notin 1..Len(es)
        <3> DEFINE a == i - Len(es)
                   b == j - Len(es)
        <3>1. a \in 1..Len(r) /\ b \in 1..Len(r) /\ a < b /\ a + Len(es) = i /\ b + Len(es) = j
            BY <2>3, <1>2
        <3> HIDE DEF a, b
        <3>2. t[i] = agenda[a + 1] /\ t[j] = agenda[b + 1]
            BY <3>1, <1>2, <1>3
        <3>3. a + 1 \in DOMAIN agenda /\ b + 1 \in DOMAIN agenda /\ a + 1 < b + 1
            BY <3>1, <1>2
        <3> QED BY <3>2, <3>3 DEF Once
    <2> QED BY <2>1, <2>2, <2>3
<1>11. agenda' \in Seq(AnEntry) /\ h \in Remaining /\ h \in AnEntry
    BY <1>0, <1>1
<1>12. \A p : Open(p) <=> Opens(h, p) \/ \E x \in Range(r) : Opens(x, p)
    BY <1>1 DEF Open
<1>13. \A p : Open(p)' <=> (\E x \in Range(es) : Opens(x, p)) \/ \E x \in Range(r) : Opens(x, p)
    BY <1>7, <1>5 DEF Open
<1>14. /\ \A p : Visiting(p) => Visiting(p)' \/ Covers(h, p)
       /\ \A p : (\E e \in Range(es) : Covers(e, p)) => Visiting(p)'
    BY <1>1, <1>5, <1>7 DEF Visiting
<1>15. /\ \A p : Signing(p) => Signing(p)' \/ Signs(h, p)
       /\ \A p : (\E e \in Range(es) : Signs(e, p)) => Signing(p)'
    BY <1>1, <1>6, <1>7 DEF Signing
<1>16. \A p : IsExpression(p) /\ Open(p)' => Open(p)
    BY <1>9, <1>12, <1>13
<1>17. \A p : IsExpression(p) /\ Opens(h, p) /\ ~(\E e \in Range(es) : Opens(e, p)) => ~Open(p)'
    BY <1>8, <1>13
<1>18. \A e \in Remaining' : e \in Range(es) \/ e \in Remaining
    BY <1>1, <1>7
<1>19. /\ \A p : Open(p) => Open(p)' \/ Opens(h, p)
       /\ \A p : (\E e \in Range(es) : Opens(e, p)) => Open(p)'
    BY <1>12, <1>13
<1> QED BY <1>10, <1>11, <1>14, <1>15, <1>16, <1>17, <1>18, <1>19 DEF h

-----------------------------------------------------------------------------
(* The inductive invariant.                                                 *)

Passes == {"literals", "signatures", "types"}

\* What an entry stands for.
EntryFits(e) ==
    /\ e.do \in {"visit", "leave"} /\ pass # "signatures" =>
          IsExpression(e.at) /\ (pass = "types" => ~InMethodArguments(e.at))
    /\ pass = "signatures" => e.do # "visit"
    /\ e.do = "signature" => e.at \in FunctionNodes
    /\ e.do = "type" \/ (e.do = "leave" /\ pass = "signatures") => ~IsExpression(e.at)

AgendaFits ==
    /\ agenda \in Seq(AnEntry) /\ Once(agenda)
    /\ \A e \in Remaining : EntryFits(e)

\* A name is replaced by the access to a local that it is, or is visited yet.
LocalFits(p) == IsExpression(p) /\ IsLiteral(p) /\ IsLocalSymbol(p)
LocalsFit == \A p \in locals : LocalFits(p)
LiteralsFound ==
    \A p : IsExpression(p) /\ Examined(p) => p \in locals \/ (pass = "literals" /\ Visiting(p))

\* An expression that has a type is not opened any more.
TypesFit ==
    \A p \in DOMAIN types :
        types[p] \in Types /\ (IsExpression(p) => pass = "types" /\ ~Open(p))

SignaturesTyped ==
    pass # "literals" =>
        \A f \in FunctionNodes : \A p \in SignatureOf(f) :
            Typed(p) \/ (pass = "signatures" /\ Signing(p))

TargetsFit == \A p \in DOMAIN targets : IsExpression(p)

ProblemsFit ==
    \A p \in problems : pass = "types" /\ Resolvable(p) /\ Kind(p) = "if" /\ ~Open(p)

\* The condition of an if is a Bool, or the if is a problem.
Checked(p) == Typed(Kid(p, 1)) /\ (types[Kid(p, 1)] = "Bool" <=> p \notin problems)

\* What TypeResolver leaves behind it, and what it has yet to do.
Resolving ==
    pass = "types" =>
        \A p : Resolvable(p) =>
            /\ p \in locals => Typed(p) \/ Visiting(p)
            /\ Kind(p) = "call" => p \in DOMAIN targets \/ Open(p)
            /\ Kind(p) = "if" => Checked(p) \/ Open(p)

EndsWell ==
    status \in {"resolved", "problems"} =>
        agenda = <<>> /\ pass = "types" /\ (status = "resolved" <=> problems = {})

ResolverInv ==
    /\ Rooted /\ pass \in Passes /\ status \in Statuses
    /\ AgendaFits
    /\ LocalsFit /\ LiteralsFound
    /\ TypesFit /\ SignaturesTyped
    /\ TargetsFit /\ ProblemsFit /\ Resolving
    /\ EndsWell

-----------------------------------------------------------------------------
(* A step that takes the entry at the head of the agenda.                   *)

TypesStep(es) ==
    \/ types' = types
    \/ /\ \E t \in Types : types' = With(types, Head(agenda).at, t)
       /\ IsExpression(Head(agenda).at) =>
             pass = "types" /\ es = <<>> /\ Opens(Head(agenda), Head(agenda).at)

LocalsStep ==
    \/ locals' = locals
    \/ /\ locals' = locals \union {Head(agenda).at} /\ LocalFits(Head(agenda).at)
       /\ pass = "literals"

TargetsStep ==
    \/ targets' = targets
    \/ /\ DOMAIN targets' = DOMAIN targets \union {Head(agenda).at}
       /\ IsExpression(Head(agenda).at)

ProblemsStep(es) ==
    \/ problems' = problems
    \/ /\ problems' = problems \union {Head(agenda).at}
       /\ pass = "types" /\ es = <<>> /\ Head(agenda).do = "leave"
       /\ Kind(Head(agenda).at) = "if"

\* What the entry was to do is done or left to es.
LiteralsSettled(es) ==
    pass = "literals" =>
        \A p : IsExpression(p) /\ Examined(p) /\ Covers(Head(agenda), p) =>
            p \in locals' \/ \E e \in Range(es) : Covers(e, p)

SignaturesSettled(es) ==
    pass = "signatures" =>
        \A f \in FunctionNodes : \A p \in SignatureOf(f) :
            Signs(Head(agenda), p) => p \in DOMAIN types' \/ \E e \in Range(es) : Signs(e, p)

TypesSettled(es) ==
    pass = "types" =>
        \A p : Resolvable(p) =>
            /\ p \in locals /\ Covers(Head(agenda), p) =>
                  p \in DOMAIN types' \/ \E e \in Range(es) : Covers(e, p)
            /\ Kind(p) = "call" /\ Opens(Head(agenda), p) =>
                  p \in DOMAIN targets' \/ \E e \in Range(es) : Opens(e, p)
            /\ Kind(p) = "if" /\ Opens(Head(agenda), p) =>
                  \/ Kid(p, 1) \in DOMAIN types'
                        /\ (types'[Kid(p, 1)] = "Bool" <=> p \notin problems')
                  \/ \E e \in Range(es) : Opens(e, p)

LEMMA Continues ==
    ASSUME ResolverInv, NEW es, Replaced(es), status = "running",
           UNCHANGED <<program, pass, status>>,
           \A e \in Range(es) : EntryFits(e),
           TypesStep(es), LocalsStep, TargetsStep, ProblemsStep(es),
           LiteralsSettled(es), SignaturesSettled(es), TypesSettled(es)
    PROVE  ResolverInv'
<1> DEFINE h == Head(agenda)
<1>1. agenda \in Seq(AnEntry) /\ Once(agenda) /\ (\A e \in Remaining : EntryFits(e)) /\ Rooted
    BY DEF ResolverInv, AgendaFits
<1>2. /\ agenda' \in Seq(AnEntry) /\ Once(agenda)'
      /\ h \in Remaining /\ h \in AnEntry
      /\ \A e \in Remaining' : e \in Range(es) \/ e \in Remaining
    BY <1>1, Opening
<1>3. \A p : IsExpression(p) /\ Open(p)' => Open(p)
    BY <1>1, Opening
<1>4. /\ \A p : Visiting(p) => Visiting(p)' \/ Covers(h, p)
      /\ \A p : Open(p) => Open(p)' \/ Opens(h, p)
      /\ \A p : Signing(p) => Signing(p)' \/ Signs(h, p)
    BY <1>1, Opening
<1>5. /\ \A p : (\E e \in Range(es) : Covers(e, p)) => Visiting(p)'
      /\ \A p : (\E e \in Range(es) : Opens(e, p)) => Open(p)'
      /\ \A p : (\E e \in Range(es) : Signs(e, p)) => Signing(p)'
    BY <1>1, Opening
<1>6. \A p : IsExpression(p) /\ Opens(h, p) /\ ~(\E e \in Range(es) : Opens(e, p)) => ~Open(p)'
    BY <1>1, Opening
<1>7. program' = program
    BY DEF Replaced
<1>8. /\ Rooted' = Rooted /\ FunctionNodes' = FunctionNodes
      /\ \A p : Kind(p)' = Kind(p) /\ IsLiteral(p)' = IsLiteral(p)
                /\ Examined(p)' = Examined(p)
                /\ IsExpression(p)' = IsExpression(p)
                /\ InMethodArguments(p)' = InMethodArguments(p)
                /\ IsLocalSymbol(p)' = IsLocalSymbol(p) /\ SignatureOf(p)' = SignatureOf(p)
    BY <1>7, SameModule
<1>9. \A p : Resolvable(p)' = Resolvable(p)
    BY <1>8 DEF Resolvable
<1>10. \A p : Opens(h, p) => Open(p)
    BY <1>2 DEF Open
<1> HIDE DEF h
<1>11. AgendaFits'
    <2>1. \A e : EntryFits(e)' = EntryFits(e)
        BY <1>8 DEF EntryFits
    <2> QED BY <1>1, <1>2, <2>1 DEF AgendaFits
<1>12. locals \subseteq locals' /\ \A p \in locals' : p \in locals \/ (LocalFits(p) /\ pass = "literals")
    BY DEF LocalsStep
<1>13. LocalsFit'
    <2>1. \A p : LocalFits(p)' = LocalFits(p)
        BY <1>8 DEF LocalFits
    <2> QED BY <2>1, <1>12 DEF LocalsFit, ResolverInv
<1>14. LiteralsFound'
    <2> SUFFICES ASSUME NEW p, IsExpression(p), Examined(p)
                 PROVE  p \in locals' \/ (pass = "literals" /\ Visiting(p)')
        BY <1>8 DEF LiteralsFound
    <2>1. p \in locals \/ (pass = "literals" /\ Visiting(p))
        BY DEF ResolverInv, LiteralsFound
    <2>2. CASE p \in locals
        BY <2>2, <1>12
    <2>3. CASE pass = "literals" /\ Visiting(p)
        BY <2>3, <1>4, <1>5 DEF LiteralsSettled, h
    <2> QED BY <2>1, <2>2, <2>3
<1>15. /\ DOMAIN types \subseteq DOMAIN types'
       /\ \A p \in DOMAIN types' :
             \/ p \in DOMAIN types /\ types'[p] = types[p]
             \/ p = h.at /\ types'[p] \in Types
                  /\ (IsExpression(p) => pass = "types" /\ es = <<>> /\ Opens(h, p))
    <2>1. CASE types' = types
        BY <2>1
    <2>2. CASE types' # types
        <3>1. PICK t \in Types : types' = With(types, h.at, t)
            BY <2>2 DEF TypesStep, h
        <3>2. IsExpression(h.at) => pass = "types" /\ es = <<>> /\ Opens(h, h.at)
            BY <2>2 DEF TypesStep, h
        <3>3. /\ DOMAIN types' = DOMAIN types \union {h.at} /\ types'[h.at] = t
              /\ \A p \in DOMAIN types : p # h.at => types'[p] = types[p]
            BY <3>1 DEF With
        <3>4. ASSUME NEW p \in DOMAIN types'
              PROVE  \/ p \in DOMAIN types /\ types'[p] = types[p]
                     \/ p = h.at /\ types'[p] \in Types
                           /\ (IsExpression(p) => pass = "types" /\ es = <<>> /\ Opens(h, p))
            <4>1. CASE p = h.at
                BY <4>1, <3>2, <3>3
            <4>2. CASE p # h.at
                BY <4>2, <3>3
            <4> QED BY <4>1, <4>2
        <3> QED BY <3>3, <3>4
    <2> QED BY <2>1, <2>2
<1>16. TypesFit'
    <2> SUFFICES ASSUME NEW p \in DOMAIN types'
                 PROVE  /\ types'[p] \in Types
                        /\ IsExpression(p) => pass = "types" /\ ~Open(p)'
        BY <1>8 DEF TypesFit
    <2>1. CASE p \in DOMAIN types /\ types'[p] = types[p]
        BY <2>1, <1>3 DEF ResolverInv, TypesFit
    <2>2. CASE p = h.at /\ types'[p] \in Types
                  /\ (IsExpression(p) => pass = "types" /\ es = <<>> /\ Opens(h, p))
        <3>1. es = <<>> => ~(\E e \in Range(es) : Opens(e, p))
            BY DEF Range
        <3> QED BY <2>2, <3>1, <1>6
    <2> QED BY <2>1, <2>2, <1>15
<1>17. \A p \in DOMAIN types : IsExpression(p) => types'[p] = types[p]
    BY <1>10, <1>15 DEF ResolverInv, TypesFit
<1>18. SignaturesTyped'
    <2> SUFFICES ASSUME pass # "literals", NEW f \in FunctionNodes, NEW p \in SignatureOf(f)
                 PROVE  p \in DOMAIN types' \/ (pass = "signatures" /\ Signing(p)')
        BY <1>8 DEF SignaturesTyped, Typed
    <2>1. p \in DOMAIN types \/ (pass = "signatures" /\ Signing(p))
        BY DEF ResolverInv, SignaturesTyped, Typed
    <2>2. CASE p \in DOMAIN types
        BY <2>2, <1>15
    <2>3. CASE pass = "signatures" /\ Signing(p)
        BY <2>3, <1>4, <1>5 DEF SignaturesSettled, h
    <2> QED BY <2>1, <2>2, <2>3
<1>19. DOMAIN targets \subseteq DOMAIN targets' /\ TargetsFit'
    BY <1>8 DEF TargetsStep, TargetsFit, ResolverInv
<1>20. /\ problems \subseteq problems'
       /\ \A p \in problems' : \/ p \in problems
                               \/ /\ p = h.at /\ pass = "types" /\ es = <<>> /\ h.do = "leave"
                                  /\ Kind(p) = "if"
    BY DEF ProblemsStep, h
<1>21. ProblemsFit'
    <2> SUFFICES ASSUME NEW p \in problems'
                 PROVE  pass = "types" /\ Resolvable(p) /\ Kind(p) = "if" /\ ~Open(p)'
        BY <1>8, <1>9 DEF ProblemsFit
    <2>1. CASE p \in problems
        BY <2>1, <1>3 DEF ResolverInv, ProblemsFit, Resolvable
    <2>2. CASE p = h.at /\ pass = "types" /\ es = <<>> /\ h.do = "leave" /\ Kind(p) = "if"
        <3>1. EntryFits(h)
            BY <1>1, <1>2
        <3>2. Resolvable(p)
            BY <2>2, <3>1 DEF EntryFits, Resolvable
        <3>3. Opens(h, p)
            BY <2>2 DEF Opens
        <3>4. ~(\E e \in Range(es) : Opens(e, p))
            BY <2>2 DEF Range
        <3> QED BY <2>2, <3>2, <3>3, <3>4, <1>6 DEF Resolvable
    <2> QED BY <2>1, <2>2, <1>20
<1>22. Resolving'
    <2> SUFFICES ASSUME pass = "types", NEW p, Resolvable(p)
                 PROVE  /\ p \in locals' => p \in DOMAIN types' \/ Visiting(p)'
                        /\ Kind(p) = "call" => p \in DOMAIN targets' \/ Open(p)'
                        /\ Kind(p) = "if" =>
                              \/ Kid(p, 1) \in DOMAIN types'
                                    /\ (types'[Kid(p, 1)] = "Bool" <=> p \notin problems')
                              \/ Open(p)'
        BY <1>8, <1>9 DEF Resolving, Typed, Checked, Kid
    <2>1. /\ p \in locals => p \in DOMAIN types \/ Visiting(p)
          /\ Kind(p) = "call" => p \in DOMAIN targets \/ Open(p)
          /\ Kind(p) = "if" => Checked(p) \/ Open(p)
        BY DEF ResolverInv, Resolving, Typed
    <2>2. p \in locals' => p \in locals
        BY <1>12
    <2>3. p \in locals' => p \in DOMAIN types' \/ Visiting(p)'
        BY <2>1, <2>2, <1>4, <1>5, <1>15 DEF TypesSettled, h
    <2>4. Kind(p) = "call" => p \in DOMAIN targets' \/ Open(p)'
        BY <2>1, <1>4, <1>5, <1>19 DEF TypesSettled, h
    <2>5. ASSUME Kind(p) = "if"
          PROVE  \/ Kid(p, 1) \in DOMAIN types'
                       /\ (types'[Kid(p, 1)] = "Bool" <=> p \notin problems')
                 \/ Open(p)'
        <3>1. CASE Open(p)
            BY <3>1, <2>5, <1>4, <1>5 DEF TypesSettled, h
        <3>2. CASE ~Open(p)
            <4>1. Typed(Kid(p, 1)) /\ (types[Kid(p, 1)] = "Bool" <=> p \notin problems)
                BY <3>2, <2>1, <2>5 DEF Checked
            <4>2. IsExpression(Kid(p, 1))
                <5>1. IsExpression(p)
                    BY DEF Resolvable
                <5>2. At(p).kids \in Seq(Nodes) /\ Len(At(p).kids) >= 1
                    BY <5>1, <2>5, <1>1, ExpressionNode, NodesAre DEF Kind
                <5>3. 1 \in 1..Len(At(p).kids)
                    BY <5>2
                <5>4. 1 \in ExpressionKids(At(p))
                    BY <2>5, <5>3, NamesAssumption DEF Kind, ExpressionKids
                <5> QED BY <5>1, <5>4, <1>1, KidIsExpression
            <4>3. Kid(p, 1) \in DOMAIN types' /\ types'[Kid(p, 1)] = types[Kid(p, 1)]
                BY <4>1, <4>2, <1>15, <1>17 DEF Typed
            <4>4. p \in problems' <=> p \in problems
                <5>1. p = h.at /\ h.do = "leave" => Opens(h, p)
                    BY DEF Opens
                <5> QED BY <5>1, <3>2, <1>10, <1>20
            <4> QED BY <4>1, <4>3, <4>4
        <3> QED BY <3>1, <3>2
    <2> QED BY <2>3, <2>4, <2>5
<1>23. EndsWell'
    BY DEF EndsWell
<1> QED BY <1>1, <1>8, <1>11, <1>13, <1>14, <1>16, <1>18, <1>19, <1>21, <1>22, <1>23
        DEF ResolverInv

-----------------------------------------------------------------------------
(* What the entries of a step open.                                         *)

LEMMA AboveKid ==
    ASSUME NEW q \in Seq(Nat), NEW i \in Nat, NEW p \in Seq(Nat), Above(Kid(q, i), p)
    PROVE  Above(q, p) /\ Len(q) < Len(p) /\ p[Len(q) + 1] = i
<1> DEFINE n == Len(q)
           k == Kid(q, i)
<1>1. n \in Nat /\ Len(p) \in Nat
    OBVIOUS
<1>2. k \in Seq(Nat) /\ Len(k) = n + 1 /\ k[n + 1] = i /\ \A j \in 1..n : k[j] = q[j]
    BY DEF Kid
<1>3. k = SubSeq(p, 1, n + 1) /\ n + 1 <= Len(p)
    BY <1>2 DEF Above
<1> HIDE DEF k, n
<1>4. \A j \in 1..(n + 1) : k[j] = p[j]
    BY <1>1, <1>3
<1>5. p[n + 1] = i /\ \A j \in 1..n : q[j] = p[j]
    BY <1>1, <1>2, <1>4
<1>6. SubSeq(p, 1, n) \in Seq(Nat) /\ Len(SubSeq(p, 1, n)) = n
      /\ \A j \in 1..n : SubSeq(p, 1, n)[j] = p[j]
    BY <1>1, <1>3
<1>7. q = SubSeq(p, 1, n)
    BY <1>5, <1>6 DEF n
<1> QED BY <1>1, <1>3, <1>5, <1>7 DEF Above, n

LEMMA AboveItself ==
    ASSUME NEW p \in Seq(Nat)
    PROVE  Above(p, p)
BY DEF Above

LEMMA ModuleAbove ==
    ASSUME NEW p \in Seq(Nat)
    PROVE  Above(<<>>, p)
<1>1. <<>> \in Seq(Nat) /\ Len(<<>>) = 0 /\ Len(p) \in Nat
    OBVIOUS
<1>2. SubSeq(p, 1, 0) = <<>>
    OBVIOUS
<1> QED BY <1>1, <1>2 DEF Above

\* The children of an expression are different kids of it.
LEMMA ChildrenAreKids ==
    ASSUME Rooted, NEW q, IsExpression(q)
    PROVE  /\ Children(q) \in Seq(Seq(Nat))
           /\ \A a, b \in DOMAIN Children(q) : a # b =>
                 \E i, j \in Nat : i # j /\ Children(q)[a] = Kid(q, i) /\ Children(q)[b] = Kid(q, j)
           /\ \A a \in DOMAIN Children(q) :
                 \E i \in ExpressionKids(At(q)) : i \in Nat /\ Children(q)[a] = Kid(q, i)
<1> DEFINE m == Len(At(q).kids)
<1>1. /\ q \in Seq(Nat) /\ m \in Nat
      /\ Kind(q) = "call" => m >= 1
    <2>1. q \in Seq(Nat) /\ At(q) \in Nodes
        BY ExpressionNode
    <2> QED BY <2>1, NodesAre DEF Kind
<1>2. \A i \in Nat : Kid(q, i) \in Seq(Nat)
    BY <1>1, AtKid
<1> HIDE DEF m
<1>3. \E n \in Nat, d \in Nat :
         /\ Children(q) = [k \in 1..n |-> Kid(q, k + d)]
         /\ \A k \in 1..n : k + d \in ExpressionKids(At(q))
    <2>1. CASE Kind(q) = "fun"
        <3>1. Children(q) = <<Kid(q, 4)>>
            BY <2>1 DEF Children, Body
        <3>2. Children(q) = [k \in 1..1 |-> Kid(q, k + 3)]
            BY <3>1
        <3>3. \A k \in 1..1 : k + 3 \in ExpressionKids(At(q))
            BY <2>1 DEF ExpressionKids, Kind
        <3>4. 1 \in Nat /\ 3 \in Nat
            OBVIOUS
        <3> QED BY <3>2, <3>3, <3>4
    <2>2. CASE Kind(q) = "call"
        <3> DEFINE n == m - 1
        <3>1. n \in Nat /\ 1 \in Nat /\ m - 2 + 1 = n /\ \A k \in 1..n : 2 + k - 1 = k + 1
            BY <2>2, <1>1
        <3>2. Children(q) = [k \in 1..(m - 2 + 1) |-> Kid(q, 2 + k - 1)]
            BY <2>2 DEF Children, Arguments, Kids, m
        <3>3. Children(q) = [k \in 1..n |-> Kid(q, k + 1)]
            BY <3>1, <3>2
        <3>4. \A k \in 1..n : k + 1 \in ExpressionKids(At(q))
            BY <2>2, <1>1 DEF ExpressionKids, Kind, m
        <3> HIDE DEF n
        <3> QED BY <3>1, <3>3, <3>4
    <2>3. CASE Kind(q) # "fun" /\ Kind(q) # "call" /\ Kind(q) \in Names \union Numbers \union {"string"}
        <3>1. Children(q) = <<>>
            BY <2>3 DEF Children
        <3>2. Children(q) = [k \in 1..0 |-> Kid(q, k + 0)]
            BY <3>1
        <3>3. 0 \in Nat /\ \A k \in 1..0 : k + 0 \in ExpressionKids(At(q))
            OBVIOUS
        <3> QED BY <3>2, <3>3
    <2>4. CASE Kind(q) # "fun" /\ Kind(q) # "call" /\ Kind(q) \notin Names \union Numbers \union {"string"}
        <3>1. Children(q) = [k \in 1..(m - 1 + 1) |-> Kid(q, 1 + k - 1)]
            BY <2>4 DEF Children, Kids, m
        <3>2. m - 1 + 1 = m /\ \A k \in 1..m : 1 + k - 1 = k + 0
            BY <1>1
        <3>3. Children(q) = [k \in 1..m |-> Kid(q, k + 0)]
            BY <3>1, <3>2
        <3>4. \A k \in 1..m : k + 0 \in ExpressionKids(At(q))
            BY <2>4, <1>1 DEF ExpressionKids, Kind, m
        <3>5. 0 \in Nat
            OBVIOUS
        <3> QED BY <3>3, <3>4, <3>5, <1>1
    <2> QED BY <2>1, <2>2, <2>3, <2>4
<1>4. PICK n \in Nat, d \in Nat :
         /\ Children(q) = [k \in 1..n |-> Kid(q, k + d)]
         /\ \A k \in 1..n : k + d \in ExpressionKids(At(q))
    BY <1>3
<1>5. Children(q) \in Seq(Seq(Nat)) /\ DOMAIN Children(q) = 1..n
      /\ \A k \in 1..n : Children(q)[k] = Kid(q, k + d)
    BY <1>2, <1>4
<1>6. ASSUME NEW a \in 1..n, NEW b \in 1..n, a # b
      PROVE  \E i, j \in Nat : i # j /\ Children(q)[a] = Kid(q, i) /\ Children(q)[b] = Kid(q, j)
    <2>1. a + d \in Nat /\ b + d \in Nat /\ a + d # b + d
        BY <1>6
    <2> QED BY <2>1, <1>5
<1>7. ASSUME NEW a \in 1..n
      PROVE  \E i \in ExpressionKids(At(q)) : i \in Nat /\ Children(q)[a] = Kid(q, i)
    <2>1. a + d \in Nat
        BY <1>7
    <2>2. a + d \in ExpressionKids(At(q))
        BY <1>4
    <2> QED BY <2>1, <2>2, <1>5
<1> QED BY <1>5, <1>6, <1>7

\* What is visited below an expression is one.
LEMMA ChildrenAreExpressions ==
    ASSUME Rooted, NEW q, IsExpression(q), NEW a \in DOMAIN Children(q)
    PROVE  /\ IsExpression(Children(q)[a])
           /\ \E i \in ExpressionKids(At(q)) : i \in Nat /\ Children(q)[a] = Kid(q, i)
BY ChildrenAreKids, KidIsExpression

\* No path leads through two children, or ends above them.
LEMMA ChildrenApart ==
    ASSUME Rooted, NEW q, IsExpression(q), NEW p \in Seq(Nat)
    PROVE  /\ \A a, b \in DOMAIN Children(q) : a # b =>
                 ~(Above(Children(q)[a], p) /\ Above(Children(q)[b], p))
           /\ \A a \in DOMAIN Children(q) : Above(Children(q)[a], p) => Above(q, p) /\ p # q
<1>1. q \in Seq(Nat)
    BY DEF IsExpression
<1>2. ASSUME NEW a \in DOMAIN Children(q), NEW b \in DOMAIN Children(q), a # b,
             Above(Children(q)[a], p), Above(Children(q)[b], p)
      PROVE  FALSE
    <2>1. PICK i, j \in Nat : i # j /\ Children(q)[a] = Kid(q, i) /\ Children(q)[b] = Kid(q, j)
        BY <1>2, ChildrenAreKids
    <2>2. p[Len(q) + 1] = i /\ p[Len(q) + 1] = j
        BY <1>1, <1>2, <2>1, AboveKid
    <2> QED BY <2>1, <2>2
<1>3. ASSUME NEW a \in DOMAIN Children(q), Above(Children(q)[a], p)
      PROVE  Above(q, p) /\ p # q
    <2>1. PICK i \in Nat : Children(q)[a] = Kid(q, i)
        BY ChildrenAreKids
    <2>2. Above(q, p) /\ Len(q) < Len(p) /\ Len(p) \in Nat
        BY <1>1, <1>3, <2>1, AboveKid
    <2> QED BY <2>2
<1> QED BY <1>2, <1>3

LEMMA KidOutside ==
    ASSUME Rooted, NEW q, Resolvable(q), ~(Kind(q) = "call" /\ InDot(q)),
           NEW i \in ExpressionKids(At(q))
    PROVE  Resolvable(Kid(q, i))
<1>1. IsExpression(q) /\ IsExpression(Kid(q, i)) /\ Len(Kid(q, i)) = Len(q) + 1 /\ i \in Nat
    BY KidIsExpression DEF Resolvable
<1>2. q \in Seq(Nat) /\ Len(q) \in Nat
    BY <1>1 DEF IsExpression
<1>3. ASSUME NEW k \in 1..(Len(Kid(q, i)) - 1), Kind(SubSeq(Kid(q, i), 1, k)) = "call",
             InDot(SubSeq(Kid(q, i), 1, k))
      PROVE  FALSE
    <2>1. k \in 1..Len(q)
        BY <1>1, <1>2
    <2>2. SubSeq(Kid(q, i), 1, k) = SubSeq(q, 1, k)
        BY <1>1, <1>2, <2>1 DEF Kid
    <2>3. CASE k = Len(q)
        BY <2>2, <2>3, <1>2, <1>3, PathIsItsOwn
    <2>4. CASE k # Len(q)
        <3>1. k \in 1..(Len(q) - 1)
            BY <2>1, <2>4, <1>2
        <3> QED BY <3>1, <2>2, <1>3 DEF Resolvable, InMethodArguments
    <2> QED BY <2>3, <2>4
<1> QED BY <1>1, <1>3 DEF Resolvable, InMethodArguments

\* What is below a method call is an argument of it.
LEMMA MethodArguments ==
    ASSUME NEW q \in Seq(Nat), NEW p \in Seq(Nat), Above(q, p), p # q, q # <<>>,
           Kind(q) = "call", InDot(q)
    PROVE  InMethodArguments(p)
<1>1. q = SubSeq(p, 1, Len(q)) /\ Len(q) <= Len(p) /\ Len(q) \in Nat /\ Len(p) \in Nat
    BY DEF Above
<1>2. Len(q) # Len(p)
    BY <1>1, PathIsItsOwn
<1>3. Len(q) # 0
    OBVIOUS
<1>4. Len(q) \in 1..(Len(p) - 1)
    BY <1>1, <1>2, <1>3
<1> QED BY <1>1, <1>4 DEF InMethodArguments

LEMMA OnceJoin ==
    ASSUME NEW a \in Seq(AnEntry), NEW b \in Seq(AnEntry), Once(a), Once(b),
           \A x \in Range(a) : \A y \in Range(b) : \A p :
               IsExpression(p) => ~(Opens(x, p) /\ Opens(y, p))
    PROVE  /\ a \o b \in Seq(AnEntry) /\ Range(a \o b) = Range(a) \union Range(b)
           /\ Once(a \o b)
<1> DEFINE t == a \o b
           n == Len(a)
           m == Len(b)
<1>1. /\ n \in Nat /\ m \in Nat /\ DOMAIN a = 1..n /\ DOMAIN b = 1..m
      /\ t \in Seq(AnEntry) /\ DOMAIN t = 1..(n + m)
    OBVIOUS
<1>2. (\A i \in 1..n : t[i] = a[i]) /\ \A i \in 1..m : t[i + n] = b[i]
    BY <1>1
<1> HIDE DEF t, n, m
<1>3. \A i \in 1..(n + m) : i \in 1..n \/ (i - n \in 1..m /\ (i - n) + n = i)
    BY <1>1
<1>4. Range(t) = Range(a) \union Range(b)
    <2>1. \A i \in 1..(n + m) : t[i] \in Range(a) \union Range(b)
        BY <1>1, <1>2, <1>3 DEF Range
    <2>2. ASSUME NEW e \in Range(a) PROVE e \in Range(t)
        <3>1. PICK i \in 1..n : e = a[i]
            BY <1>1 DEF Range
        <3>2. i \in 1..(n + m) /\ e = t[i]
            BY <3>1, <1>1, <1>2
        <3> QED BY <3>2, <1>1 DEF Range
    <2>3. ASSUME NEW e \in Range(b) PROVE e \in Range(t)
        <3>1. PICK i \in 1..m : e = b[i]
            BY <1>1 DEF Range
        <3>2. i + n \in 1..(n + m) /\ e = t[i + n]
            BY <3>1, <1>1, <1>2
        <3> QED BY <3>2, <1>1 DEF Range
    <2>4. Range(t) \subseteq Range(a) \union Range(b)
        BY <2>1, <1>1 DEF Range
    <2> QED BY <2>2, <2>3, <2>4
<1>5. Once(t)
    <2> SUFFICES ASSUME NEW i \in 1..(n + m), NEW j \in 1..(n + m), i < j,
                        NEW p, IsExpression(p)
                 PROVE  ~(Opens(t[i], p) /\ Opens(t[j], p))
        BY <1>1 DEF Once
    <2>1. CASE j \in 1..n
        <3>1. i \in 1..n
            BY <2>1, <1>1
        <3> QED BY <2>1, <3>1, <1>1, <1>2 DEF Once
    <2>2. CASE j \notin 1..n /\ i \in 1..n
        <3>1. t[i] = a[i] /\ i \in DOMAIN a
            BY <2>2, <1>1, <1>2
        <3>2. t[j] = b[j - n] /\ j - n \in DOMAIN b
            BY <2>2, <1>1, <1>2, <1>3
        <3>3. t[i] \in Range(a) /\ t[j] \in Range(b)
            BY <3>1, <3>2 DEF Range
        <3> QED BY <3>3
    <2>3. CASE j \notin 1..n /\ i \notin 1..n
        <3> DEFINE c == i - n
                   d == j - n
        <3>1. c \in 1..m /\ d \in 1..m /\ c < d /\ c + n = i /\ d + n = j
            BY <2>3, <1>1
        <3> HIDE DEF c, d
        <3>2. t[i] = b[c] /\ t[j] = b[d]
            BY <3>1, <1>2
        <3> QED BY <3>1, <3>2, <1>1 DEF Once
    <2> QED BY <2>1, <2>2, <2>3
<1> QED BY <1>1, <1>4, <1>5 DEF t

LEMMA OnceNone ==
    ASSUME NEW es \in Seq(AnEntry), \A e \in Range(es) : e.do \notin {"visit", "leave"}
    PROVE  Once(es)
<1>1. \A i \in DOMAIN es : \A p : ~Opens(es[i], p)
    BY DEF Range, Opens, Covers
<1> QED BY <1>1 DEF Once

LEMMA OnceOne ==
    ASSUME NEW e \in AnEntry
    PROVE  <<e>> \in Seq(AnEntry) /\ Once(<<e>>) /\ Range(<<e>>) = {e}
<1>1. <<e>> \in Seq(AnEntry) /\ DOMAIN <<e>> = 1..1 /\ <<e>>[1] = e
    OBVIOUS
<1>2. \A i, j \in 1..1 : ~(i < j)
    OBVIOUS
<1>3. \A i \in 1..1 : i = 1
    OBVIOUS
<1>4. 1 \in 1..1
    OBVIOUS
<1>5. Range(<<e>>) = {e}
    BY <1>1, <1>3, <1>4 DEF Range
<1> QED BY <1>1, <1>2, <1>5 DEF Once

LEMMA OnceEmpty ==
    <<>> \in Seq(AnEntry) /\ Once(<<>>) /\ Range(<<>>) = {} /\ \A e : Within(<<>>, e)
BY DEF Once, Range, Within

LEMMA OnceChildren ==
    ASSUME Rooted, NEW q, IsExpression(q)
    PROVE  Once(Entries("visit", Children(q)))
<1> DEFINE es == Entries("visit", Children(q))
<1>1. DOMAIN es = DOMAIN Children(q)
      /\ \A k \in DOMAIN Children(q) : es[k].do = "visit" /\ es[k].at = Children(q)[k]
    BY DEF Entries, Entry
<1>2. DOMAIN Children(q) \in SUBSET Nat
    BY ChildrenAreKids
<1> HIDE DEF es
<1> SUFFICES ASSUME NEW i \in DOMAIN es, NEW j \in DOMAIN es, i < j, NEW p, IsExpression(p),
                    Opens(es[i], p), Opens(es[j], p)
             PROVE  FALSE
    BY DEF Once, es
<1>3. p \in Seq(Nat) /\ i # j
    BY <1>1, <1>2 DEF IsExpression
<1>4. Above(Children(q)[i], p) /\ Above(Children(q)[j], p)
    BY <1>1 DEF Opens, Covers
<1> QED BY <1>1, <1>3, <1>4, ChildrenApart

LEMMA OnceInTurns ==
    ASSUME Rooted, NEW q, IsExpression(q)
    PROVE  Once(InTurns("visit", "read", Children(q)))
<1> DEFINE es == InTurns("visit", "read", Children(q))
           n == Len(Children(q))
<1>1. Children(q) \in Seq(Seq(Nat))
    BY ChildrenAreKids
<1>2. n \in Nat /\ DOMAIN Children(q) = 1..n
    BY <1>1
<1> HIDE DEF n
<1>3. DOMAIN es = 1..(2 * n) /\ \A k \in 1..(2 * n) :
          /\ es[k].do = (IF k % 2 = 1 THEN "visit" ELSE "read")
          /\ es[k].at = Children(q)[(k + 1) \div 2]
    BY DEF InTurns, Entry, n
<1> HIDE DEF es
<1> SUFFICES ASSUME NEW i \in DOMAIN es, NEW j \in DOMAIN es, i < j, NEW p, IsExpression(p),
                    Opens(es[i], p), Opens(es[j], p)
             PROVE  FALSE
    BY DEF Once, es
<1>4. p \in Seq(Nat)
    BY DEF IsExpression
<1>5. es[i].do = "visit" /\ es[j].do = "visit"
    BY <1>3 DEF Opens, Covers
<1>6. i % 2 = 1 /\ j % 2 = 1
    BY <1>3, <1>5
<1> DEFINE a == (i + 1) \div 2
           b == (j + 1) \div 2
<1>7. a \in 1..n /\ b \in 1..n /\ a # b
    <2>1. \A k \in 1..(2 * n) :
              k % 2 = 1 => (k + 1) \div 2 \in 1..n /\ k = 2 * ((k + 1) \div 2) - 1
        BY <1>2
    <2>2. i \in 1..(2 * n) /\ j \in 1..(2 * n) /\ i # j
        BY <1>2, <1>3
    <2>3. a \in 1..n /\ b \in 1..n /\ i = 2 * a - 1 /\ j = 2 * b - 1
        BY <2>1, <2>2, <1>6
    <2> QED BY <2>2, <2>3
<1>8. es[i].at = Children(q)[a] /\ es[j].at = Children(q)[b]
    BY <1>3
<1> HIDE DEF a, b
<1>9. Above(Children(q)[a], p) /\ Above(Children(q)[b], p)
    BY <1>5, <1>8 DEF Opens, Covers
<1> QED BY <1>2, <1>4, <1>7, <1>9, ChildrenApart

-----------------------------------------------------------------------------
(* The steps.                                                               *)

LEMMA AtHead ==
    ASSUME ResolverInv, NEW do, NEW ps, Now(do, ps)
    PROVE  /\ Head(agenda) \in Remaining /\ Head(agenda) \in AnEntry /\ Head(agenda).do = do
           /\ Here = Head(agenda).at /\ Here \in Seq(Nat)
           /\ EntryFits(Head(agenda)) /\ agenda # <<>> /\ status = "running" /\ pass \in ps
           /\ agenda \in Seq(AnEntry) /\ Rooted
<1>1. agenda \in Seq(AnEntry) /\ agenda # <<>> /\ Rooted /\ \A e \in Remaining : EntryFits(e)
    BY DEF ResolverInv, AgendaFits, Now
<1>2. Head(agenda) \in Remaining /\ Head(agenda) \in AnEntry
    BY <1>1, OnceEmpty, RangePut DEF Remaining
<1> QED BY <1>1, <1>2 DEF Now, Here, AnEntry

\* Only the status changes.
LEMMA SameState ==
    ASSUME ResolverInv, UNCHANGED <<program, pass, agenda, locals, types, targets, problems>>,
           status' \in Statuses, EndsWell'
    PROVE  ResolverInv'
<1>1. /\ Rooted' = Rooted /\ FunctionNodes' = FunctionNodes
      /\ \A p : Kind(p)' = Kind(p) /\ IsLiteral(p)' = IsLiteral(p)
                /\ Examined(p)' = Examined(p)
                /\ IsExpression(p)' = IsExpression(p)
                /\ InMethodArguments(p)' = InMethodArguments(p)
                /\ IsLocalSymbol(p)' = IsLocalSymbol(p) /\ SignatureOf(p)' = SignatureOf(p)
    BY SameModule
<1>2. /\ Remaining' = Remaining /\ Once(agenda)' = Once(agenda)
      /\ \A p : Visiting(p)' = Visiting(p) /\ Open(p)' = Open(p) /\ Signing(p)' = Signing(p)
    BY SameAgenda
<1>3. AgendaFits' /\ LocalsFit' /\ LiteralsFound'
    BY <1>1, <1>2 DEF ResolverInv, AgendaFits, EntryFits, LocalsFit, LocalFits, LiteralsFound
<1>4. TypesFit' /\ SignaturesTyped' /\ TargetsFit'
    BY <1>1, <1>2 DEF ResolverInv, TypesFit, SignaturesTyped, TargetsFit, Typed
<1>5. ProblemsFit' /\ Resolving'
    BY <1>1, <1>2 DEF ResolverInv, ProblemsFit, Resolving, Resolvable, Typed, Checked, Kid
<1> QED BY <1>1, <1>3, <1>4, <1>5 DEF ResolverInv

LEMMA StopStep ==
    ASSUME ResolverInv, NEW s \in Statuses \ {"resolved", "problems"}, Stop(s)
    PROVE  ResolverInv'
<1>1. /\ UNCHANGED <<program, pass, agenda, locals, types, targets, problems>>
      /\ status' = s
    BY DEF Stop
<1>2. EndsWell'
    BY <1>1 DEF EndsWell
<1> QED BY <1>1, <1>2, SameState

\* The entry is taken and none comes in its place.
LEMMA Takes ==
    ASSUME ResolverInv, NEW do, NEW ps, Now(do, ps), agenda' = Tail(agenda),
           UNCHANGED <<program, pass, status>>,
           TypesStep(<<>>), LocalsStep, TargetsStep, ProblemsStep(<<>>),
           LiteralsSettled(<<>>), SignaturesSettled(<<>>), TypesSettled(<<>>)
    PROVE  ResolverInv'
<1>1. agenda # <<>> /\ status = "running" /\ agenda \in Seq(AnEntry)
    BY AtHead
<1>2. <<>> \o Tail(agenda) = Tail(agenda)
    BY <1>1
<1>3. Replaced(<<>>)
    BY <1>1, <1>2, OnceEmpty DEF Replaced
<1>4. \A e \in Range(<<>>) : EntryFits(e)
    BY OnceEmpty
<1> QED BY <1>1, <1>3, <1>4, Continues

\* A visit of an expression makes the visits es and then ends.
LEMMA DescendReplaces ==
    ASSUME ResolverInv, NEW ps, Now("visit", ps), pass # "signatures",
           NEW es \in Seq(AnEntry), Descend(es), Once(es),
           \A x \in Range(es) : \A p : IsExpression(p) /\ Opens(x, p) => Above(Here, p) /\ p # Here
    PROVE  \E all : /\ Replaced(all) /\ Range(all) = Range(es) \union {Entry("leave", Here)}
                    /\ \A p : Opens(Entry("leave", Here), p) <=> p = Here
                    /\ EntryFits(Entry("leave", Here))
<1> DEFINE h == Head(agenda)
           l == Entry("leave", Here)
           all == es \o <<l>>
<1>1. /\ h \in AnEntry /\ h.do = "visit" /\ Here = h.at /\ Here \in Seq(Nat) /\ EntryFits(h)
      /\ agenda # <<>> /\ status = "running" /\ agenda \in Seq(AnEntry)
    BY AtHead
<1>2. l \in AnEntry /\ l.do = "leave" /\ l.at = Here
    BY <1>1, EntryIs DEF Jobs
<1>3. IsExpression(Here) /\ EntryFits(l)
    BY <1>1, <1>2 DEF EntryFits
<1> HIDE DEF l
<1>4. <<l>> \in Seq(AnEntry) /\ Once(<<l>>) /\ Range(<<l>>) = {l}
    BY <1>2, OnceOne
<1>5. \A p : Opens(l, p) <=> p = Here
    BY <1>2 DEF Opens, Covers
<1>6. all \in Seq(AnEntry) /\ Range(all) = Range(es) \union {l} /\ Once(all)
    <2>1. \A x \in Range(es) : \A y \in Range(<<l>>) : \A p :
              IsExpression(p) => ~(Opens(x, p) /\ Opens(y, p))
        BY <1>4, <1>5
    <2> QED BY <1>4, <2>1, OnceJoin
<1> HIDE DEF all
<1>7. \A p : IsExpression(p) => \A x \in Range(all) : Opens(x, p) => Opens(h, p)
    <2> SUFFICES ASSUME NEW p, IsExpression(p), NEW x \in Range(all), Opens(x, p)
                 PROVE  Opens(h, p)
        OBVIOUS
    <2>1. Above(Here, p)
        BY <1>1, <1>5, <1>6, AboveItself
    <2> QED BY <2>1, <1>1 DEF Opens, Covers
<1>8. program' = program /\ agenda' = all \o Tail(agenda)
    BY DEF Descend, l, all
<1>9. Replaced(all)
    BY <1>1, <1>6, <1>7, <1>8 DEF Replaced, Within
<1> QED BY <1>3, <1>5, <1>6, <1>9 DEF l

LEMMA Descends ==
    ASSUME ResolverInv, NEW ps, Now("visit", ps), pass # "signatures",
           NEW es \in Seq(AnEntry), Descend(es), Once(es),
           \A x \in Range(es) : EntryFits(x)
                /\ \A p : IsExpression(p) /\ Opens(x, p) => Above(Here, p) /\ p # Here,
           pass = "literals" =>
               \A p : IsExpression(p) /\ Examined(p) /\ Above(Here, p) =>
                   \E x \in Range(es) : Covers(x, p),
           pass = "types" =>
               \A p : Resolvable(p) /\ Above(Here, p) =>
                   (p = Here /\ p \notin locals) \/ \E x \in Range(es) : Covers(x, p)
    PROVE  ResolverInv'
<1> DEFINE h == Head(agenda)
           l == Entry("leave", Here)
<1>1. h.do = "visit" /\ Here = h.at /\ status = "running"
    BY AtHead
<1>2. PICK all : /\ Replaced(all) /\ Range(all) = Range(es) \union {l}
                 /\ (\A p : Opens(l, p) <=> p = Here) /\ EntryFits(l)
    BY DescendReplaces
<1> HIDE DEF l
<1>3. UNCHANGED <<program, pass, locals, types, targets, problems, status>>
    BY DEF Descend
<1>4. \A e \in Range(all) : EntryFits(e)
    BY <1>2
<1>5. TypesStep(all) /\ LocalsStep /\ TargetsStep /\ ProblemsStep(all)
    BY <1>3 DEF TypesStep, LocalsStep, TargetsStep, ProblemsStep
<1>6. LiteralsSettled(all) /\ SignaturesSettled(all)
    BY <1>1, <1>2 DEF LiteralsSettled, SignaturesSettled, Covers
<1>7. TypesSettled(all)
    <2> SUFFICES ASSUME pass = "types", NEW p, Resolvable(p), Opens(h, p)
                 PROVE  /\ p \in locals => \E e \in Range(all) : Covers(e, p)
                        /\ \E e \in Range(all) : Opens(e, p)
        BY DEF TypesSettled, Opens
    <2>1. Above(Here, p)
        BY <1>1 DEF Opens, Covers
    <2>2. (p = Here /\ p \notin locals) \/ \E x \in Range(es) : Covers(x, p)
        BY <2>1
    <2> QED BY <2>2, <1>2 DEF Opens
<1> QED BY <1>1, <1>2, <1>3, <1>4, <1>5, <1>6, <1>7, Continues

\* The visits of an expression's children.
LEMMA ChildVisits ==
    ASSUME ResolverInv, NEW ps, Now("visit", ps), pass # "signatures",
           pass = "types" => ~(Kind(Here) = "call" /\ InDot(Here))
    PROVE  LET es == Entries("visit", Children(Here))
           IN /\ es \in Seq(AnEntry) /\ Once(es)
              /\ \A x \in Range(es) : EntryFits(x)
                    /\ \A p : IsExpression(p) /\ Opens(x, p) => Above(Here, p) /\ p # Here
              /\ \A p : IsExpression(p) /\ Above(Here, p) =>
                    p = Here \/ \E x \in Range(es) : Covers(x, p)
<1> DEFINE q == Here
           es == Entries("visit", Children(q))
<1>1. Rooted /\ EntryFits(Head(agenda)) /\ q = Head(agenda).at /\ Head(agenda).do = "visit"
      /\ q \in Seq(Nat)
    BY AtHead
<1>2. IsExpression(q) /\ (pass = "types" => Resolvable(q))
    BY <1>1 DEF EntryFits, Resolvable
<1> HIDE DEF q
<1>3. Children(q) \in Seq(Seq(Nat))
    BY <1>1, <1>2, ChildrenAreKids
<1>4. /\ es \in Seq(AnEntry) /\ Once(es)
      /\ Range(es) = {Entry("visit", c) : c \in Range(Children(q))}
    BY <1>1, <1>2, <1>3, EntriesAre, OnceChildren DEF Jobs
<1> HIDE DEF es
<1>5. ASSUME NEW x \in Range(es)
      PROVE  /\ EntryFits(x)
             /\ \A p : IsExpression(p) /\ Opens(x, p) => Above(q, p) /\ p # q
    <2>1. PICK a \in DOMAIN Children(q) : x = Entry("visit", Children(q)[a])
        BY <1>4 DEF Range
    <2>2. x.do = "visit" /\ x.at = Children(q)[a]
        BY <2>1 DEF Entry
    <2>3. PICK i \in ExpressionKids(At(q)) : Children(q)[a] = Kid(q, i)
        BY <1>1, <1>2, ChildrenAreExpressions
    <2>4. IsExpression(Kid(q, i)) /\ (pass = "types" => Resolvable(Kid(q, i)))
        BY <1>1, <1>2, KidIsExpression, KidOutside DEF q
    <2>5. EntryFits(x)
        BY <2>2, <2>3, <2>4 DEF EntryFits, Resolvable
    <2>6. ASSUME NEW p, IsExpression(p), Opens(x, p) PROVE Above(q, p) /\ p # q
        <3>1. p \in Seq(Nat) /\ Above(Children(q)[a], p)
            BY <2>2, <2>6 DEF Opens, Covers, IsExpression
        <3> QED BY <3>1, <1>1, <1>2, ChildrenApart
    <2> QED BY <2>5, <2>6
<1>6. ASSUME NEW p, IsExpression(p), Above(q, p), p # q
      PROVE  \E x \in Range(es) : Covers(x, p)
    <2>1. PICK a \in DOMAIN Children(q) : Above(Children(q)[a], p)
        BY <1>1, <1>6, ChildrenCover
    <2>2. Entry("visit", Children(q)[a]) \in Range(es)
        BY <1>4 DEF Range
    <2> QED BY <2>1, <2>2 DEF Covers, Entry
<1> QED BY <1>4, <1>5, <1>6 DEF es, q

\* A node without children is all that its visit leads to.
LEMMA LeafAlone ==
    ASSUME ResolverInv, NEW ps, Now("visit", ps), pass # "signatures",
           Kind(Here) \in Names \union Numbers \union {"string"},
           NEW p, IsExpression(p), Opens(Head(agenda), p)
    PROVE  p = Here
<1>1. Rooted /\ Here = Head(agenda).at /\ Head(agenda).do = "visit"
    BY AtHead
<1>2. Above(Here, p)
    BY <1>1 DEF Opens, Covers
<1>3. Kind(Here) # "fun" /\ Kind(Here) # "call"
    BY NamesAssumption
<1>4. Children(Here) = <<>>
    BY <1>3 DEF Children
<1> QED BY <1>1, <1>2, <1>4, ChildrenCover

-----------------------------------------------------------------------------
(* LiteralResolver.                                                         *)

LEMMA LiteralSteps ==
    ASSUME ResolverInv,
           FollowNullLeft \/ DescendLiterals \/ ResolveLiteral \/ LeaveLiterals
    PROVE  ResolverInv'
<1>1. CASE FollowNullLeft
    BY <1>1, StopStep DEF FollowNullLeft, Statuses
<1>2. CASE DescendLiterals
    <2> DEFINE es == Entries("visit", Children(Here))
    <2>1. Now("visit", {"literals"}) /\ ~Examined(Here) /\ Descend(es)
        BY <1>2 DEF DescendLiterals, Examined
    <2>2. pass = "literals"
        BY <2>1 DEF Now
    <2>3. /\ es \in Seq(AnEntry) /\ Once(es)
          /\ \A x \in Range(es) : EntryFits(x)
                /\ \A p : IsExpression(p) /\ Opens(x, p) => Above(Here, p) /\ p # Here
          /\ \A p : IsExpression(p) /\ Above(Here, p) =>
                p = Here \/ \E x \in Range(es) : Covers(x, p)
        BY <2>1, <2>2, ChildVisits
    <2> HIDE DEF es
    <2>4. \A p : IsExpression(p) /\ Examined(p) /\ Above(Here, p) =>
              \E x \in Range(es) : Covers(x, p)
        BY <2>1, <2>3
    <2> QED BY <2>1, <2>2, <2>3, <2>4, Descends
<1>3. CASE ResolveLiteral
    <2>1. Now("visit", {"literals"}) /\ IsLiteral(Here)
        BY <1>3 DEF ResolveLiteral
    <2>2. pass = "literals" /\ Here = Head(agenda).at /\ Head(agenda).do = "visit"
          /\ EntryFits(Head(agenda))
        BY <2>1, AtHead
    <2>3. CASE ~IsLocalSymbol(Here)
        BY <1>3, <2>3, StopStep DEF ResolveLiteral, Statuses
    <2>4. CASE IsLocalSymbol(Here) /\ ~Replaceable(Parent(Here))
        BY <1>3, <2>4, StopStep DEF ResolveLiteral, Statuses
    <2>5. CASE IsLocalSymbol(Here) /\ Replaceable(Parent(Here))
        <3>1. /\ locals' = locals \union {Here} /\ agenda' = Tail(agenda)
              /\ UNCHANGED <<program, pass, types, targets, problems, status>>
            BY <1>3, <2>5 DEF ResolveLiteral
        <3>2. LocalFits(Here)
            BY <2>1, <2>2, <2>5 DEF EntryFits, LocalFits
        <3>3. TypesStep(<<>>) /\ LocalsStep /\ TargetsStep /\ ProblemsStep(<<>>)
            BY <3>1, <3>2, <2>2 DEF TypesStep, LocalsStep, TargetsStep, ProblemsStep
        <3>4. LiteralsSettled(<<>>)
            <4>1. \A p : IsExpression(p) /\ Opens(Head(agenda), p) => p = Here
                BY <2>1, <2>2, LeafAlone DEF IsLiteral
            <4> QED BY <4>1, <3>1 DEF LiteralsSettled, Opens
        <3>5. SignaturesSettled(<<>>) /\ TypesSettled(<<>>)
            BY <2>2 DEF SignaturesSettled, TypesSettled
        <3> QED BY <2>1, <3>1, <3>3, <3>4, <3>5, Takes
    <2> QED BY <2>3, <2>4, <2>5
<1>4. CASE LeaveLiterals
    <2>1. Now("leave", {"literals"}) /\ Done
        BY <1>4 DEF LeaveLiterals
    <2>2. pass = "literals" /\ Head(agenda).do = "leave"
        BY <2>1, AtHead
    <2>3. /\ agenda' = Tail(agenda)
          /\ UNCHANGED <<program, pass, locals, types, targets, problems, status>>
        BY <2>1 DEF Done
    <2>4. TypesStep(<<>>) /\ LocalsStep /\ TargetsStep /\ ProblemsStep(<<>>)
        BY <2>3 DEF TypesStep, LocalsStep, TargetsStep, ProblemsStep
    <2>5. LiteralsSettled(<<>>) /\ SignaturesSettled(<<>>) /\ TypesSettled(<<>>)
        BY <2>2 DEF LiteralsSettled, SignaturesSettled, TypesSettled, Covers
    <2> QED BY <2>1, <2>3, <2>4, <2>5, Takes
<1> QED BY <1>1, <1>2, <1>3, <1>4

-----------------------------------------------------------------------------
(* FunctionSignatureResolver, and the nodes that are given a type.          *)

\* A path that leaves the expressions does not come back to them.
LEMMA NoWayBack ==
    ASSUME NEW q \in Seq(Nat), NEW r \in Seq(Nat), Len(r) >= 1, r[1] \notin ExpressionKids(At(q))
    PROVE  ~IsExpression(q \o r)
<1> DEFINE t == q \o r
<1>1. Len(q) \in Nat /\ Len(r) \in Nat /\ t \in Seq(Nat) /\ Len(t) = Len(q) + Len(r)
      /\ t[Len(q) + 1] = r[1]
    OBVIOUS
<1>2. SubSeq(t, 1, Len(q)) = q
    <2> DEFINE s == SubSeq(t, 1, Len(q))
    <2>1. s \in Seq(Nat) /\ Len(s) = Len(q) /\ \A k \in 1..Len(q) : s[k] = q[k]
        BY <1>1
    <2> HIDE DEF s
    <2>2. s = [k \in 1..Len(q) |-> s[k]] /\ q = [k \in 1..Len(q) |-> q[k]]
        BY <2>1
    <2>3. s = q
        BY <2>1, <2>2
    <2> QED BY <2>3 DEF s
<1> HIDE DEF t
<1>3. Len(q) + 1 \in 1..Len(t) /\ (Len(q) + 1) - 1 = Len(q)
    BY <1>1
<1> QED BY <1>1, <1>2, <1>3 DEF IsExpression, t

LEMMA TypesAreNoExpressions ==
    ASSUME Rooted
    PROVE  /\ \A f \in FunctionNodes : \A p \in SignatureOf(f) : ~IsExpression(p)
           /\ \A q \in Seq(Nat) : ~IsExpression(q) => ~IsExpression(Kid(q, 1))
           /\ \A q : IsExpression(q) /\ Kind(q) = "call" =>
                 \A p \in Range(TypeVariables(q)) : ~IsExpression(p)
<1>1. ASSUME NEW f \in FunctionNodes, NEW p \in SignatureOf(f)
      PROVE  ~IsExpression(p)
    <2>1. f \in Seq(Nat) /\ Len(f) = 1 /\ Kind(f) = "fun"
        BY FunctionsAre DEF FunctionNodes
    <2>2. ExpressionKids(At(f)) = {4}
        BY <2>1 DEF ExpressionKids, Kind
    <2>3. ParamTypes(f) \in Seq(Seq(Nat)) /\ ReturnType(f) \in Seq(Nat)
        BY SignatureIs
    <2>4. CASE p = ReturnType(f)
        <3>1. p = f \o <<3>> /\ <<3>> \in Seq(Nat) /\ Len(<<3>>) >= 1 /\ <<3>>[1] = 3
            BY <2>1, <2>4 DEF ReturnType, Kid
        <3>2. 3 \notin ExpressionKids(At(f))
            BY <2>2
        <3> QED BY <2>1, <3>1, <3>2, NoWayBack
    <2>5. CASE p \in Range(ParamTypes(f))
        <3>1. PICK k \in DOMAIN ParamTypes(f) : p = ParamTypes(f)[k]
            BY <2>5 DEF Range
        <3>2. k \in Nat
            BY <2>3, <3>1
        <3>3. p = f \o <<2, k, 2>>
            BY <3>1 DEF ParamTypes
        <3>4. <<2, k, 2>> \in Seq(Nat) /\ Len(<<2, k, 2>>) >= 1 /\ <<2, k, 2>>[1] = 2
            BY <3>2
        <3>5. 2 \notin ExpressionKids(At(f))
            BY <2>2
        <3> QED BY <2>1, <3>3, <3>4, <3>5, NoWayBack
    <2> QED BY <2>4, <2>5 DEF SignatureOf
<1>2. ASSUME NEW q \in Seq(Nat), IsExpression(Kid(q, 1)) PROVE IsExpression(q)
    <2>1. Kid(q, 1) \in Seq(Nat) /\ Len(Kid(q, 1)) = Len(q) + 1 /\ Len(q) \in Nat
        BY DEF Kid
    <2>2. ASSUME NEW k \in 1..Len(q) PROVE q[k] \in ExpressionKids(At(SubSeq(q, 1, k - 1)))
        <3>1. k \in 1..Len(Kid(q, 1)) /\ Kid(q, 1)[k] = q[k]
            BY <2>1 DEF Kid
        <3>2. SubSeq(Kid(q, 1), 1, k - 1) = SubSeq(q, 1, k - 1)
            BY <2>1 DEF Kid
        <3> QED BY <3>1, <3>2, <1>2 DEF IsExpression
    <2> QED BY <2>2 DEF IsExpression
<1>3. ASSUME NEW q, IsExpression(q), Kind(q) = "call", NEW p \in Range(TypeVariables(q))
      PROVE  ~IsExpression(p)
    <2>1. q \in Seq(Nat) /\ TypeVariables(q) \in Seq(Seq(Nat))
        BY <1>3, CallIs DEF IsExpression
    <2>2. 1 \notin ExpressionKids(At(q))
        BY <1>3 DEF ExpressionKids, Kind
    <2>3. PICK k \in DOMAIN TypeVariables(q) : p = TypeVariables(q)[k]
        BY DEF Range
    <2>4. k \in Nat
        BY <2>1, <2>3
    <2>5. p = q \o <<1, k, 1>>
        BY <2>3 DEF TypeVariables
    <2>6. <<1, k, 1>> \in Seq(Nat) /\ Len(<<1, k, 1>>) >= 1 /\ <<1, k, 1>>[1] = 1
        BY <2>4
    <2> QED BY <2>1, <2>2, <2>5, <2>6, NoWayBack
<1> QED BY <1>1, <1>2, <1>3

\* The visit of a leaf, the end of a visit, or a type node gives a type.
LEMMA Typing ==
    ASSUME ResolverInv, NEW do \in {"visit", "leave", "type"}, NEW ps, Now(do, ps),
           pass # "literals", NEW ts \in SUBSET Types, GiveType(ts),
           do = "visit" => Kind(Here) \in Names \union Numbers \union {"string"},
           IsExpression(Here) => pass = "types" /\ Kind(Here) \notin {"call", "if"}
    PROVE  ResolverInv'
<1> DEFINE h == Head(agenda)
<1>1. /\ h.do = do /\ Here = h.at /\ EntryFits(h)
      /\ pass = "signatures" => do # "visit"
    BY AtHead DEF EntryFits
<1>2. PICK t \in ts : types' = With(types, Here, t)
    BY DEF GiveType
<1>3. agenda' = Tail(agenda) /\ UNCHANGED <<program, pass, locals, targets, problems, status>>
    BY DEF GiveType
<1>4. Here \in DOMAIN types'
    BY <1>2 DEF With
<1>5. do = "type" => ~IsExpression(Here)
    BY <1>1 DEF EntryFits
<1>6. ASSUME IsExpression(Here) PROVE Opens(h, Here)
    <2>1. do \in {"visit", "leave"} /\ Here \in Seq(Nat)
        BY <1>5, <1>6 DEF IsExpression
    <2> QED BY <2>1, <1>1, AboveItself DEF Opens, Covers
<1>7. TypesStep(<<>>)
    BY <1>1, <1>2, <1>6 DEF TypesStep
<1>8. LocalsStep /\ TargetsStep /\ ProblemsStep(<<>>) /\ LiteralsSettled(<<>>)
    BY <1>3 DEF LocalsStep, TargetsStep, ProblemsStep, LiteralsSettled
<1>9. SignaturesSettled(<<>>)
    BY <1>1, <1>4 DEF SignaturesSettled, Signs
<1>10. ASSUME pass = "types", NEW p, IsExpression(p), Opens(h, p) PROVE p = Here
    <2>1. CASE do = "visit"
        BY <1>1, <1>10, <2>1, LeafAlone
    <2>2. CASE do # "visit"
        BY <1>1, <1>10, <2>2 DEF Opens, Covers
    <2> QED BY <2>1, <2>2
<1>11. TypesSettled(<<>>)
    <2> SUFFICES ASSUME pass = "types", NEW p, Resolvable(p), Opens(h, p)
                 PROVE  p \in DOMAIN types' /\ Kind(p) \notin {"call", "if"}
        BY DEF TypesSettled, Opens
    <2>1. IsExpression(p)
        BY DEF Resolvable
    <2>2. p = Here
        BY <2>1, <1>10
    <2> QED BY <2>1, <2>2, <1>4
<1> QED BY <1>3, <1>7, <1>8, <1>9, <1>11, Takes

LEMMA SignatureSteps ==
    ASSUME ResolverInv,
           VisitSignature \/ ResolveTypeName \/ DescendArrayType \/ LeaveArrayType
    PROVE  ResolverInv'
<1> DEFINE h == Head(agenda)
<1>1. CASE VisitSignature
    <2> DEFINE es == Entries("type", Append(ParamTypes(Here), ReturnType(Here)))
    <2>1. Now("signature", {"signatures"})
        BY <1>1 DEF VisitSignature
    <2>2. /\ h.do = "signature" /\ Here = h.at /\ EntryFits(h) /\ pass = "signatures"
          /\ agenda # <<>> /\ status = "running" /\ Rooted
        BY <2>1, AtHead
    <2>3. Here \in FunctionNodes
        BY <2>2 DEF EntryFits
    <2>4. /\ Append(ParamTypes(Here), ReturnType(Here)) \in Seq(Seq(Nat))
          /\ Range(Append(ParamTypes(Here), ReturnType(Here))) = SignatureOf(Here)
        BY <2>2, <2>3, SignatureIs
    <2>5. es \in Seq(AnEntry) /\ Range(es) = {Entry("type", q) : q \in SignatureOf(Here)}
        BY <2>4, EntriesAre DEF Jobs
    <2>6. /\ agenda' = es \o Tail(agenda)
          /\ UNCHANGED <<program, pass, locals, types, targets, problems, status>>
        BY <1>1 DEF VisitSignature
    <2> HIDE DEF es
    <2>7. \A e \in Range(es) : e.do = "type" /\ e.at \in SignatureOf(Here)
        BY <2>5 DEF Entry
    <2>8. Once(es) /\ Within(es, h)
        <3>1. Once(es)
            BY <2>5, <2>7, OnceNone
        <3> QED BY <3>1, <2>7 DEF Within, Opens, Covers
    <2>9. Replaced(es)
        BY <2>2, <2>5, <2>6, <2>8 DEF Replaced
    <2>10. \A e \in Range(es) : EntryFits(e)
        BY <2>2, <2>3, <2>7, TypesAreNoExpressions DEF EntryFits
    <2>11. TypesStep(es) /\ LocalsStep /\ TargetsStep /\ ProblemsStep(es)
        BY <2>6 DEF TypesStep, LocalsStep, TargetsStep, ProblemsStep
    <2>12. LiteralsSettled(es) /\ TypesSettled(es)
        BY <2>2 DEF LiteralsSettled, TypesSettled
    <2>13. SignaturesSettled(es)
        <3> SUFFICES ASSUME NEW p, Signs(h, p) PROVE \E e \in Range(es) : Signs(e, p)
            BY DEF SignaturesSettled
        <3>1. p \in SignatureOf(Here)
            BY <2>2 DEF Signs
        <3>2. Entry("type", p) \in Range(es) /\ Signs(Entry("type", p), p)
            BY <2>5, <3>1 DEF Signs, Entry
        <3> QED BY <3>2
    <2> QED BY <2>2, <2>6, <2>9, <2>10, <2>11, <2>12, <2>13, Continues
<1>2. CASE ResolveTypeName
    <2>1. Now("type", {"signatures", "types"})
        BY <1>2 DEF ResolveTypeName
    <2>2. h.do = "type" /\ Here = h.at /\ EntryFits(h) /\ pass \in {"signatures", "types"}
        BY <2>1, AtHead
    <2>3. ~IsExpression(Here)
        BY <2>2 DEF EntryFits
    <2>4. \A name \in DOMAIN NamedTypes : {NamedTypes[name]} \in SUBSET Types
        BY DEF NamedTypes, Types
    <2>5. {"Unit"} \in SUBSET Types
        BY DEF Types
    <2>6. CASE Stop("syntaxError")
        BY <2>6, StopStep DEF Statuses
    <2>7. CASE GiveType({"Unit"})
        BY <2>1, <2>2, <2>3, <2>5, <2>7, Typing
    <2>8. CASE Kind(Here) \in DOMAIN NamedTypes /\ GiveType({NamedTypes[Kind(Here)]})
        BY <2>1, <2>2, <2>3, <2>4, <2>8, Typing
    <2> QED BY <1>2, <2>6, <2>7, <2>8 DEF ResolveTypeName
<1>3. CASE DescendArrayType
    <2> DEFINE t == Entry("type", Kid(Here, 1))
               l == Entry("leave", Here)
               es == <<t>> \o <<l>>
    <2>1. Now("type", {"signatures"}) /\ Descend(<<t>>)
        BY <1>3 DEF DescendArrayType
    <2>2. /\ h.do = "type" /\ Here = h.at /\ EntryFits(h) /\ pass = "signatures"
          /\ agenda # <<>> /\ status = "running" /\ Rooted /\ Here \in Seq(Nat)
        BY <2>1, AtHead
    <2>3. ~IsExpression(Here) /\ ~IsExpression(Kid(Here, 1)) /\ Kid(Here, 1) \in Seq(Nat)
        BY <2>2, TypesAreNoExpressions, AtKid DEF EntryFits
    <2>4. /\ t \in AnEntry /\ t.do = "type" /\ t.at = Kid(Here, 1)
          /\ l \in AnEntry /\ l.do = "leave" /\ l.at = Here
        BY <2>2, <2>3, EntryIs DEF Jobs
    <2>5. /\ agenda' = es \o Tail(agenda)
          /\ UNCHANGED <<program, pass, locals, types, targets, problems, status>>
        BY <2>1 DEF Descend
    <2> HIDE DEF t, l
    <2>6. \A p : IsExpression(p) => ~Opens(t, p) /\ ~Opens(l, p)
        BY <2>3, <2>4 DEF Opens, Covers
    <2>7. es \in Seq(AnEntry) /\ Range(es) = {t, l} /\ Once(es)
        <3>1. /\ <<t>> \in Seq(AnEntry) /\ Once(<<t>>) /\ Range(<<t>>) = {t}
              /\ <<l>> \in Seq(AnEntry) /\ Once(<<l>>) /\ Range(<<l>>) = {l}
            BY <2>4, OnceOne
        <3>2. \A x \in Range(<<t>>) : \A y \in Range(<<l>>) : \A p :
                  IsExpression(p) => ~(Opens(x, p) /\ Opens(y, p))
            BY <3>1, <2>6
        <3>3. /\ <<t>> \o <<l>> \in Seq(AnEntry) /\ Once(<<t>> \o <<l>>)
              /\ Range(<<t>> \o <<l>>) = Range(<<t>>) \union Range(<<l>>)
            BY <3>1, <3>2, OnceJoin
        <3> QED BY <3>1, <3>3
    <2> HIDE DEF es
    <2>8. Replaced(es)
        BY <2>2, <2>5, <2>6, <2>7 DEF Replaced, Within
    <2>9. \A e \in Range(es) : EntryFits(e)
        BY <2>2, <2>3, <2>4, <2>7 DEF EntryFits
    <2>10. TypesStep(es) /\ LocalsStep /\ TargetsStep /\ ProblemsStep(es)
        BY <2>5 DEF TypesStep, LocalsStep, TargetsStep, ProblemsStep
    <2>11. LiteralsSettled(es) /\ TypesSettled(es)
        BY <2>2 DEF LiteralsSettled, TypesSettled
    <2>12. SignaturesSettled(es)
        BY <2>2, <2>4, <2>7 DEF SignaturesSettled, Signs
    <2> QED BY <2>2, <2>5, <2>8, <2>9, <2>10, <2>11, <2>12, Continues
<1>4. CASE LeaveArrayType
    <2>1. Now("leave", {"signatures"})
          /\ GiveType({IF Here \in ReturnTypes THEN Clone("Array") ELSE "Array"})
        BY <1>4 DEF LeaveArrayType
    <2>2. h.do = "leave" /\ Here = h.at /\ EntryFits(h) /\ pass = "signatures"
        BY <2>1, AtHead
    <2>3. ~IsExpression(Here)
        BY <2>2 DEF EntryFits
    <2>4. {IF Here \in ReturnTypes THEN Clone("Array") ELSE "Array"} \in SUBSET Types
        BY DEF Clone, Types
    <2> QED BY <2>1, <2>2, <2>3, <2>4, Typing
<1> QED BY <1>1, <1>2, <1>3, <1>4

-----------------------------------------------------------------------------
(* TypeResolver.                                                            *)

LEMMA TypesOfFits ==
    ASSUME NEW op, NEW left \in Types, NEW right \in Types
    PROVE  TypesOf(op, left, right) \in SUBSET Types
<1>1. Clone(left) \in Types
    BY DEF Clone, Types
<1>2. LargerTypes(left, right) \in SUBSET Types
    BY DEF LargerTypes
<1>3. /\ op = "+" /\ IsString(left) /\ IsString(right) => TypesOf(op, left, right) = {Clone(left)}
      /\ op = "+" /\ IsString(left) # IsString(right) => TypesOf(op, left, right) = {}
      /\ ~(op = "+" /\ IsString(left) /\ IsString(right)) /\ ~(op = "+" /\ IsString(left) # IsString(right))
            => TypesOf(op, left, right) = LargerTypes(left, right)
    BY DEF TypesOf, IsString
<1> QED BY <1>1, <1>2, <1>3 DEF IsString

\* What a visitor reads of a signature is there.
LEMMA SignatureTyped ==
    ASSUME ResolverInv, pass = "types", NEW f \in FunctionNodes, NEW p \in SignatureOf(f)
    PROVE  types[p] \in Types
BY DEF ResolverInv, SignaturesTyped, TypesFit, Typed

LEMMA TypeLeafStep ==
    ASSUME ResolverInv, TypeLeaf
    PROVE  ResolverInv'
<1>1. Now("visit", {"types"}) /\ pass = "types" /\ Rooted
    BY AtHead DEF TypeLeaf
<1>2. CASE Here \in locals /\ GiveType({Clone(types[ParamOf(Here)])})
    <2>1. LocalFits(Here)
        BY <1>2 DEF ResolverInv, LocalsFit
    <2>2. Kind(Here) \in Names /\ Kind(Here) \notin {"call", "if"}
        BY <2>1, NamesAssumption DEF LocalFits, IsLiteral
    <2>3. FunctionOf(Here) \in FunctionNodes /\ ParamOf(Here) \in SignatureOf(FunctionOf(Here))
        BY <1>1, <2>1, ParamIs DEF LocalFits
    <2>4. types[ParamOf(Here)] \in Types
        BY <1>1, <2>3, SignatureTyped
    <2>5. {Clone(types[ParamOf(Here)])} \in SUBSET Types
        BY <2>4 DEF Clone, Types
    <2> QED BY <1>1, <1>2, <2>2, <2>5, Typing
<1>3. CASE Kind(Here) \in Numbers \ Doubles /\ GiveType({"Int32"})
    <2>1. Kind(Here) \in Numbers /\ Kind(Here) \notin {"call", "if"}
        BY <1>3, NamesAssumption
    <2>2. {"Int32"} \in SUBSET Types
        BY DEF Types
    <2> QED BY <1>1, <1>3, <2>1, <2>2, Typing
<1>4. CASE Kind(Here) = "string" /\ GiveType({"Raw"})
    <2>1. {"Raw"} \in SUBSET Types
        BY DEF Types
    <2> QED BY <1>1, <1>4, <2>1, Typing
<1> QED BY <1>2, <1>3, <1>4 DEF TypeLeaf

\* A local is a name.
LEMMA NoLocal ==
    ASSUME ResolverInv, NEW p, Kind(p) \notin Names
    PROVE  p \notin locals
BY DEF ResolverInv, LocalsFit, LocalFits, IsLiteral

\* The visits es lead to all that TypeResolver visits below this expression.
TypeVisits(es) ==
    /\ es \in Seq(AnEntry) /\ Descend(es) /\ Once(es)
    /\ \A x \in Range(es) : EntryFits(x)
          /\ \A p : IsExpression(p) /\ Opens(x, p) => Above(Here, p) /\ p # Here
    /\ \A p : Resolvable(p) /\ Above(Here, p) =>
          (p = Here /\ p \notin locals) \/ \E x \in Range(es) : Covers(x, p)

LEMMA DescendTypesVisits ==
    ASSUME ResolverInv, DescendTypes
    PROVE  \E es : TypeVisits(es)
<1> DEFINE es == Entries("visit", Children(Here))
<1>1. Now("visit", {"types"}) /\ Descend(es) /\ Kind(Here) \notin Names /\ Kind(Here) # "call"
    BY DEF DescendTypes
<1>2. pass = "types" /\ Here \notin locals
    BY <1>1, NoLocal DEF Now
<1>3. /\ es \in Seq(AnEntry) /\ Once(es)
      /\ \A x \in Range(es) : EntryFits(x)
            /\ \A p : IsExpression(p) /\ Opens(x, p) => Above(Here, p) /\ p # Here
      /\ \A p : IsExpression(p) /\ Above(Here, p) =>
            p = Here \/ \E x \in Range(es) : Covers(x, p)
    BY <1>1, <1>2, ChildVisits
<1> HIDE DEF es
<1>4. \A p : Resolvable(p) /\ Above(Here, p) =>
          (p = Here /\ p \notin locals) \/ \E x \in Range(es) : Covers(x, p)
    BY <1>2, <1>3 DEF Resolvable
<1> QED BY <1>1, <1>3, <1>4 DEF TypeVisits

LEMMA VisitCallVisits ==
    ASSUME ResolverInv, VisitCall
    PROVE  \E es : TypeVisits(es)
<1> DEFINE q == Here
           a == Entries("type", TypeVariables(q))
           b == IF InDot(q) THEN <<>> ELSE InTurns("visit", "read", Arguments(q))
           es == a \o b
<1>1. Now("visit", {"types"}) /\ Descend(es) /\ Kind(q) = "call"
    BY DEF VisitCall
<1>2. /\ pass = "types" /\ q = Head(agenda).at /\ Head(agenda).do = "visit" /\ q \in Seq(Nat)
      /\ EntryFits(Head(agenda)) /\ Rooted
    BY <1>1, AtHead
<1>3. IsExpression(q) /\ q \notin locals
    <2>1. Kind(q) \notin Names
        BY <1>1, NamesAssumption
    <2> QED BY <1>2, <2>1, NoLocal DEF EntryFits
<1>4. /\ TypeVariables(q) \in Seq(Seq(Nat)) /\ Arguments(q) = Children(q) /\ q # <<>>
      /\ Children(q) \in Seq(Seq(Nat))
    BY <1>1, <1>2, <1>3, CallIs, ChildrenAreKids
<1>5. a \in Seq(AnEntry) /\ \A x \in Range(a) : x.do = "type" /\ x.at \in Range(TypeVariables(q))
    BY <1>4, EntriesAre DEF Jobs, Entry
<1> HIDE DEF a
<1>6. \A x \in Range(a) : EntryFits(x) /\ \A p : ~Opens(x, p)
    BY <1>1, <1>2, <1>3, <1>5, TypesAreNoExpressions DEF EntryFits, Opens, Covers
<1>7. Once(a)
    BY <1>5, OnceNone
<1>8. /\ b \in Seq(AnEntry) /\ Once(b)
      /\ \A x \in Range(b) : EntryFits(x)
            /\ \A p : IsExpression(p) /\ Opens(x, p) => Above(q, p) /\ p # q
      /\ \A p : Resolvable(p) /\ Above(q, p) => p = q \/ \E x \in Range(b) : Covers(x, p)
    <2>1. CASE InDot(q)
        <3>1. b = <<>>
            BY <2>1
        <3>2. \A p : Resolvable(p) /\ Above(q, p) => p = q
            BY <1>1, <1>2, <1>4, <2>1, MethodArguments DEF Resolvable, IsExpression
        <3> HIDE DEF b
        <3> QED BY <3>1, <3>2, OnceEmpty
    <2>2. CASE ~InDot(q)
        <3> DEFINE v == Entries("visit", Children(q))
        <3>1. b = InTurns("visit", "read", Children(q))
            BY <1>4, <2>2
        <3> HIDE DEF b
        <3>2. /\ b \in Seq(AnEntry) /\ Once(b)
              /\ Range(b) = {Entry("visit", c) : c \in Range(Children(q))}
                               \union {Entry("read", c) : c \in Range(Children(q))}
            <4>1. "visit" \in Jobs /\ "read" \in Jobs
                BY DEF Jobs
            <4>2. Once(b)
                BY <1>2, <1>3, <3>1, OnceInTurns
            <4> QED BY <1>4, <3>1, <4>1, <4>2, InTurnsAre
        <3>3. Range(v) = {Entry("visit", c) : c \in Range(Children(q))}
            BY <1>4, EntriesAre DEF Jobs
        <3>4. /\ \A x \in Range(v) : EntryFits(x)
                    /\ \A p : IsExpression(p) /\ Opens(x, p) => Above(q, p) /\ p # q
              /\ \A p : IsExpression(p) /\ Above(q, p) => p = q \/ \E x \in Range(v) : Covers(x, p)
            BY <1>1, <1>2, <2>2, ChildVisits
        <3> HIDE DEF v
        <3>5. \A x \in Range(b) : x \in Range(v) \/ x.do = "read"
            BY <3>2, <3>3 DEF Entry
        <3>6. \A x : x.do = "read" => EntryFits(x) /\ \A p : ~Opens(x, p)
            BY <1>2 DEF EntryFits, Opens, Covers
        <3>7. \A x \in Range(b) : EntryFits(x)
                  /\ \A p : IsExpression(p) /\ Opens(x, p) => Above(q, p) /\ p # q
            BY <3>4, <3>5, <3>6
        <3>8. Range(v) \subseteq Range(b)
            BY <3>2, <3>3
        <3>9. \A p : Resolvable(p) /\ Above(q, p) => p = q \/ \E x \in Range(b) : Covers(x, p)
            BY <3>4, <3>8 DEF Resolvable
        <3> QED BY <3>2, <3>7, <3>9
    <2> QED BY <2>1, <2>2
<1> HIDE DEF b
<1>9. es \in Seq(AnEntry) /\ Range(es) = Range(a) \union Range(b) /\ Once(es)
    BY <1>5, <1>6, <1>7, <1>8, OnceJoin
<1> HIDE DEF es
<1>10. \A x \in Range(es) : EntryFits(x)
           /\ \A p : IsExpression(p) /\ Opens(x, p) => Above(Here, p) /\ p # Here
    BY <1>6, <1>8, <1>9
<1>11. \A p : Resolvable(p) /\ Above(Here, p) =>
           (p = Here /\ p \notin locals) \/ \E x \in Range(es) : Covers(x, p)
    BY <1>3, <1>8, <1>9
<1> QED BY <1>1, <1>9, <1>10, <1>11 DEF TypeVisits

LEMMA TypeVisitSteps ==
    ASSUME ResolverInv, DescendTypes \/ VisitCall
    PROVE  ResolverInv'
<1>1. Now("visit", {"types"}) /\ pass = "types"
    BY DEF DescendTypes, VisitCall, Now
<1>2. PICK es : TypeVisits(es)
    BY DescendTypesVisits, VisitCallVisits
<1> QED BY <1>1, <1>2, Descends DEF TypeVisits

\* The end of a visit that changes nothing.
LEMMA PassesOver ==
    ASSUME ResolverInv, NEW do \in {"leave", "read"}, NEW ps, Now(do, ps), pass = "types", Done,
           do = "leave" => Kind(Here) \notin {"call", "if"}
    PROVE  ResolverInv'
<1>1. Head(agenda).do = do /\ Here = Head(agenda).at
    BY AtHead
<1>2. agenda' = Tail(agenda) /\ UNCHANGED <<program, pass, locals, types, targets, problems, status>>
    BY DEF Done
<1>3. TypesStep(<<>>) /\ LocalsStep /\ TargetsStep /\ ProblemsStep(<<>>)
    BY <1>2 DEF TypesStep, LocalsStep, TargetsStep, ProblemsStep
<1>4. LiteralsSettled(<<>>) /\ SignaturesSettled(<<>>)
    BY DEF LiteralsSettled, SignaturesSettled
<1>5. TypesSettled(<<>>)
    BY <1>1 DEF TypesSettled, Opens, Covers
<1> QED BY <1>2, <1>3, <1>4, <1>5, Takes

LEMMA LeaveSteps ==
    ASSUME ResolverInv,
           ReadArgument \/ LeaveArithmetic \/ LeaveDivision \/ LeaveEqual \/ LeaveReference
             \/ LeaveUntyped
    PROVE  ResolverInv'
<1>1. \A p : Typed(p) => types[p] \in Types
    BY DEF ResolverInv, TypesFit, Typed
<1>2. CASE ReadArgument
    <2>1. Now("read", {"types"}) /\ pass = "types"
        BY <1>2 DEF ReadArgument, Now
    <2>2. CASE Stop("crashed")
        BY <2>2, StopStep DEF Statuses
    <2>3. CASE Done
        BY <2>1, <2>3, PassesOver
    <2> QED BY <1>2, <2>2, <2>3 DEF ReadArgument
<1>3. CASE LeaveArithmetic
    <2>1. Now("leave", {"types"}) /\ pass = "types" /\ Kind(Here) \notin {"call", "if"}
        BY <1>3 DEF LeaveArithmetic, Now
    <2>2. CASE ~Typed(Kid(Here, 1)) \/ ~Typed(Kid(Here, 2))
        BY <1>3, <2>2, StopStep DEF LeaveArithmetic, Statuses
    <2>3. CASE Typed(Kid(Here, 1)) /\ Typed(Kid(Here, 2))
        <3> DEFINE ts == TypesOf(Kind(Here), types[Kid(Here, 1)], types[Kid(Here, 2)])
        <3>1. ts \in SUBSET Types
            BY <1>1, <2>3, TypesOfFits
        <3>2. IF ts = {} THEN Stop("syntaxError") ELSE GiveType(ts)
            BY <1>3, <2>3 DEF LeaveArithmetic
        <3> HIDE DEF ts
        <3>3. CASE Stop("syntaxError")
            BY <3>3, StopStep DEF Statuses
        <3>4. CASE GiveType(ts)
            BY <2>1, <3>1, <3>4, Typing
        <3> QED BY <3>2, <3>3, <3>4
    <2> QED BY <2>2, <2>3
<1>4. CASE LeaveDivision
    <2>1. Now("leave", {"types"}) /\ pass = "types" /\ Kind(Here) \notin {"call", "if"}
          /\ GiveType({"Float64"})
        BY <1>4 DEF LeaveDivision, Now
    <2>2. {"Float64"} \in SUBSET Types
        BY DEF Types
    <2> QED BY <2>1, <2>2, Typing
<1>5. CASE LeaveEqual
    <2>1. Now("leave", {"types"}) /\ pass = "types" /\ Kind(Here) \notin {"call", "if"}
          /\ GiveType({"Bool"})
        BY <1>5 DEF LeaveEqual, Now
    <2>2. {"Bool"} \in SUBSET Types
        BY DEF Types
    <2> QED BY <2>1, <2>2, Typing
<1>6. CASE LeaveReference
    <2>1. Now("leave", {"types"}) /\ pass = "types" /\ Kind(Here) \notin {"call", "if"}
        BY <1>6 DEF LeaveReference, Now
    <2>2. CASE ~Typed(Kid(Here, 2))
        BY <1>6, <2>2, StopStep DEF LeaveReference, Statuses
    <2>3. CASE Typed(Kid(Here, 2))
        <3>1. GiveType({types[Kid(Here, 2)]})
            BY <1>6, <2>3 DEF LeaveReference
        <3>2. {types[Kid(Here, 2)]} \in SUBSET Types
            BY <1>1, <2>3
        <3> QED BY <2>1, <3>1, <3>2, Typing
    <2> QED BY <2>2, <2>3
<1>7. CASE LeaveUntyped
    <2>1. Now("leave", {"types"}) /\ pass = "types" /\ Kind(Here) \notin {"call", "if"} /\ Done
        BY <1>7 DEF LeaveUntyped, Now
    <2> QED BY <2>1, PassesOver
<1> QED BY <1>2, <1>3, <1>4, <1>5, <1>6, <1>7

LEMMA LeaveIfStep ==
    ASSUME ResolverInv, LeaveIf
    PROVE  ResolverInv'
<1>1. Now("leave", {"types"}) /\ Kind(Here) = "if"
    BY DEF LeaveIf
<1>2. Head(agenda).do = "leave" /\ Here = Head(agenda).at /\ pass = "types"
    BY <1>1, AtHead
<1>3. CASE ~Typed(Kid(Here, 1))
    BY <1>3, StopStep DEF LeaveIf, Statuses
<1>4. CASE Typed(Kid(Here, 1))
    <2>1. /\ problems' = IF types[Kid(Here, 1)] = "Bool" THEN problems ELSE problems \union {Here}
          /\ agenda' = Tail(agenda)
          /\ UNCHANGED <<program, pass, locals, types, targets, status>>
        BY <1>4 DEF LeaveIf
    <2>2. TypesStep(<<>>) /\ LocalsStep /\ TargetsStep /\ ProblemsStep(<<>>)
        BY <1>1, <1>2, <2>1 DEF TypesStep, LocalsStep, TargetsStep, ProblemsStep
    <2>3. LiteralsSettled(<<>>) /\ SignaturesSettled(<<>>)
        BY <1>2 DEF LiteralsSettled, SignaturesSettled
    <2>4. Here \notin problems
        <3>1. Open(Here)
            BY <1>1, <1>2, AtHead DEF Open, Opens
        <3> QED BY <3>1 DEF ResolverInv, ProblemsFit
    <2>5. TypesSettled(<<>>)
        <3> SUFFICES ASSUME NEW p, Opens(Head(agenda), p)
                     PROVE  /\ ~Covers(Head(agenda), p) /\ Kind(p) # "call"
                            /\ Kid(p, 1) \in DOMAIN types'
                            /\ (types'[Kid(p, 1)] = "Bool" <=> p \notin problems')
            BY DEF TypesSettled, Opens
        <3>1. p = Here /\ ~Covers(Head(agenda), p)
            BY <1>2 DEF Opens, Covers
        <3> QED BY <3>1, <1>1, <1>4, <2>1, <2>4 DEF Typed
    <2> QED BY <1>1, <2>1, <2>2, <2>3, <2>5, Takes
<1> QED BY <1>3, <1>4

LEMMA Targeting ==
    ASSUME ResolverInv, Now("leave", {"types"}), Kind(Here) = "call",
           NEW t, t.returns \in Types, TakeTarget(t)
    PROVE  ResolverInv'
<1> DEFINE h == Head(agenda)
<1>1. h.do = "leave" /\ Here = h.at /\ pass = "types" /\ EntryFits(h)
    BY AtHead
<1>2. IsExpression(Here)
    BY <1>1 DEF EntryFits
<1>3. /\ types' = With(types, Here, t.returns) /\ targets' = With(targets, Here, t)
      /\ agenda' = Tail(agenda) /\ UNCHANGED <<program, pass, locals, problems, status>>
    BY DEF TakeTarget
<1>4. TypesStep(<<>>)
    <2>1. Opens(h, h.at)
        BY <1>1 DEF Opens
    <2> QED BY <1>1, <1>3, <2>1 DEF TypesStep
<1>5. TargetsStep
    BY <1>1, <1>2, <1>3 DEF TargetsStep, With
<1>6. LocalsStep /\ ProblemsStep(<<>>) /\ LiteralsSettled(<<>>) /\ SignaturesSettled(<<>>)
    BY <1>1, <1>3 DEF LocalsStep, ProblemsStep, LiteralsSettled, SignaturesSettled
<1>7. Here \in DOMAIN targets'
    BY <1>3 DEF With
<1>8. TypesSettled(<<>>)
    BY <1>1, <1>7 DEF TypesSettled, Opens, Covers
<1> QED BY <1>3, <1>4, <1>5, <1>6, <1>8, Takes

LEMMA FirstOfIs ==
    ASSUME NEW fs \in SUBSET FunctionNodes, fs # {}
    PROVE  FirstOf(fs) \in fs
<1> DEFINE T == {f[1] : f \in fs}
<1>1. \A f \in fs : f[1] \in Nat
    BY DEF FunctionNodes
<1>2. T \in SUBSET Nat /\ T # {}
    BY <1>1
<1>3. PICK x \in T : \A y \in T : x <= y
    BY <1>2, LeastElement
<1>4. PICK f \in fs : x = f[1]
    BY <1>3
<1>5. \A g \in fs : f[1] <= g[1]
    BY <1>3, <1>4
<1> QED BY <1>5 DEF FirstOf

LEMMA CallSteps ==
    ASSUME ResolverInv, FindTargetCall \/ FindMethod
    PROVE  ResolverInv'
<1>1. CASE FindTargetCall
    <2> DEFINE args == [k \in DOMAIN Arguments(Here) |-> types[Arguments(Here)[k]]]
               builtins == {b \in Builtins : b.name = CallName(Here)}
               fs == SameArity(CallName(Here), Len(args))
    <2>1. Now("leave", {"types"}) /\ Kind(Here) = "call" /\ pass = "types"
        BY <1>1 DEF FindTargetCall, Now
    <2>2. \/ Stop("uncaught") \/ Stop("syntaxError")
          \/ \E b \in builtins : TakeTarget(b)
          \/ fs # {} /\ TakeTarget(FunctionTarget(FirstOf(fs)))
        BY <1>1 DEF FindTargetCall
    <2>3. \A b \in builtins : b.returns \in Types
        BY DEF Builtins, Target, Types
    <2>4. ASSUME fs # {} PROVE FunctionTarget(FirstOf(fs)).returns \in Types
        <3>1. fs \in SUBSET FunctionNodes
            BY DEF SameArity
        <3> HIDE DEF fs
        <3>2. FirstOf(fs) \in FunctionNodes
            BY <2>4, <3>1, FirstOfIs
        <3>3. FunctionTarget(FirstOf(fs)).returns = types[ReturnType(FirstOf(fs))]
            BY DEF FunctionTarget, Target
        <3>4. ReturnType(FirstOf(fs)) \in SignatureOf(FirstOf(fs))
            BY DEF SignatureOf
        <3> QED BY <2>1, <3>2, <3>3, <3>4, SignatureTyped
    <2> HIDE DEF args, builtins, fs
    <2>5. CASE Stop("uncaught") \/ Stop("syntaxError")
        BY <2>5, StopStep DEF Statuses
    <2>6. CASE \E b \in builtins : TakeTarget(b)
        BY <2>1, <2>3, <2>6, Targeting
    <2>7. CASE fs # {} /\ TakeTarget(FunctionTarget(FirstOf(fs)))
        BY <2>1, <2>4, <2>7, Targeting
    <2> QED BY <2>2, <2>5, <2>6, <2>7
<1>2. CASE FindMethod
    <2> DEFINE found == {t \in Methods(types[Kid(Parent(Here), 1)]) : t.name = CallName(Here)}
    <2>1. Now("leave", {"types"}) /\ Kind(Here) = "call"
        BY <1>2 DEF FindMethod
    <2>2. Stop("crashed") \/ Stop("syntaxError") \/ \E t \in found : TakeTarget(t)
        BY <1>2 DEF FindMethod
    <2>3. \A t \in found : t.returns \in Types
        BY DEF Methods, Target, Types
    <2> HIDE DEF found
    <2>4. CASE Stop("crashed") \/ Stop("syntaxError")
        BY <2>4, StopStep DEF Statuses
    <2>5. CASE \E t \in found : TakeTarget(t)
        BY <2>1, <2>3, <2>5, Targeting
    <2> QED BY <2>2, <2>4, <2>5
<1> QED BY <1>1, <1>2

-----------------------------------------------------------------------------
(* RocCompiler::compile.                                                    *)

\* The module is all there is to visit.
LEMMA ModuleVisit ==
    LET e == Entry("visit", <<>>)
    IN /\ <<e>> \in Seq(AnEntry) /\ Once(<<e>>) /\ Range(<<e>>) = {e}
       /\ \A p : IsExpression(p) => Covers(e, p) /\ Opens(e, p)
<1>1. Entry("visit", <<>>) \in AnEntry
    BY DEF Entry, AnEntry, Jobs
<1>2. \A p : IsExpression(p) => Above(<<>>, p)
    BY ModuleAbove DEF IsExpression
<1> QED BY <1>1, <1>2, OnceOne DEF Covers, Opens, Entry

LEMMA ModuleOutside == Resolvable(<<>>)
BY ModuleIsExpression DEF Resolvable, InMethodArguments

LEMMA InitInv ==
    ASSUME ResolverInit
    PROVE  ResolverInv
<1> DEFINE e == Entry("visit", <<>>)
<1>1. /\ Rooted /\ pass = "literals" /\ agenda = <<e>> /\ locals = {} /\ types = <<>>
      /\ targets = <<>> /\ problems = {} /\ status = "running"
    BY DEF ResolverInit, Rooted
<1>2. /\ <<e>> \in Seq(AnEntry) /\ Once(<<e>>) /\ Range(<<e>>) = {e}
      /\ \A p : IsExpression(p) => Covers(e, p)
    BY ModuleVisit
<1>3. EntryFits(e)
    BY <1>1, ModuleIsExpression DEF EntryFits, Entry
<1> HIDE DEF e
<1>4. AgendaFits
    BY <1>1, <1>2, <1>3 DEF AgendaFits, Remaining
<1>5. LiteralsFound
    BY <1>1, <1>2 DEF LiteralsFound, Visiting, Remaining
<1> QED BY <1>1, <1>4, <1>5
        DEF ResolverInv, Passes, Statuses, LocalsFit, TypesFit, SignaturesTyped, TargetsFit,
            ProblemsFit, Resolving, EndsWell

\* What holds at the end of a pass.
LEMMA PassEnded ==
    ASSUME ResolverInv, agenda = <<>>
    PROVE  /\ \A p : ~Open(p) /\ ~Visiting(p) /\ ~Signing(p)
           /\ \A p : IsExpression(p) /\ Examined(p) => p \in locals
           /\ pass # "literals" =>
                 \A f \in FunctionNodes : \A p \in SignatureOf(f) : Typed(p)
           /\ pass # "types" => problems = {} /\ \A p \in DOMAIN types : ~IsExpression(p)
<1>1. Remaining = {}
    BY DEF Remaining, Range
<1>2. \A p : ~Open(p) /\ ~Visiting(p) /\ ~Signing(p)
    BY <1>1 DEF Open, Visiting, Signing
<1> QED BY <1>2 DEF ResolverInv, LiteralsFound, SignaturesTyped, ProblemsFit, TypesFit

LEMMA StartSignaturesStep ==
    ASSUME ResolverInv, StartSignatures
    PROVE  ResolverInv'
<1> DEFINE n == Len(program.kids) - 1
           es == [k \in 1..n |-> Entry("signature", <<k + 1>>)]
<1>1. /\ status = "running" /\ agenda = <<>> /\ pass = "literals" /\ pass' = "signatures"
      /\ agenda' = es /\ UNCHANGED <<program, locals, types, targets, problems, status>>
    BY DEF StartSignatures
<1>2. Rooted /\ Len(program.kids) \in Nat
    BY RootNode, AtModule, NodesAre DEF ResolverInv
<1>3. \A k \in 1..n : Entry("signature", <<k + 1>>) \in AnEntry /\ <<k + 1>> \in FunctionNodes
    BY <1>2 DEF Entry, AnEntry, Jobs, FunctionNodes
<1>4. /\ \A k \in 1..n : es[k] = Entry("signature", <<k + 1>>)
      /\ DOMAIN es = 1..n
    OBVIOUS
<1>5. es \in Seq(AnEntry)
    <2> HIDE DEF es, n
    <2>1. n \in Nat
        <3>1. PICK m \in Programs : program = Program(m)
            BY <1>2 DEF Rooted
        <3>2. Len(program.kids) # 0
            BY <1>2, <3>1, RootNode, AtModule, NodesAre DEF Program, Node
        <3> QED BY <1>2, <3>2 DEF n
    <2>2. \A k \in 1..n : es[k] \in AnEntry
        BY <1>3, <1>4
    <2>3. es = [k \in 1..n |-> es[k]]
        BY <1>4 DEF es
    <2> QED BY <2>1, <2>2, <2>3
<1>6. ASSUME NEW e \in Range(es) PROVE e.do = "signature" /\ e.at \in FunctionNodes
    <2>1. PICK k \in 1..n : e = Entry("signature", <<k + 1>>)
        BY <1>4 DEF Range
    <2> QED BY <2>1, <1>3 DEF Entry
<1>7. \A f \in FunctionNodes : Entry("signature", f) \in Range(es)
    <2> SUFFICES ASSUME NEW i \in 2..Len(program.kids)
                 PROVE  Entry("signature", <<i>>) \in Range(es)
        BY DEF FunctionNodes
    <2>1. i - 1 \in 1..n /\ (i - 1) + 1 = i
        BY <1>2
    <2>2. es[i - 1] = Entry("signature", <<i>>)
        BY <2>1, <1>4
    <2> QED BY <2>1, <2>2, <1>4 DEF Range
<1> HIDE DEF es, n
<1>8. /\ Rooted' = Rooted /\ FunctionNodes' = FunctionNodes
      /\ \A p : Kind(p)' = Kind(p) /\ IsLiteral(p)' = IsLiteral(p)
                /\ Examined(p)' = Examined(p)
                /\ IsExpression(p)' = IsExpression(p)
                /\ IsLocalSymbol(p)' = IsLocalSymbol(p) /\ SignatureOf(p)' = SignatureOf(p)
    BY <1>1, SameModule
<1>9. /\ \A p : IsExpression(p) /\ Examined(p) => p \in locals
      /\ problems = {} /\ \A p \in DOMAIN types : ~IsExpression(p)
    BY <1>1, PassEnded
<1>10. AgendaFits'
    <2>1. Once(agenda)'
        <3>1. \A i \in DOMAIN agenda' : \A p : ~Opens(agenda[i], p)'
            BY <1>1, <1>6 DEF Opens, Covers, Range
        <3> QED BY <3>1 DEF Once
    <2>2. \A e \in Remaining' : EntryFits(e)'
        BY <1>1, <1>6, <1>8 DEF Remaining, EntryFits
    <2> QED BY <2>1, <2>2, <1>1, <1>5 DEF AgendaFits
<1>11. LocalsFit' /\ LiteralsFound'
    BY <1>1, <1>8, <1>9 DEF ResolverInv, LocalsFit, LocalFits, LiteralsFound
<1>12. TypesFit'
    BY <1>1, <1>8, <1>9 DEF ResolverInv, TypesFit
<1>13. SignaturesTyped'
    <2> SUFFICES ASSUME NEW f \in FunctionNodes, NEW p \in SignatureOf(f)
                 PROVE  Signing(p)'
        BY <1>1, <1>8 DEF SignaturesTyped
    <2>1. Entry("signature", f) \in Remaining'
        BY <1>1, <1>7 DEF Remaining
    <2>2. Signs(Entry("signature", f), p)'
        BY <1>8 DEF Signs, Entry
    <2> QED BY <2>1, <2>2 DEF Signing
<1>14. TargetsFit' /\ ProblemsFit' /\ Resolving' /\ EndsWell'
    BY <1>1, <1>8, <1>9 DEF ResolverInv, TargetsFit, ProblemsFit, Resolving, EndsWell
<1>15. Rooted' /\ pass' \in Passes /\ status' \in Statuses
    BY <1>1, <1>2, <1>8 DEF Passes, Statuses
<1> QED BY <1>10, <1>11, <1>12, <1>13, <1>14, <1>15 DEF ResolverInv

LEMMA StartTypesStep ==
    ASSUME ResolverInv, StartTypes
    PROVE  ResolverInv'
<1> DEFINE e == Entry("visit", <<>>)
<1>1. /\ status = "running" /\ agenda = <<>> /\ pass = "signatures" /\ pass' = "types"
      /\ agenda' = <<e>> /\ UNCHANGED <<program, locals, types, targets, problems, status>>
    BY DEF StartTypes
<1>2. /\ <<e>> \in Seq(AnEntry) /\ Once(<<e>>) /\ Range(<<e>>) = {e}
      /\ \A p : IsExpression(p) => Covers(e, p) /\ Opens(e, p)
    BY ModuleVisit
<1>3. /\ Rooted' = Rooted /\ FunctionNodes' = FunctionNodes
      /\ \A p : Kind(p)' = Kind(p) /\ IsLiteral(p)' = IsLiteral(p)
                /\ Examined(p)' = Examined(p)
                /\ IsExpression(p)' = IsExpression(p)
                /\ InMethodArguments(p)' = InMethodArguments(p)
                /\ IsLocalSymbol(p)' = IsLocalSymbol(p) /\ SignatureOf(p)' = SignatureOf(p)
    BY <1>1, SameModule
<1>4. /\ \A p : IsExpression(p) /\ Examined(p) => p \in locals
      /\ \A f \in FunctionNodes : \A p \in SignatureOf(f) : Typed(p)
      /\ problems = {} /\ \A p \in DOMAIN types : ~IsExpression(p)
    BY <1>1, PassEnded
<1>5. EntryFits(e)'
    <2>1. IsExpression(<<>>) /\ ~InMethodArguments(<<>>)
        BY ModuleOutside DEF Resolvable
    <2>2. e.do = "visit" /\ e.at = <<>>
        BY DEF Entry
    <2> HIDE DEF e
    <2> QED BY <2>1, <2>2, <1>1, <1>3 DEF EntryFits
<1> HIDE DEF e
<1>6. \A x, p : Covers(x, p)' = Covers(x, p) /\ Opens(x, p)' = Opens(x, p)
    BY DEF Covers, Opens, Above
<1>7. AgendaFits'
    <2>1. Once(agenda)'
        BY <1>1, <1>2, <1>3, <1>6 DEF Once
    <2> QED BY <2>1, <1>1, <1>2, <1>5 DEF AgendaFits, Remaining
<1>8. \A p : IsExpression(p) => Visiting(p)' /\ Open(p)'
    BY <1>1, <1>2, <1>6 DEF Visiting, Open, Remaining
<1>9. LocalsFit' /\ LiteralsFound'
    BY <1>1, <1>3, <1>4 DEF ResolverInv, LocalsFit, LocalFits, LiteralsFound
<1>10. TypesFit' /\ SignaturesTyped'
    BY <1>1, <1>3, <1>4 DEF ResolverInv, TypesFit, SignaturesTyped, Typed
<1>11. TargetsFit' /\ ProblemsFit' /\ EndsWell'
    BY <1>1, <1>3, <1>4 DEF ResolverInv, TargetsFit, ProblemsFit, EndsWell
<1>12. Resolving'
    BY <1>3, <1>8 DEF Resolving, Resolvable
<1>13. Rooted' /\ pass' \in Passes /\ status' \in Statuses
    BY <1>1, <1>3 DEF Passes, Statuses, ResolverInv
<1> QED BY <1>7, <1>9, <1>10, <1>11, <1>12, <1>13 DEF ResolverInv

LEMMA FinishStep ==
    ASSUME ResolverInv, FinishResolving
    PROVE  ResolverInv'
<1>1. /\ agenda = <<>> /\ pass = "types"
      /\ status' = (IF problems = {} THEN "resolved" ELSE "problems")
      /\ UNCHANGED <<program, pass, agenda, locals, types, targets, problems>>
    BY DEF FinishResolving, Stop
<1>2. EndsWell' /\ status' \in Statuses
    BY <1>1 DEF EndsWell, Statuses
<1> QED BY <1>1, <1>2, SameState

LEMMA UnchangedStep ==
    ASSUME ResolverInv, UNCHANGED resolverVars
    PROVE  ResolverInv'
<1>1. UNCHANGED <<program, pass, agenda, locals, types, targets, problems, status>>
    BY DEF resolverVars
<1>2. EndsWell' /\ status' \in Statuses
    BY <1>1 DEF ResolverInv, EndsWell
<1> QED BY <1>1, <1>2, SameState

LEMMA StepInv ==
    ASSUME ResolverInv, [ResolverNext]_resolverVars
    PROVE  ResolverInv'
BY LiteralSteps, SignatureSteps, TypeLeafStep, TypeVisitSteps, LeaveSteps,
   LeaveIfStep, CallSteps, StartSignaturesStep, StartTypesStep, FinishStep, UnchangedStep
   DEF ResolverNext

(***************************************************************************)
(* The passes keep the invariant, whatever the modules compiled.           *)
(***************************************************************************)
THEOREM ResolverInvariant == ResolverSpec => []ResolverInv
<1>1. ResolverInit => ResolverInv
    BY InitInv
<1>2. ResolverInv /\ [ResolverNext]_resolverVars => ResolverInv'
    BY StepInv
<1> QED BY <1>1, <1>2, PTL DEF ResolverSpec

(***************************************************************************)
(* The agenda holds the entries the visitors know, each type context is a  *)
(* type, and only expressions of the module become locals, get a target or *)
(* are reported.                                                           *)
(***************************************************************************)
THEOREM ResolverTyped == ResolverSpec => []ResolverTypeOK
<1>1. ResolverInv => ResolverTypeOK
    <2> SUFFICES ASSUME ResolverInv PROVE ResolverTypeOK
        OBVIOUS
    <2>1. \A k \in DOMAIN agenda : agenda[k].do \in {"visit", "leave", "signature", "type", "read"}
        <3> SUFFICES ASSUME NEW k \in DOMAIN agenda
                     PROVE  agenda[k].do \in {"visit", "leave", "signature", "type", "read"}
            OBVIOUS
        <3>1. agenda[k] \in AnEntry
            BY DEF ResolverInv, AgendaFits
        <3>2. agenda[k].do \in Jobs
            BY <3>1 DEF AnEntry
        <3> QED BY <3>2 DEF Jobs
    <2>2. \A p \in DOMAIN types : types[p] \in Types
        BY DEF ResolverInv, TypesFit
    <2>3. \A p \in locals \union DOMAIN targets \union problems : IsExpression(p)
        BY DEF ResolverInv, LocalsFit, LocalFits, TargetsFit, ProblemsFit, Resolvable
    <2> QED BY <2>1, <2>2, <2>3 DEF ResolverTypeOK, ResolverInv, Passes
<1> QED BY <1>1, ResolverInvariant, PTL

\* A method is called on something: the reference of a "." is not its target.
MethodsApart == \A p \in DOMAIN targets : InDot(p) => p # Kid(Parent(p), 1)

\* A step of the resolvers is one of a compilation that has no result yet,
\* and it is resolved only without problems.
LEMMA ResolverStep ==
    ASSUME ResolverNext
    PROVE  /\ status = "running" /\ program' = program
           /\ status' = "resolved" => problems' = {}
           /\ \A p \in DOMAIN targets' :
                 p \in DOMAIN targets \/ (InDot(p) => p # Kid(Parent(p), 1))
<1>0. /\ \A t : TakeTarget(t) => DOMAIN targets' = DOMAIN targets \union {Here}
      /\ \A s : Stop(s) => DOMAIN targets' = DOMAIN targets
    <2>1. ASSUME NEW t, TakeTarget(t) PROVE DOMAIN targets' = DOMAIN targets \union {Here}
        <3>1. targets' = With(targets, Here, t)
            BY <2>1 DEF TakeTarget
        <3> QED BY <3>1, WithIs
    <2>2. \A s : Stop(s) => DOMAIN targets' = DOMAIN targets
        BY DEF Stop
    <2> QED BY <2>1, <2>2
<1>1. CASE FollowNullLeft
    BY <1>1 DEF FollowNullLeft, Now, Stop
<1>2. CASE DescendLiterals
    BY <1>2 DEF DescendLiterals, Now, Descend
<1>3. CASE ResolveLiteral
    BY <1>3 DEF ResolveLiteral, Now, Stop
<1>4. CASE LeaveLiterals
    BY <1>4 DEF LeaveLiterals, Now, Done
<1>5. CASE ResolveTypeName
    BY <1>5 DEF ResolveTypeName, Now, GiveType, Stop
<1>6. CASE DescendArrayType
    BY <1>6 DEF DescendArrayType, Now, Descend
<1>7. CASE LeaveArrayType
    BY <1>7 DEF LeaveArrayType, Now, GiveType
<1>8. CASE TypeLeaf
    BY <1>8 DEF TypeLeaf, Now, GiveType
<1>9. CASE DescendTypes
    BY <1>9 DEF DescendTypes, Now, Descend
<1>10. CASE VisitCall
    BY <1>10 DEF VisitCall, Now, Descend
<1>11. CASE ReadArgument
    BY <1>11 DEF ReadArgument, Now, Done, Stop
<1>12. CASE LeaveArithmetic
    BY <1>12 DEF LeaveArithmetic, Now, GiveType, Stop
<1>13. CASE LeaveDivision
    BY <1>13 DEF LeaveDivision, Now, GiveType
<1>14. CASE LeaveEqual
    BY <1>14 DEF LeaveEqual, Now, GiveType
<1>15. CASE LeaveReference
    BY <1>15 DEF LeaveReference, Now, GiveType, Stop
<1>16. CASE LeaveIf
    BY <1>16 DEF LeaveIf, Now, Stop
<1>17. CASE LeaveUntyped
    BY <1>17 DEF LeaveUntyped, Now, Done
<1>18. CASE FindTargetCall
    <2>1. DOMAIN targets' = DOMAIN targets \/ (~InDot(Here) /\ DOMAIN targets' = DOMAIN targets \union {Here})
        BY <1>18, <1>0 DEF FindTargetCall
    <2>2. UNCHANGED <<program>> /\ status = "running" /\ status' # "resolved"
        BY <1>18 DEF FindTargetCall, Now, TakeTarget, Stop
    <2> QED BY <2>1, <2>2
<1>19. CASE FindMethod
    <2>1. \/ DOMAIN targets' = DOMAIN targets
          \/ Kid(Parent(Here), 1) # Here /\ DOMAIN targets' = DOMAIN targets \union {Here}
        BY <1>19, <1>0 DEF FindMethod
    <2>2. UNCHANGED <<program>> /\ status = "running" /\ status' # "resolved"
        BY <1>19 DEF FindMethod, Now, TakeTarget, Stop
    <2> QED BY <2>1, <2>2
<1>20. CASE StartSignatures
    BY <1>20 DEF StartSignatures
<1>21. CASE StartTypes
    BY <1>21 DEF StartTypes
<1>22. CASE FinishResolving
    BY <1>22 DEF FinishResolving, Stop
<1>23. CASE VisitSignature
    BY <1>23 DEF VisitSignature, Now
<1> QED
    BY <1>1, <1>2, <1>3, <1>4, <1>5, <1>6, <1>7, <1>8, <1>9, <1>10, <1>11, <1>12, <1>13, <1>14,
      <1>15, <1>16, <1>17, <1>18, <1>19, <1>20, <1>21, <1>22, <1>23 DEF ResolverNext

\* No operator of a resolved module lacks its left operand.
LEMMA NoNullLeft ==
    ASSUME ResolverInv, status \in {"resolved", "problems"}, NEW p, IsExpression(p)
    PROVE  ~NullLeft(p)
<1>1. agenda = <<>>
    BY DEF ResolverInv, EndsWell
<1>2. NullLeft(p) => p \in locals
    BY <1>1, PassEnded DEF Examined
<1>3. p \in locals => Kind(p) \in Names
    BY DEF ResolverInv, LocalsFit, LocalFits, IsLiteral
<1> QED BY <1>2, <1>3, NamesAssumption DEF NullLeft

\* What TypeResolver has left behind when the agenda is empty.
LEMMA WhenResolved ==
    ASSUME ResolverInv, status \in {"resolved", "problems"}, NEW p, Resolvable(p)
    PROVE  /\ p \in locals => Typed(p)
           /\ Kind(p) = "call" => p \in DOMAIN targets
           /\ Kind(p) = "if" => Checked(p)
<1>1. agenda = <<>> /\ pass = "types"
    BY DEF ResolverInv, EndsWell
<1>2. ~Open(p) /\ ~Visiting(p)
    BY <1>1, PassEnded
<1> QED BY <1>1, <1>2 DEF ResolverInv, Resolving

(***************************************************************************)
(* What ToMIRVisitor reads of a resolved module is there.                  *)
(***************************************************************************)
THEOREM ReadyForLowering == ResolverSpec => []LoweringReady
<1>1. ASSUME ResolverInv PROVE LoweringReady
    <2> SUFFICES ASSUME status = "resolved", NEW p \in Expressions
                 PROVE  /\ IsLiteral(p) => p \in locals
                        /\ ~InMethodArguments(p) =>
                              /\ p \in locals => Typed(p)
                              /\ Kind(p) = "call" => p \in DOMAIN targets
        BY DEF LoweringReady
    <2>1. IsExpression(p)
        BY <1>1, ExpressionsAre DEF ResolverInv
    <2>2. agenda = <<>>
        BY <1>1 DEF ResolverInv, EndsWell
    <2>3. IsLiteral(p) => p \in locals
        BY <1>1, <2>1, <2>2, PassEnded DEF Examined
    <2> QED BY <1>1, <2>1, <2>3, WhenResolved DEF Resolvable
<1> QED BY <1>1, ResolverInvariant, PTL

(***************************************************************************)
(* A module with a condition that is not a Bool is not lowered.            *)
(***************************************************************************)
THEOREM ConditionsChecked == ResolverSpec => []ConditionsAreBool
<1>1. ASSUME ResolverInv PROVE ConditionsAreBool
    <2> SUFFICES ASSUME status = "resolved", NEW p \in Expressions, Kind(p) = "if",
                        ~InMethodArguments(p)
                 PROVE  Typed(Kid(p, 1)) /\ types[Kid(p, 1)] = "Bool"
        BY DEF ConditionsAreBool
    <2>1. Resolvable(p)
        BY <1>1, ExpressionsAre DEF ResolverInv, Resolvable
    <2>2. problems = {}
        BY <1>1 DEF ResolverInv, EndsWell
    <2> QED BY <1>1, <2>1, <2>2, WhenResolved DEF Checked
<1> QED BY <1>1, ResolverInvariant, PTL

(***************************************************************************)
(* When a module is rejected for its conditions, the problems are all the  *)
(* ifs whose condition is not a Bool, and no others.                       *)
(***************************************************************************)
THEOREM ProblemsReported == ResolverSpec => []EveryProblemReported
<1>1. ASSUME ResolverInv PROVE EveryProblemReported
    <2> SUFFICES ASSUME status = "problems"
                 PROVE  /\ problems # {}
                        /\ problems = {p \in Expressions : /\ Kind(p) = "if" /\ ~InMethodArguments(p)
                                                          /\ types[Kid(p, 1)] # "Bool"}
        BY DEF EveryProblemReported
    <2>1. problems # {}
        BY <1>1 DEF ResolverInv, EndsWell
    <2>2. \A p \in problems : p \in Expressions /\ Resolvable(p) /\ Kind(p) = "if"
        BY <1>1, AllExpressions DEF ResolverInv, ProblemsFit, Resolvable
    <2>3. \A p \in Expressions : IsExpression(p)
        BY <1>1, ExpressionsAre DEF ResolverInv
    <2>4. \A p : Resolvable(p) /\ Kind(p) = "if" => Checked(p)
        BY <1>1, WhenResolved
    <2> QED BY <2>1, <2>2, <2>3, <2>4 DEF Checked, Resolvable
<1> QED BY <1>1, ResolverInvariant, PTL
-----------------------------------------------------------------------------
(***************************************************************************)
(* What a call finds when its target is looked for: its type variables and *)
(* the arguments that are read have types, or are to have them before the  *)
(* visit of the call ends.                                                 *)
(***************************************************************************)
Awaited(p) ==
    {Entry("type", v) : v \in Range(TypeVariables(p))}
        \union (IF InDot(p) THEN {} ELSE {Entry("read", a) : a \in Range(Arguments(p))})
Awaits(e) == e.do = "leave" /\ Kind(e.at) = "call"
Pledged(w) ==
    \A k \in DOMAIN w : Awaits(w[k]) =>
        \A e \in Awaited(w[k].at) : Typed(e.at) \/ \E j \in 1..(k - 1) : w[j] = e

TargetIs(t) == t.returns \in Types /\ Len(t.params) \in Nat

\* What is known of a call with the target t.
CallFits(p, t) ==
    /\ Kind(p) = "call" /\ TargetIs(t)
    /\ \A e \in Awaited(p) : Typed(e.at)
    /\ InDot(p) => Typed(Kid(Parent(p), 1))
    /\ ~InDot(p) /\ CallName(p) = "ccall" => Arguments(p) # <<>>
CallsFit == \A p \in DOMAIN targets : CallFits(p, targets[p])

\* The expressions that never have a type.
NeverTyped == {"block", "ret"}
ValuesTyped == \A p \in DOMAIN types : IsExpression(p) => Kind(p) \notin NeverTyped

CallsInv == (pass = "types" => Pledged(agenda)) /\ CallsFit /\ ValuesTyped

LEMMA SameCalls ==
    ASSUME program' = program
    PROVE  \A p : /\ Awaited(p)' = Awaited(p) /\ Kind(p)' = Kind(p) /\ InDot(p)' = InDot(p)
                  /\ IsExpression(p)' = IsExpression(p) /\ CallName(p)' = CallName(p)
                  /\ Arguments(p)' = Arguments(p)
<1>1. \A p : At(p)' = At(p) /\ Kind(p)' = Kind(p) /\ IsExpression(p)' = IsExpression(p)
    BY SameModule
<1>2. \A p : InDot(p)' = InDot(p) /\ CallName(p)' = CallName(p)
    BY <1>1 DEF InDot, CallName
<1>3. \A p : TypeVariables(p)' = TypeVariables(p)
    BY <1>1 DEF TypeVariables, Kid
<1>4. \A p : Arguments(p)' = Arguments(p)
    BY <1>1 DEF Arguments, Kids, Kid
<1>5. \A p : Awaited(p)' = Awaited(p)
    BY <1>2, <1>3, <1>4 DEF Awaited
<1> QED BY <1>1, <1>2, <1>4, <1>5

\* A call that fits fits when more has types.
LEMMA CallStillFits ==
    ASSUME program' = program, DOMAIN types \subseteq DOMAIN types', NEW p, NEW t, CallFits(p, t)
    PROVE  CallFits(p, t)'
<1>1. /\ Awaited(p)' = Awaited(p) /\ InDot(p)' = InDot(p) /\ Kind(p)' = Kind(p)
      /\ CallName(p)' = CallName(p) /\ Arguments(p)' = Arguments(p)
    BY SameCalls
<1>2. \A q : Typed(q) => Typed(q)'
    BY DEF Typed
<1> QED BY <1>1, <1>2 DEF CallFits, Kid, Parent

\* Entries es come for the head of the agenda.
LEMMA PledgesKept ==
    ASSUME agenda \in Seq(AnEntry), agenda # <<>>, Pledged(agenda), program' = program,
           DOMAIN types \subseteq DOMAIN types', NEW es \in Seq(AnEntry), Pledged(es),
           agenda' = es \o Tail(agenda),
           Head(agenda).do \in {"type", "read"} => Head(agenda).at \in DOMAIN types'
    PROVE  Pledged(agenda)'
<1> DEFINE n == Len(es)
           w == agenda'
<1>1. /\ n \in Nat /\ DOMAIN es = 1..n /\ Len(agenda) \in Nat \ {0} /\ DOMAIN agenda = 1..Len(agenda)
      /\ agenda[1] = Head(agenda)
    OBVIOUS
<1>2. /\ DOMAIN w = 1..(n + Len(agenda) - 1)
      /\ \A i \in 1..n : w[i] = es[i]
      /\ \A i \in 2..Len(agenda) : w[n + i - 1] = agenda[i]
    BY <1>1
<1> HIDE DEF n, w
<1>3. \A p : Awaited(p)' = Awaited(p) /\ Kind(p)' = Kind(p)
    BY SameCalls
<1>4. \A q : Typed(q)' <=> q \in DOMAIN types'
    BY DEF Typed
<1>5. \A q : Typed(q) => q \in DOMAIN types'
    BY DEF Typed
<1>6. \A p : \A e \in Awaited(p) : e.do \in {"type", "read"}
    BY DEF Awaited, Entry
<1>7. ASSUME NEW k \in DOMAIN w, Awaits(w[k]), NEW e \in Awaited(w[k].at)
      PROVE  e.at \in DOMAIN types' \/ \E j \in 1..(k - 1) : w[j] = e
    <2>1. CASE k \in 1..n
        <3>1. Awaits(es[k]) /\ e \in Awaited(es[k].at) /\ k \in DOMAIN es
            BY <1>1, <1>2, <1>7, <2>1
        <3>2. Typed(e.at) \/ \E j \in 1..(k - 1) : es[j] = e
            BY <3>1 DEF Pledged
        <3>3. \A j \in 1..(k - 1) : w[j] = es[j]
            BY <1>1, <1>2, <2>1
        <3> QED BY <1>5, <3>2, <3>3
    <2>2. CASE k \notin 1..n
        <3> DEFINE i == k - n + 1
        <3>1. i \in 2..Len(agenda) /\ n + i - 1 = k
            BY <1>1, <1>2, <1>7, <2>2
        <3> HIDE DEF i
        <3>2. w[k] = agenda[i] /\ i \in DOMAIN agenda
            BY <1>1, <1>2, <3>1
        <3>3. Typed(e.at) \/ \E j \in 1..(i - 1) : agenda[j] = e
            BY <1>7, <3>2 DEF Pledged
        <3>4. ASSUME NEW j \in 1..(i - 1), agenda[j] = e
              PROVE  e.at \in DOMAIN types' \/ \E l \in 1..(k - 1) : w[l] = e
            <4>1. CASE j = 1
                BY <1>1, <1>6, <3>4, <4>1
            <4>2. CASE j # 1
                <5>1. j \in 2..Len(agenda) /\ n + j - 1 \in 1..(k - 1)
                    BY <1>1, <3>1, <4>2
                <5> QED BY <1>2, <3>4, <5>1
            <4> QED BY <4>1, <4>2
        <3> QED BY <1>5, <3>3, <3>4
    <2> QED BY <2>1, <2>2
<1>8. \A e : Awaits(e)' = Awaits(e)
    BY <1>3 DEF Awaits
<1> QED BY <1>3, <1>4, <1>7, <1>8 DEF Pledged, w

\* How a step of the resolvers changes the agenda and the contexts while
\* types are resolved.
Kept == agenda' = agenda /\ types' = types
HeadTaken ==
    /\ agenda' = Tail(agenda) /\ DOMAIN types \subseteq DOMAIN types'
    /\ Head(agenda).do \in {"type", "read"} => Head(agenda).at \in DOMAIN types'
TypePassStep ==
    \/ Kept
    \/ agenda # <<>> /\ HeadTaken
    \/ DescendTypes \/ VisitCall

LEMMA TypePassSteps ==
    ASSUME ResolverNext, pass = "types"
    PROVE  TypePassStep
<1>1. \A s : Stop(s) => Kept
    BY DEF Stop, Kept
<1>2. \A do \in {"visit", "leave", "read", "type"} : \A ps : Now(do, ps) =>
          agenda # <<>> /\ Head(agenda).do = do
    BY DEF Now
<1>3. \A ts : GiveType(ts) => HeadTaken
    <2> SUFFICES ASSUME NEW ts, GiveType(ts) PROVE HeadTaken
        OBVIOUS
    <2>1. PICK t \in ts : types' = With(types, Here, t)
        BY DEF GiveType
    <2>2. DOMAIN types' = DOMAIN types \union {Here}
        BY <2>1, WithIs
    <2> QED BY <2>2 DEF GiveType, HeadTaken, Here
<1>4. \A t : TakeTarget(t) => HeadTaken
    <2> SUFFICES ASSUME NEW t, TakeTarget(t) PROVE HeadTaken
        OBVIOUS
    <2>1. types' = With(types, Here, t.returns)
        BY DEF TakeTarget
    <2>2. DOMAIN types' = DOMAIN types \union {Here}
        BY <2>1, WithIs
    <2> QED BY <2>2 DEF TakeTarget, HeadTaken, Here
<1>5. Done /\ (Typed(Here) \/ Head(agenda).do \notin {"type", "read"}) => HeadTaken
    BY DEF Done, HeadTaken, Typed, Here
<1>6. CASE FollowNullLeft \/ DescendLiterals \/ ResolveLiteral \/ LeaveLiterals \/ VisitSignature
           \/ DescendArrayType \/ LeaveArrayType \/ StartSignatures \/ StartTypes
    BY <1>6 DEF FollowNullLeft, DescendLiterals, ResolveLiteral, LeaveLiterals, VisitSignature,
                DescendArrayType, LeaveArrayType, StartSignatures, StartTypes, Now
<1>7. CASE ResolveTypeName
    BY <1>1, <1>2, <1>3, <1>7 DEF ResolveTypeName, TypePassStep
<1>8. CASE TypeLeaf
    BY <1>2, <1>3, <1>8 DEF TypeLeaf, TypePassStep
<1>9. CASE ReadArgument
    BY <1>1, <1>2, <1>5, <1>9 DEF ReadArgument, TypePassStep
<1>10. CASE LeaveArithmetic
    BY <1>1, <1>2, <1>3, <1>10 DEF LeaveArithmetic, TypePassStep
<1>11. CASE LeaveDivision \/ LeaveEqual
    BY <1>2, <1>3, <1>11 DEF LeaveDivision, LeaveEqual, TypePassStep
<1>12. CASE LeaveReference
    BY <1>1, <1>2, <1>3, <1>12 DEF LeaveReference, TypePassStep
<1>13. CASE LeaveIf
    <2>1. agenda # <<>> /\ Head(agenda).do = "leave"
        BY <1>2, <1>13 DEF LeaveIf
    <2>2. CASE Stop("crashed")
        BY <1>1, <2>2 DEF TypePassStep
    <2>3. CASE agenda' = Tail(agenda) /\ UNCHANGED types
        BY <2>1, <2>3 DEF HeadTaken, TypePassStep
    <2> QED BY <1>13, <2>2, <2>3 DEF LeaveIf
<1>14. CASE LeaveUntyped
    BY <1>2, <1>5, <1>14 DEF LeaveUntyped, TypePassStep
<1>15. CASE FindTargetCall
    <2>1. (\E s : Stop(s)) \/ (\E t : TakeTarget(t))
        BY <1>15 DEF FindTargetCall
    <2> QED BY <1>1, <1>2, <1>4, <1>15, <2>1 DEF FindTargetCall, TypePassStep
<1>16. CASE FindMethod
    <2>1. (\E s : Stop(s)) \/ (\E t : TakeTarget(t))
        BY <1>16 DEF FindMethod
    <2> QED BY <1>1, <1>2, <1>4, <1>16, <2>1 DEF FindMethod, TypePassStep
<1>17. CASE FinishResolving
    BY <1>1, <1>17 DEF FinishResolving, TypePassStep
<1> QED
    BY <1>6, <1>7, <1>8, <1>9, <1>10, <1>11, <1>12, <1>13, <1>14, <1>15, <1>16, <1>17
       DEF ResolverNext, TypePassStep

\* The entries that come for a visit keep what they promise.
LEMMA NothingPledged ==
    ASSUME NEW es \in Seq(AnEntry), \A e \in Range(es) : ~Awaits(e)
    PROVE  Pledged(es)
BY DEF Pledged, Range

LEMMA CallPledged ==
    ASSUME ResolverInv, VisitCall
    PROVE  LET a == Entries("type", TypeVariables(Here))
               b == IF InDot(Here) THEN <<>> ELSE InTurns("visit", "read", Arguments(Here))
               es == a \o b \o <<Entry("leave", Here)>>
           IN /\ agenda' = es \o Tail(agenda) /\ UNCHANGED <<program, pass, locals, types, targets>>
              /\ es \in Seq(AnEntry) /\ Pledged(es)
<1> DEFINE q == Here
           a == Entries("type", TypeVariables(q))
           b == IF InDot(q) THEN <<>> ELSE InTurns("visit", "read", Arguments(q))
           l == Entry("leave", q)
           es == a \o b \o <<l>>
<1>1. Now("visit", {"types"}) /\ Descend(a \o b) /\ Kind(q) = "call"
    BY DEF VisitCall
<1>2. IsExpression(q) /\ q \in Seq(Nat) /\ Rooted
    BY <1>1, AtHead DEF EntryFits
<1>3. TypeVariables(q) \in Seq(Seq(Nat)) /\ Arguments(q) \in Seq(Seq(Nat))
    BY <1>1, <1>2, CallIs, ChildrenAreKids
<1>4. /\ a \in Seq(AnEntry) /\ Range(a) = {Entry("type", v) : v \in Range(TypeVariables(q))}
    BY <1>3, EntriesAre DEF Jobs
<1>5. b \in Seq(AnEntry) /\ (InDot(q) => Range(b) = {})
      /\ (~InDot(q) => Range(b) = {Entry("visit", c) : c \in Range(Arguments(q))}
                                     \union {Entry("read", c) : c \in Range(Arguments(q))})
    <2>1. CASE InDot(q)
        BY <2>1, OnceEmpty
    <2>2. CASE ~InDot(q)
        BY <1>3, <2>2, InTurnsAre DEF Jobs
    <2> QED BY <2>1, <2>2
<1>6. l \in AnEntry /\ l.do = "leave" /\ l.at = q
    BY <1>2, EntryIs DEF Jobs
<1>7. agenda' = es \o Tail(agenda) /\ UNCHANGED <<program, pass, locals, types, targets>>
    <2>1. agenda' = (a \o b) \o <<l>> \o Tail(agenda)
          /\ UNCHANGED <<program, pass, locals, types, targets>>
        BY <1>1 DEF Descend
    <2> QED BY <2>1
<1>8. \A e \in Range(a) \union Range(b) : e.do # "leave"
    BY <1>4, <1>5 DEF Entry
<1>9. Awaited(q) \subseteq Range(a) \union Range(b)
    BY <1>4, <1>5 DEF Awaited
<1> HIDE DEF a, b, l
<1> DEFINE m == Len(a) + Len(b)
<1>10. /\ a \o b \in Seq(AnEntry) /\ m \in Nat /\ es \in Seq(AnEntry) /\ DOMAIN es = 1..(m + 1)
       /\ es[m + 1] = l /\ \A i \in 1..Len(a) : es[i] = a[i]
       /\ \A i \in 1..Len(b) : es[Len(a) + i] = b[i]
       /\ DOMAIN a = 1..Len(a) /\ DOMAIN b = 1..Len(b)
    BY <1>4, <1>5, <1>6
<1>11. \A e \in Range(a) \union Range(b) : \E j \in 1..m : es[j] = e
    <2>1. ASSUME NEW e \in Range(a) PROVE \E j \in 1..m : es[j] = e
        <3>1. PICK i \in 1..Len(a) : e = a[i]
            BY <1>10 DEF Range
        <3>2. i \in 1..m
            BY <1>4, <1>5
        <3> QED BY <1>10, <3>1, <3>2
    <2>2. ASSUME NEW e \in Range(b) PROVE \E j \in 1..m : es[j] = e
        <3>1. PICK i \in 1..Len(b) : e = b[i]
            BY <1>10 DEF Range
        <3>2. Len(a) + i \in 1..m
            BY <1>4, <1>5
        <3> QED BY <1>10, <3>1, <3>2
    <2> QED BY <2>1, <2>2
<1>12. \A j \in 1..m : es[j] \in Range(a) \union Range(b)
    <2> SUFFICES ASSUME NEW j \in 1..m PROVE es[j] \in Range(a) \union Range(b)
        OBVIOUS
    <2>1. CASE j \in 1..Len(a)
        BY <1>10, <2>1 DEF Range
    <2>2. CASE j \notin 1..Len(a)
        <3>1. j - Len(a) \in 1..Len(b) /\ Len(a) + (j - Len(a)) = j
            BY <1>4, <1>5, <2>2
        <3> QED BY <1>10, <3>1 DEF Range
    <2> QED BY <2>1, <2>2
<1> HIDE DEF m, es
<1>13. ASSUME NEW k \in DOMAIN es, Awaits(es[k])
       PROVE  k = m + 1
    <2>1. k \notin 1..m
        BY <1>8, <1>12, <1>13 DEF Awaits
    <2> QED BY <1>10, <2>1
<1>14. Pledged(es)
    <2> SUFFICES ASSUME NEW k \in DOMAIN es, Awaits(es[k]), NEW e \in Awaited(es[k].at)
                 PROVE  \E j \in 1..(k - 1) : es[j] = e
        BY DEF Pledged
    <2>1. k = m + 1
        BY <1>13
    <2>2. e \in Awaited(q) /\ k - 1 = m
        BY <1>6, <1>10, <2>1
    <2> QED BY <1>9, <1>11, <2>2
<1> QED BY <1>7, <1>10, <1>14 DEF a, b, l, es

LEMMA PledgedStep ==
    ASSUME ResolverInv, ResolverNext, pass = "types" => Pledged(agenda)
    PROVE  pass' = "types" => Pledged(agenda)'
<1>1. program' = program
    BY ResolverStep
<1>2. agenda \in Seq(AnEntry)
    BY DEF ResolverInv, AgendaFits
<1>3. \A p : Awaited(p)' = Awaited(p) /\ Kind(p)' = Kind(p)
    BY <1>1, SameCalls
<1>4. CASE pass = "types"
    <2>1. CASE Kept
        BY <1>3, <1>4, <2>1 DEF Kept, Pledged, Awaits, Typed
    <2>2. CASE agenda # <<>> /\ HeadTaken
        <3>1. <<>> \in Seq(AnEntry) /\ Pledged(<<>>)
            BY OnceEmpty, NothingPledged
        <3>2. agenda' = <<>> \o Tail(agenda)
            BY <1>2, <2>2 DEF HeadTaken
        <3> QED BY <1>1, <1>2, <1>4, <2>2, <3>1, <3>2, PledgesKept DEF HeadTaken
    <2>3. CASE DescendTypes
        <3> DEFINE es == Entries("visit", Children(Here))
                   l == Entry("leave", Here)
        <3>1. Now("visit", {"types"}) /\ Descend(es) /\ Kind(Here) # "call"
            BY <2>3 DEF DescendTypes
        <3>2. /\ agenda # <<>> /\ Head(agenda).do = "visit" /\ Here \in Seq(Nat) /\ Rooted
              /\ IsExpression(Here)
            BY <3>1, AtHead DEF EntryFits
        <3>3. Children(Here) \in Seq(Seq(Nat))
            BY <3>2, ChildrenAreKids
        <3>4. es \in Seq(AnEntry) /\ Range(es) = {Entry("visit", c) : c \in Range(Children(Here))}
            BY <3>3, EntriesAre DEF Jobs
        <3>5. l \in AnEntry /\ l.at = Here
            BY <3>2, EntryIs DEF Jobs
        <3>6. \A e \in Range(es) : ~Awaits(e)
            BY <3>4 DEF Awaits, Entry
        <3>7. ~Awaits(l)
            BY <3>1, <3>5 DEF Awaits
        <3>8. agenda' = (es \o <<l>>) \o Tail(agenda) /\ types' = types
            BY <3>1 DEF Descend
        <3> HIDE DEF es, l
        <3>9. <<l>> \in Seq(AnEntry) /\ Range(<<l>>) = {l}
            BY <3>5, OnceOne
        <3>10. es \o <<l>> \in Seq(AnEntry) /\ \A e \in Range(es \o <<l>>) : ~Awaits(e)
            BY <3>4, <3>5, <3>6, <3>7 DEF Range
        <3>11. Pledged(es \o <<l>>)
            BY <3>10, NothingPledged
        <3> QED BY <1>1, <1>2, <1>4, <3>2, <3>8, <3>10, <3>11, PledgesKept
    <2>4. CASE VisitCall
        <3>1. PICK es \in Seq(AnEntry) :
                  agenda' = es \o Tail(agenda) /\ types' = types /\ Pledged(es)
            BY <2>4, CallPledged
        <3>2. Now("visit", {"types"})
            BY <2>4 DEF VisitCall
        <3>3. agenda # <<>> /\ Head(agenda).do = "visit"
            BY <3>2 DEF Now
        <3> QED BY <1>1, <1>2, <1>4, <3>1, <3>3, PledgesKept
    <2> QED BY <1>4, <2>1, <2>2, <2>3, <2>4, TypePassSteps DEF TypePassStep
<1>5. CASE StartTypes
    <2> DEFINE e == Entry("visit", <<>>)
    <2>1. agenda' = <<e>>
        BY <1>5 DEF StartTypes
    <2>2. e.do = "visit"
        BY DEF Entry
    <2> HIDE DEF e
    <2>3. DOMAIN agenda' = {1} /\ agenda'[1] = e
        BY <2>1
    <2>4. ~Awaits(e)'
        BY <2>2 DEF Awaits
    <2> QED BY <2>3, <2>4 DEF Pledged
<1>6. CASE pass # "types" /\ ~StartTypes
    <2>1. pass' # "types"
        BY <1>6 DEF ResolverNext, FollowNullLeft, DescendLiterals, ResolveLiteral, LeaveLiterals,
             VisitSignature, ResolveTypeName, DescendArrayType, LeaveArrayType,
             TypeLeaf, DescendTypes, VisitCall, ReadArgument,
             LeaveArithmetic, LeaveDivision, LeaveEqual, LeaveReference,
             LeaveIf, LeaveUntyped, FindTargetCall, FindMethod, StartSignatures, FinishResolving,
             Stop, Descend, Done, GiveType, Now
    <2> QED BY <2>1
<1> QED BY <1>4, <1>5, <1>6

\* A builtin of the name ccall misses its first argument in a call that has
\* none.
LEMMA NothingMatches ==
    ASSUME NEW b, b.params = <<"Raw", "Any">>
    PROVE  MissesArgument(b, <<>>)
<1> DEFINE Is(k) == /\ k > Len(b.params) \/ k > Len(<<>>) \/ ~Matches(b.params[k], <<>>[k])
                    /\ \A j \in 1..(k - 1) : j <= Len(<<>>) /\ Matches(b.params[j], <<>>[j])
<1>1. Len(b.params) = 2 /\ Len(<<>>) = 0
    OBVIOUS
<1>2. Is(1) /\ 1 \in 1..3
    BY <1>1
<1>3. \A k \in 1..3 : Is(k) => k = 1
    <2> SUFFICES ASSUME NEW k \in 1..3, Is(k), k # 1 PROVE FALSE
        OBVIOUS
    <2>1. 1 \in 1..(k - 1)
        OBVIOUS
    <2>2. 1 <= Len(<<>>)
        BY <2>1
    <2> QED BY <1>1, <2>2
<1> HIDE DEF Is
<1>4. (CHOOSE k \in 1..3 : Is(k)) = 1
    BY <1>2, <1>3
<1>5. FirstBad(b.params, <<>>) = CHOOSE k \in 1..3 : Is(k)
    BY <1>1 DEF FirstBad, Is
<1>6. FirstBad(b.params, <<>>) = 1
    BY <1>4, <1>5
<1>7. 1 <= Len(b.params) /\ 1 > Len(<<>>)
    BY <1>1
<1> QED BY <1>6, <1>7 DEF MissesArgument

\* A target that is taken fits its call.
LEMMA TargetTaken ==
    ASSUME ResolverInv, Pledged(agenda), FindTargetCall \/ FindMethod
    PROVE  \/ UNCHANGED <<targets, types>>
           \/ \E t : /\ targets' = With(targets, Here, t) /\ types' = With(types, Here, t.returns)
                     /\ CallFits(Here, t)
<1>1. Now("leave", {"types"}) /\ Kind(Here) = "call"
    BY DEF FindTargetCall, FindMethod
<1>2. /\ agenda # <<>> /\ Head(agenda).do = "leave" /\ Here = Head(agenda).at /\ pass = "types"
      /\ agenda \in Seq(AnEntry) /\ IsExpression(Here) /\ Rooted
    BY <1>1, AtHead DEF EntryFits
<1>3. \A e \in Awaited(Here) : Typed(e.at)
    <2>1. 1 \in DOMAIN agenda /\ agenda[1] = Head(agenda) /\ Awaits(agenda[1])
        BY <1>1, <1>2 DEF Awaits
    <2>2. \A j \in 1..(1 - 1) : FALSE
        OBVIOUS
    <2> QED BY <1>2, <2>1, <2>2 DEF Pledged
<1>4. \A s : Stop(s) => UNCHANGED <<targets, types>>
    BY DEF Stop
<1>5. \A t : TakeTarget(t) => targets' = With(targets, Here, t) /\ types' = With(types, Here, t.returns)
    BY DEF TakeTarget
<1>6. CASE FindTargetCall
    <2> DEFINE args == [k \in DOMAIN Arguments(Here) |-> types[Arguments(Here)[k]]]
               builtins == {b \in Builtins : b.name = CallName(Here)}
               fs == SameArity(CallName(Here), Len(args))
    <2>1. ~InDot(Here)
        BY <1>6 DEF FindTargetCall
    <2>2. \/ Stop("uncaught") \/ Stop("syntaxError")
          \/ /\ ~\E b \in builtins : MissesArgument(b, args)
             /\ \/ \E b \in builtins : TakeTarget(b)
                \/ fs # {} /\ TakeTarget(FunctionTarget(FirstOf(fs)))
        BY <1>6 DEF FindTargetCall
    <2>3. \A b \in builtins : TargetIs(b)
        BY DEF Builtins, Target, Types, TargetIs
    <2>4. ASSUME fs # {} PROVE TargetIs(FunctionTarget(FirstOf(fs)))
        <3>1. fs \in SUBSET FunctionNodes
            BY DEF SameArity
        <3> HIDE DEF fs
        <3>2. FirstOf(fs) \in FunctionNodes
            BY <2>4, <3>1, FirstOfIs
        <3>3. FunctionTarget(FirstOf(fs)).returns = types[ReturnType(FirstOf(fs))]
            BY DEF FunctionTarget, Target
        <3>4. ReturnType(FirstOf(fs)) \in SignatureOf(FirstOf(fs))
            BY DEF SignatureOf
        <3>5. FunctionTarget(FirstOf(fs)).returns \in Types
            BY <1>2, <3>2, <3>3, <3>4, SignatureTyped
        <3> DEFINE ps == ParamTypes(FirstOf(fs))
                   params == [k \in DOMAIN ps |-> types[ps[k]]]
        <3>6. ps \in Seq(Seq(Nat)) /\ FunctionTarget(FirstOf(fs)).params = params
            BY <1>2, <3>2, SignatureIs DEF FunctionTarget, Target
        <3> HIDE DEF ps
        <3>7. Len(ps) \in Nat /\ DOMAIN ps = 1..Len(ps)
            BY <3>6
        <3>8. Len(params) \in Nat
            BY <3>7
        <3> QED BY <3>5, <3>6, <3>8 DEF TargetIs
    <2>5. ASSUME CallName(Here) = "ccall", ~\E b \in builtins : MissesArgument(b, args)
          PROVE  Arguments(Here) # <<>>
        <3> DEFINE c == Target("builtin", "ccall", <<"Raw", "Any">>, "Any")
        <3>1. c \in builtins /\ c.params = <<"Raw", "Any">>
            BY <2>5 DEF Builtins, Target
        <3>2. MissesArgument(c, <<>>)
            BY <3>1, NothingMatches
        <3> HIDE DEF c, builtins
        <3>3. args # <<>>
            BY <2>5, <3>1, <3>2
        <3>4. Arguments(Here) = <<>> => args = <<>>
            OBVIOUS
        <3> QED BY <3>3, <3>4
    <2> HIDE DEF args, builtins, fs
    <2>6. ASSUME NEW t, TargetIs(t), TakeTarget(t),
                 ~\E b \in builtins : MissesArgument(b, args)
          PROVE  CallFits(Here, t)
        BY <1>1, <1>3, <2>1, <2>5, <2>6 DEF CallFits
    <2> QED BY <1>4, <1>5, <2>2, <2>3, <2>4, <2>6
<1>7. CASE FindMethod
    <2> DEFINE owner == Kid(Parent(Here), 1)
               found == {t \in Methods(types[owner]) : t.name = CallName(Here)}
    <2>1. InDot(Here)
        BY <1>7 DEF FindMethod
    <2>2. \/ Stop("crashed") \/ Stop("syntaxError")
          \/ Typed(owner) /\ \E t \in found : TakeTarget(t)
        BY <1>7 DEF FindMethod
    <2>3. \A t \in found : TargetIs(t)
        <3>1. Len(<<>>) \in Nat
            OBVIOUS
        <3> QED BY <3>1 DEF Methods, Target, Types, TargetIs
    <2> HIDE DEF found
    <2>4. ASSUME NEW t \in found, Typed(owner) PROVE CallFits(Here, t)
        BY <1>1, <1>3, <2>1, <2>3, <2>4 DEF CallFits
    <2> QED BY <1>4, <1>5, <2>2, <2>4
<1> QED BY <1>6, <1>7

\* How a step of the resolvers may give a type.
GivenWell ==
    \/ types' = types
    \/ \E t : types' = With(types, Here, t)
              /\ (IsExpression(Here) => Kind(Here) \notin NeverTyped)

LEMMA TypesGiven ==
    ASSUME ResolverInv, ResolverNext
    PROVE  GivenWell
<1>0. /\ \A s : Stop(s) => types' = types
      /\ \A es : Descend(es) => types' = types
      /\ Done => types' = types
      /\ \A t : TakeTarget(t) => types' = With(types, Here, t.returns)
      /\ \A ts : GiveType(ts) => \E t \in ts : types' = With(types, Here, t)
    BY DEF Stop, Descend, Done, TakeTarget, GiveType
<1>1. \A ts : GiveType(ts) /\ (IsExpression(Here) => Kind(Here) \notin NeverTyped) => GivenWell
    BY <1>0 DEF GivenWell
<1>2. types' = types => GivenWell
    BY DEF GivenWell
<1>3. CASE FollowNullLeft \/ DescendLiterals \/ ResolveLiteral \/ LeaveLiterals \/ VisitSignature
           \/ DescendArrayType \/ DescendTypes \/ VisitCall \/ ReadArgument \/ LeaveIf
           \/ LeaveUntyped \/ StartSignatures \/ StartTypes \/ FinishResolving
    BY <1>0, <1>2, <1>3 DEF FollowNullLeft, DescendLiterals, ResolveLiteral, LeaveLiterals,
       VisitSignature, DescendArrayType, DescendTypes, VisitCall, ReadArgument, LeaveIf,
       LeaveUntyped, StartSignatures, StartTypes, FinishResolving
<1>4. CASE ResolveTypeName
    <2>1. Now("type", {"signatures", "types"})
        BY <1>4 DEF ResolveTypeName
    <2>2. ~IsExpression(Here)
        BY <2>1, AtHead DEF EntryFits
    <2> QED BY <1>0, <1>1, <1>2, <1>4, <2>2 DEF ResolveTypeName
<1>5. CASE LeaveArrayType
    <2>1. Now("leave", {"signatures"})
        BY <1>5 DEF LeaveArrayType
    <2>2. ~IsExpression(Here)
        BY <2>1, AtHead DEF EntryFits
    <2> QED BY <1>1, <1>5, <2>2 DEF LeaveArrayType
<1>6. CASE TypeLeaf
    <2>1. Here \in locals => Kind(Here) \in Names
        BY DEF ResolverInv, LocalsFit, LocalFits, IsLiteral
    <2>2. Kind(Here) \in Names \union Numbers \union {"string"} => Kind(Here) \notin NeverTyped
        BY NamesAssumption DEF NeverTyped
    <2> QED BY <1>1, <1>6, <2>1, <2>2 DEF TypeLeaf
<1>7. CASE LeaveArithmetic \/ LeaveDivision \/ LeaveEqual \/ LeaveReference
    <2>1. Kind(Here) \notin NeverTyped
        BY <1>7 DEF LeaveArithmetic, LeaveDivision, LeaveEqual, LeaveReference, NeverTyped
    <2> QED BY <1>0, <1>1, <1>2, <1>7, <2>1
            DEF LeaveArithmetic, LeaveDivision, LeaveEqual, LeaveReference
<1>8. CASE FindTargetCall \/ FindMethod
    <2>1. Kind(Here) \notin NeverTyped
        BY <1>8 DEF FindTargetCall, FindMethod, NeverTyped
    <2>2. (\E s : Stop(s)) \/ (\E t : TakeTarget(t))
        BY <1>8 DEF FindTargetCall, FindMethod
    <2> QED BY <1>0, <1>2, <2>1, <2>2 DEF GivenWell
<1> QED BY <1>3, <1>4, <1>5, <1>6, <1>7, <1>8 DEF ResolverNext

LEMMA ValuesTypedStep ==
    ASSUME ResolverInv, ResolverNext, ValuesTyped
    PROVE  ValuesTyped' /\ DOMAIN types \subseteq DOMAIN types'
<1>1. \A p : Kind(p)' = Kind(p) /\ IsExpression(p)' = IsExpression(p)
    BY ResolverStep, SameCalls
<1>2. CASE types' = types
    BY <1>1, <1>2 DEF ValuesTyped
<1>3. ASSUME NEW t, types' = With(types, Here, t), IsExpression(Here) => Kind(Here) \notin NeverTyped
      PROVE  ValuesTyped' /\ DOMAIN types \subseteq DOMAIN types'
    <2>1. DOMAIN types' = DOMAIN types \union {Here}
        BY <1>3, WithIs
    <2> QED BY <1>1, <1>3, <2>1 DEF ValuesTyped
<1> QED BY <1>2, <1>3, TypesGiven DEF GivenWell

LEMMA CallsFitStep ==
    ASSUME ResolverInv, ResolverNext, CallsInv
    PROVE  CallsFit'
<1>1. program' = program /\ DOMAIN types \subseteq DOMAIN types'
    BY ResolverStep, ValuesTypedStep DEF CallsInv
<1>2. \A p : \A t : CallFits(p, t) => CallFits(p, t)'
    BY <1>1, CallStillFits
<1>3. CASE targets' = targets
    BY <1>2, <1>3 DEF CallsInv, CallsFit
<1>4. CASE FindTargetCall \/ FindMethod
    <2>1. pass = "types"
        BY <1>4 DEF FindTargetCall, FindMethod, Now
    <2>2. CASE UNCHANGED <<targets, types>>
        BY <1>3, <2>2
    <2>3. ASSUME NEW t, targets' = With(targets, Here, t), CallFits(Here, t) PROVE CallsFit'
        <3>1. PICK h : h = Here
            OBVIOUS
        <3>2. DOMAIN targets' = DOMAIN targets \union {h} /\ targets'[h] = t
              /\ \A y \in DOMAIN targets : y # h => targets'[y] = targets[y]
            <4> DEFINE f == With(targets, h, t)
            <4>1. DOMAIN f = DOMAIN targets \union {h} /\ f[h] = t
                  /\ \A y \in DOMAIN targets : y # h => f[y] = targets[y]
                BY DEF With
            <4>2. targets' = f
                BY <2>3, <3>1
            <4> HIDE DEF f
            <4> QED BY <4>1, <4>2
        <3>3. ASSUME NEW p \in DOMAIN targets' PROVE CallFits(p, targets'[p])
            BY <2>3, <3>1, <3>2 DEF CallsInv, CallsFit
        <3>4. ASSUME NEW p \in DOMAIN targets' PROVE CallFits(p, targets[p])'
            <4>1. PICK u : u = targets'[p]
                OBVIOUS
            <4>2. CallFits(p, u)'
                BY <1>2, <3>3, <4>1
            <4> QED BY <4>1, <4>2 DEF CallFits
        <3> QED BY <3>4 DEF CallsFit
    <2> QED BY <1>4, <2>1, <2>2, <2>3, TargetTaken DEF CallsInv
<1>5. CASE ~FindTargetCall /\ ~FindMethod
    <2>1. targets' = targets
        BY <1>5 DEF ResolverNext, FollowNullLeft, DescendLiterals, ResolveLiteral, LeaveLiterals,
             VisitSignature, ResolveTypeName, DescendArrayType, LeaveArrayType,
             TypeLeaf, DescendTypes, VisitCall, ReadArgument,
             LeaveArithmetic, LeaveDivision, LeaveEqual, LeaveReference,
             LeaveIf, LeaveUntyped, StartSignatures, StartTypes, FinishResolving,
             Stop, Descend, Done, GiveType
    <2> QED BY <1>3, <2>1
<1> QED BY <1>4, <1>5

LEMMA CallsStep ==
    ASSUME ResolverInv, CallsInv, ResolverNext
    PROVE  CallsInv'
BY PledgedStep, CallsFitStep, ValuesTypedStep DEF CallsInv

LEMMA CallsSame ==
    ASSUME CallsInv, UNCHANGED <<program, pass, agenda, types, targets>>
    PROVE  CallsInv'
<1>1. \A p : Awaited(p)' = Awaited(p) /\ Kind(p)' = Kind(p) /\ IsExpression(p)' = IsExpression(p)
    BY SameCalls
<1>2. \A p, t : CallFits(p, t) => CallFits(p, t)'
    BY CallStillFits
<1>3. \A p : Typed(p)' = Typed(p)
    BY DEF Typed
<1>4. pass' = "types" => Pledged(agenda)'
    BY <1>1, <1>3 DEF CallsInv, Pledged, Awaits
<1>5. CallsFit'
    BY <1>2 DEF CallsInv, CallsFit
<1>6. ValuesTyped'
    BY <1>1 DEF CallsInv, ValuesTyped
<1> QED BY <1>4, <1>5, <1>6 DEF CallsInv

LEMMA CallsStart ==
    ASSUME ResolverInit
    PROVE  CallsInv
<1>1. types = <<>> /\ targets = <<>> /\ pass = "literals"
    BY DEF ResolverInit
<1>2. DOMAIN types = {} /\ DOMAIN targets = {}
    BY <1>1
<1> QED BY <1>1, <1>2 DEF CallsInv, CallsFit, ValuesTyped

\* The contexts that exist are types.
LEMMA TypedIs ==
    ASSUME ResolverInv, NEW p, Typed(p)
    PROVE  types[p] \in Types
BY DEF ResolverInv, TypesFit, Typed

(***************************************************************************)
(* A call that has a target has types for its type variables, for every    *)
(* argument or for the reference it is made on, and ccall has an argument: *)
(* what the lowering and the caster read of a call (MIR.cpp 123-164,       *)
(* 487-525).                                                               *)
(***************************************************************************)
THEOREM CallsTyped == ResolverSpec => []CallsFit
<1>1. ResolverInit => ResolverInv /\ CallsInv
    BY InitInv, CallsStart
<1>2. ResolverInv /\ CallsInv /\ [ResolverNext]_resolverVars => ResolverInv' /\ CallsInv'
    <2> SUFFICES ASSUME ResolverInv, CallsInv, [ResolverNext]_resolverVars
                 PROVE  ResolverInv' /\ CallsInv'
        OBVIOUS
    <2>1. ResolverInv'
        BY StepInv
    <2>2. CASE ResolverNext
        BY <2>1, <2>2, CallsStep
    <2>3. CASE UNCHANGED resolverVars
        BY <2>1, <2>3, CallsSame DEF resolverVars
    <2> QED BY <2>2, <2>3
<1>3. CallsInv => CallsFit
    BY DEF CallsInv
<1> QED BY <1>1, <1>2, <1>3, PTL DEF ResolverSpec
-----------------------------------------------------------------------------
(***************************************************************************)
(* The types agree: each expression that has one has it from its parts,    *)
(* which have theirs, and TypeResolver has yet to come to every expression *)
(* of a kind that has a value and no type.                                 *)
(***************************************************************************)
\* The expressions whose types make that of p.
PartsOf(p) ==
    CASE Kind(p) \in {"+", "-", "*", "%"} -> {Kid(p, 1), Kid(p, 2)}
      [] Kind(p) = "."                    -> {Kid(p, 2)}
      [] Kind(p) = "call"                 -> IF InDot(p) THEN {Kid(Parent(p), 1)}
                                                         ELSE Range(Arguments(p))
      [] OTHER                            -> {}
OfParts(p) ==
    /\ Kind(p) \in ValueKinds /\ types[p] \in TypesOfParts(p)
    /\ \A q \in PartsOf(p) : IsExpression(q) /\ Typed(q)

\* A type node has the type it says; that of a parameter may be an array.
AsAnnotated(q) ==
    /\ Clone(types[q]) \in Annotated(Kind(q))
    /\ q \in ReturnTypes => types[q] \in Annotated(Kind(q))

LeafKinds == Names \union (Numbers \ Doubles) \union {"string"}

\* What has a value has a type, or is to have it.
ValuesAwaited ==
    \A p : Resolvable(p) /\ Kind(p) \in ValueKinds =>
              \/ Typed(p)
              \/ Open(p) /\ (Kind(p) \in LeafKinds => Visiting(p))

TypesGrow ==
    /\ \A p \in DOMAIN types : IF IsExpression(p) THEN OfParts(p) ELSE AsAnnotated(p)
    /\ pass = "signatures" => \A e \in Remaining : e.do = "leave" => Kind(e.at) = "array"
    /\ pass = "types" => ValuesAwaited

\* What the types of the parts make of an expression does not change while
\* theirs do not.
LEMMA SameParts ==
    ASSUME program' = program
    PROVE  \A p : /\ PartsOf(p)' = PartsOf(p) /\ ParameterTypes(p)' = ParameterTypes(p)
                  /\ Kind(p)' = Kind(p) /\ InDot(p)' = InDot(p) /\ CallName(p)' = CallName(p)
                  /\ Arguments(p)' = Arguments(p) /\ IsExpression(p)' = IsExpression(p)
                  /\ ReturnTypes' = ReturnTypes
<1>1. \A p : /\ Kind(p)' = Kind(p) /\ InDot(p)' = InDot(p) /\ CallName(p)' = CallName(p)
             /\ Arguments(p)' = Arguments(p) /\ IsExpression(p)' = IsExpression(p)
    BY SameCalls
<1>2. \A p : At(p)' = At(p)
    BY SameModule
<1>3. \A f : ParamNames(f)' = ParamNames(f) /\ ParamTypes(f)' = ParamTypes(f)
    BY <1>1, <1>2 DEF ParamNames, ParamTypes
<1>4. \A p : ParameterTypes(p)' = ParameterTypes(p)
    <2> SUFFICES ASSUME NEW p PROVE ParameterTypes(p)' = ParameterTypes(p)
        OBVIOUS
    <2> DEFINE f == FunctionOf(p)
    <2>1. ParamNames(f)' = ParamNames(f) /\ ParamTypes(f)' = ParamTypes(f) /\ Kind(p)' = Kind(p)
        BY <1>1, <1>3
    <2>2. \A k : Kind(ParamTypes(f)[k])' = Kind(ParamTypes(f)[k])
        BY <1>1, <2>1
    <2> QED BY <2>1, <2>2 DEF ParameterTypes, FunctionOf
<1>5. \A p : PartsOf(p)' = PartsOf(p)
    BY <1>1 DEF PartsOf, Kid, Parent
<1>6. ReturnTypes' = ReturnTypes
    <2>1. FunctionNodes' = FunctionNodes
        BY SameModule
    <2> QED BY <2>1 DEF ReturnTypes, ReturnType, Kid
<1> QED BY <1>1, <1>4, <1>5, <1>6

LEMMA SameResults ==
    ASSUME program' = program, NEW p, Arguments(p) \in Seq(Seq(Nat)),
           \A q \in Range(Arguments(p)) : types'[q] = types[q]
    PROVE  ResultsOf(p)' = ResultsOf(p)
<1>1. /\ CallName(p)' = CallName(p) /\ Arguments(p)' = Arguments(p)
      /\ FunctionNodes' = FunctionNodes
    BY SameParts, SameModule
<1>2. \A f : Kind(ReturnType(f))' = Kind(ReturnType(f)) /\ ParamTypes(f)' = ParamTypes(f)
             /\ FunctionName(f)' = FunctionName(f)
    <2>1. \A f : ParamTypes(f)' = ParamTypes(f)
        BY SameModule DEF ParamTypes
    <2> QED BY <2>1, SameParts DEF ReturnType, FunctionName, Kid
<1>3. SameArity(CallName(p), Len(Arguments(p)))' = SameArity(CallName(p), Len(Arguments(p)))
    BY <1>1, <1>2 DEF SameArity
<1>4. \A b \in Builtins : MayTake(b, Arguments(p))' = MayTake(b, Arguments(p))
    <2> SUFFICES ASSUME NEW b \in Builtins PROVE MayTake(b, Arguments(p))' = MayTake(b, Arguments(p))
        OBVIOUS
    <2> DEFINE args == Arguments(p)
    <2>1. Len(args) \in Nat /\ DOMAIN args = 1..Len(args)
        OBVIOUS
    <2>2. \A k \in DOMAIN args : types'[args[k]] = types[args[k]]
        BY DEF Range
    <2>3. DOMAIN b.params = 1..Len(b.params) /\ Len(b.params) \in Nat
        BY DEF Builtins, Target
    <2> HIDE DEF args
    <2>4. Len(b.params) <= Len(args) => \A k \in DOMAIN b.params : k \in DOMAIN args
        BY <2>1, <2>3
    <2>5. args' = args
        BY <1>1 DEF args
    <2> QED BY <2>2, <2>4, <2>5 DEF MayTake, args
<1> DEFINE taking == {b \in Builtins : b.name = CallName(p) /\ MayTake(b, Arguments(p))}
           named == SameArity(CallName(p), Len(Arguments(p)))
           declared == UNION {Annotated(Kind(ReturnType(f))) :
                                f \in {g \in named : \A other \in named : g[1] <= other[1]}}
<1>5. taking' = taking
    BY <1>1, <1>4
<1>6. declared' = declared
    <2>1. {g \in named : \A other \in named : g[1] <= other[1]}' =
              {g \in named : \A other \in named : g[1] <= other[1]}
        BY <1>3
    <2> QED BY <1>2, <2>1 DEF Annotated
<1> HIDE DEF taking, named, declared
<1>7. ResultsOf(p) = IF taking # {} THEN {b.returns : b \in taking} ELSE declared
    BY DEF ResultsOf, taking, named, declared
<1>8. ResultsOf(p)' = IF taking' # {} THEN {b.returns : b \in taking'} ELSE declared'
    BY DEF ResultsOf, taking, named, declared
<1> QED BY <1>5, <1>6, <1>7, <1>8

LEMMA SameTypes ==
    ASSUME Rooted, program' = program, NEW p, IsExpression(p), Kind(p) \in ValueKinds,
           \A q \in PartsOf(p) : types'[q] = types[q]
    PROVE  TypesOfParts(p)' = TypesOfParts(p)
<1>1. /\ Kind(p)' = Kind(p) /\ InDot(p)' = InDot(p) /\ CallName(p)' = CallName(p)
      /\ ParameterTypes(p)' = ParameterTypes(p) /\ IsLiteral(p)' = IsLiteral(p)
    BY SameParts, SameModule
<1>2. CASE Kind(p) \in {"+", "-", "*", "%"}
    <2>1. types'[Kid(p, 1)] = types[Kid(p, 1)] /\ types'[Kid(p, 2)] = types[Kid(p, 2)]
        BY <1>2 DEF PartsOf
    <2>2. ~IsLiteral(p) /\ Kind(p) \notin Numbers
        BY <1>2, NamesAssumption DEF IsLiteral, BinOps
    <2> QED BY <1>1, <1>2, <2>1, <2>2 DEF TypesOfParts, Kid
<1>3. CASE Kind(p) = "."
    <2>1. types'[Kid(p, 2)] = types[Kid(p, 2)]
        BY <1>3 DEF PartsOf
    <2>2. ~IsLiteral(p) /\ Kind(p) \notin Numbers
        BY <1>3, NamesAssumption DEF IsLiteral
    <2> QED BY <1>1, <1>3, <2>1, <2>2 DEF TypesOfParts, Kid
<1>4. CASE Kind(p) = "call"
    <2>1. ~IsLiteral(p) /\ Kind(p) \notin Numbers
        BY <1>4, NamesAssumption DEF IsLiteral
    <2>2. TypesOfParts(p) = IF ~InDot(p) THEN ResultsOf(p) ELSE {t.returns : t \in MethodsOf(p)}
        BY <1>4, <2>1 DEF TypesOfParts
    <2>3. TypesOfParts(p)' = IF ~InDot(p)' THEN ResultsOf(p)' ELSE {t.returns : t \in MethodsOf(p)'}
        BY <1>1, <1>4, <2>1 DEF TypesOfParts
    <2>4. CASE ~InDot(p)
        <3>1. PartsOf(p) = Range(Arguments(p))
            BY <1>4, <2>4 DEF PartsOf
        <3>2. Arguments(p) \in Seq(Seq(Nat))
            BY <1>4, CallIs, ChildrenAreKids
        <3>3. ResultsOf(p)' = ResultsOf(p)
            BY <3>1, <3>2, SameResults
        <3> QED BY <1>1, <2>2, <2>3, <2>4, <3>3
    <2>5. CASE InDot(p)
        <3>1. types'[Kid(Parent(p), 1)] = types[Kid(Parent(p), 1)]
            BY <1>4, <2>5 DEF PartsOf
        <3>2. MethodsOf(p)' = MethodsOf(p)
            BY <1>1, <3>1 DEF MethodsOf, Kid, Parent
        <3> QED BY <1>1, <2>2, <2>3, <2>5, <3>2
    <2> QED BY <2>4, <2>5
<1>5. CASE Kind(p) \notin {"+", "-", "*", "%", ".", "call"}
    <2>1. IsLiteral(p) \/ Kind(p) \in Numbers \/ Kind(p) \in {"string", "/", "=="}
        BY <1>5 DEF ValueKinds, IsLiteral
    <2> QED BY <1>1, <1>5, <2>1 DEF TypesOfParts
<1> QED BY <1>2, <1>3, <1>4, <1>5


\* What a step may write into the type contexts.
TypeWritten ==
    \/ types' = types
    \/ \E t : types' = With(types, Here, t)
              /\ IF IsExpression(Here)
                 THEN /\ ~Typed(Here) /\ Kind(Here) \in ValueKinds /\ t \in TypesOfParts(Here)
                      /\ \A q \in PartsOf(Here) : IsExpression(q) /\ Typed(q)
                 ELSE /\ Clone(t) \in Annotated(Kind(Here))
                      /\ Here \in ReturnTypes => t \in Annotated(Kind(Here))

\* The visit of an expression, or its end, finds it without a type.
LEMMA NotTypedYet ==
    ASSUME ResolverInv, NEW do \in {"visit", "leave"}, NEW ps, Now(do, ps), pass # "signatures"
    PROVE  IsExpression(Here) /\ ~Typed(Here) /\ (pass = "types" => Resolvable(Here))
<1>1. /\ Head(agenda) \in Remaining /\ Head(agenda).do = do /\ Here = Head(agenda).at
      /\ Here \in Seq(Nat) /\ EntryFits(Head(agenda))
    BY AtHead
<1>2. IsExpression(Here) /\ (pass = "types" => Resolvable(Here))
    BY <1>1 DEF EntryFits, Resolvable
<1>3. Opens(Head(agenda), Here)
    BY <1>1, AboveItself DEF Opens, Covers
<1> QED BY <1>1, <1>2, <1>3 DEF ResolverInv, TypesFit, Typed, Open

\* The operands of an operator, and the name after a dot, are expressions.
LEMMA OperandsAre ==
    ASSUME ResolverInv, pass = "types", NEW p, IsExpression(p),
           Kind(p) \in {"+", "-", "*", "%", "."}
    PROVE  IsExpression(Kid(p, 1)) /\ IsExpression(Kid(p, 2))
<1>1. ~NullLeft(p)
    <2>1. NullLeft(p) => p \in locals
        BY DEF ResolverInv, LiteralsFound, Examined
    <2>2. p \notin locals
        BY NamesAssumption DEF ResolverInv, LocalsFit, LocalFits, IsLiteral, BinOps
    <2> QED BY <2>1, <2>2
<1>2. Rooted /\ p \in Seq(Nat) /\ At(p) \in Nodes
    BY ExpressionNode DEF ResolverInv
<1>3. Len(At(p).kids) \in Arity(Kind(p))
    BY <1>2, NodesAre DEF Kind
<1>4. Len(At(p).kids) = 2
    <2>1. CASE Kind(p) = "."
        BY <1>3, <2>1 DEF Arity, BinOps
    <2>2. CASE Kind(p) # "."
        <3>1. Kind(p) \in BinOps \ {"!"}
            BY <2>2 DEF BinOps
        <3>2. Arity(Kind(p)) = {1, 2}
            BY <2>2 DEF Arity, BinOps
        <3> QED BY <1>1, <1>3, <3>1, <3>2 DEF NullLeft
    <2> QED BY <2>1, <2>2
<1>5. ExpressionKids(At(p)) = 1..2
    BY <1>4, NamesAssumption DEF ExpressionKids, Kind, BinOps
<1> QED BY <1>2, <1>5, KidIsExpression

\* The reference of a method is one.
LEMMA OwnerIs ==
    ASSUME ResolverInv, pass = "types", NEW p, IsExpression(p), p # <<>>, InDot(p)
    PROVE  IsExpression(Kid(Parent(p), 1))
<1>1. p \in Seq(Nat) /\ Len(p) \in Nat \ {0} /\ Parent(p) \in Seq(Nat)
      /\ Len(Parent(p)) = Len(p) - 1
      /\ \A k \in 1..(Len(p) - 1) : Parent(p)[k] = p[k]
    <2>1. p \in Seq(Nat) /\ Len(p) \in Nat /\ Len(p) # 0
        BY DEF IsExpression
    <2>2. Parent(p) = SubSeq(p, 1, Len(p) - 1)
        BY DEF Parent, Front
    <2>3. Len(p) \in 1..Len(p)
        BY <2>1
    <2>4. SubSeq(p, 1, Len(p) - 1) \in Seq(Nat) /\ Len(SubSeq(p, 1, Len(p) - 1)) = Len(p) - 1
        BY <2>1, <2>3, KidOf
    <2>5. \A k \in 1..(Len(p) - 1) : SubSeq(p, 1, Len(p) - 1)[k] = p[k]
        BY <2>1
    <2> QED BY <2>1, <2>2, <2>4, <2>5
<1>2. IsExpression(Parent(p))
    <2> SUFFICES ASSUME NEW k \in 1..Len(Parent(p))
                 PROVE  Parent(p)[k] \in ExpressionKids(At(SubSeq(Parent(p), 1, k - 1)))
        BY <1>1 DEF IsExpression
    <2>1. k \in 1..Len(p) /\ Parent(p)[k] = p[k]
        BY <1>1
    <2>2. SubSeq(Parent(p), 1, k - 1) = SubSeq(p, 1, k - 1)
        BY <1>1
    <2> QED BY <2>1, <2>2 DEF IsExpression
<1> QED BY <1>2, OperandsAre DEF InDot

\* The operators give what the property asks of them.
LEMMA OperatorTypes ==
    ASSUME NEW op \in {"+", "-", "*", "%"}, NEW left \in Types, NEW right \in Types,
           NEW t \in TypesOf(op, left, right)
    PROVE  /\ t \in LargerTypes(left, right)
           /\ op = "+" => (IsString(left) <=> IsString(right))
<1>1. CASE op = "+" /\ IsString(left) /\ IsString(right)
    <2>1. t = Clone(left)
        BY <1>1 DEF TypesOf
    <2>2. t = left
        BY <1>1, <2>1 DEF Clone, IsString
    <2>3. left \in {"Raw", "String"} /\ right \in {"Raw", "String"}
        BY <1>1 DEF IsString
    <2>4. left \in LargerTypes(left, right)
        <3>1. CASE left = "Raw" \/ right = "Raw"
            BY <3>1 DEF LargerTypes
        <3>2. CASE left = "String" /\ right = "String"
            BY <3>2 DEF LargerTypes
        <3> QED BY <2>3, <3>1, <3>2
    <2> QED BY <1>1, <2>2, <2>4
<1>2. CASE op = "+" /\ ~(IsString(left) <=> IsString(right))
    <2>1. TypesOf(op, left, right) = {}
        BY <1>2 DEF TypesOf, IsString
    <2> QED BY <2>1
<1>3. CASE op # "+" \/ (~IsString(left) /\ ~IsString(right))
    <2>1. TypesOf(op, left, right) = LargerTypes(left, right)
        BY <1>3 DEF TypesOf, IsString
    <2> QED BY <1>3, <2>1
<1> QED BY <1>1, <1>2, <1>3


\* The first parameter of a builtin that does not match.
LEMMA FirstBadIs ==
    ASSUME NEW params, Len(params) \in Nat, NEW args, Len(args) \in Nat
    PROVE  LET k == FirstBad(params, args)
           IN /\ k \in 1..(Len(params) + 1)
              /\ k > Len(params) \/ k > Len(args) \/ ~Matches(params[k], args[k])
              /\ \A j \in 1..(k - 1) : j <= Len(args) /\ Matches(params[j], args[j])
<1> DEFINE Bad(k) == k > Len(params) \/ k > Len(args) \/ ~Matches(params[k], args[k])
           S == {k \in 1..(Len(params) + 1) : Bad(k)}
           Is(k) == /\ k > Len(params) \/ k > Len(args) \/ ~Matches(params[k], args[k])
                    /\ \A j \in 1..(k - 1) : j <= Len(args) /\ Matches(params[j], args[j])
<1>1. Len(params) + 1 \in S /\ S \in SUBSET Nat
    OBVIOUS
<1>2. PICK k \in S : \A j \in S : k <= j
    BY <1>1, LeastElement
<1>3. \A j \in 1..(k - 1) : j \in 1..(Len(params) + 1) /\ j \notin S
    BY <1>1, <1>2
<1>4. k \in 1..(Len(params) + 1) /\ Is(k)
    BY <1>2, <1>3
<1>5. FirstBad(params, args) = CHOOSE i \in 1..(Len(params) + 1) : Is(i)
    BY DEF FirstBad
<1> HIDE DEF Is, S, Bad
<1>6. /\ (CHOOSE i \in 1..(Len(params) + 1) : Is(i)) \in 1..(Len(params) + 1)
      /\ Is(CHOOSE i \in 1..(Len(params) + 1) : Is(i))
    BY <1>4
<1>7. FirstBad(params, args) \in 1..(Len(params) + 1) /\ Is(FirstBad(params, args))
    BY <1>5, <1>6
<1> QED BY <1>7 DEF Is

LEMMA PathsAre ==
    ASSUME NEW qs \in Seq(Seq(Nat))
    PROVE  Len(qs) \in Nat /\ DOMAIN qs = 1..Len(qs)
OBVIOUS

LEMMA ParamsAre ==
    ASSUME NEW b \in Builtins
    PROVE  Len(b.params) \in Nat /\ DOMAIN b.params = 1..Len(b.params)
BY DEF Builtins, Target

\* A builtin takes the arguments that match its parameters, and no others.
LEMMA MatchesTakes ==
    ASSUME NEW b, Len(b.params) \in Nat, DOMAIN b.params = 1..Len(b.params),
           NEW qs, Len(qs) \in Nat, DOMAIN qs = 1..Len(qs)
    PROVE  MatchesCall(b, [k \in DOMAIN qs |-> types[qs[k]]]) <=> MayTake(b, qs)
<1>1. Len(qs) \in Nat /\ DOMAIN qs = 1..Len(qs)
    OBVIOUS
<1> DEFINE args == [k \in DOMAIN qs |-> types[qs[k]]]
           k == FirstBad(b.params, args)
<1>2. Len(args) = Len(qs) /\ \A j \in 1..Len(qs) : args[j] = types[qs[j]]
    BY <1>1
<1>3. Len(b.params) \in Nat /\ DOMAIN b.params = 1..Len(b.params)
    OBVIOUS
<1> HIDE DEF args
<1>4. /\ k \in 1..(Len(b.params) + 1)
      /\ k > Len(b.params) \/ k > Len(args) \/ ~Matches(b.params[k], args[k])
      /\ \A j \in 1..(k - 1) : j <= Len(args) /\ Matches(b.params[j], args[j])
    BY <1>1, <1>2, <1>3, FirstBadIs
<1>5. MatchesCall(b, args) <=> k > Len(b.params)
    BY DEF MatchesCall
<1> HIDE DEF k
<1>6. ASSUME k > Len(b.params) PROVE MayTake(b, qs)
    <2>1. \A j \in 1..Len(b.params) : j <= Len(qs) /\ Matches(b.params[j], args[j])
        BY <1>2, <1>3, <1>4, <1>6
    <2>2. Len(b.params) <= Len(qs)
        <3>1. Len(b.params) = 0 \/ Len(b.params) \in 1..Len(b.params)
            BY <1>3
        <3> QED BY <1>1, <2>1, <3>1
    <2>3. \A j \in 1..Len(b.params) : IsAny(types[qs[j]]) \/ types[qs[j]] # "Unit"
        BY <1>1, <1>2, <1>3, <2>1, <2>2 DEF Matches
    <2> QED BY <1>3, <2>2, <2>3 DEF MayTake
<1>7. ASSUME MayTake(b, qs) PROVE k > Len(b.params)
    <2> SUFFICES ASSUME k \in 1..Len(b.params) PROVE FALSE
        BY <1>3, <1>4
    <2>1. k \in 1..Len(qs) /\ (IsAny(types[qs[k]]) \/ types[qs[k]] # "Unit")
        BY <1>1, <1>3, <1>7 DEF MayTake
    <2>2. Matches(b.params[k], args[k])
        BY <1>2, <2>1 DEF Matches
    <2> QED BY <1>2, <1>3, <1>4, <2>1, <2>2
<1> QED BY <1>5, <1>6, <1>7 DEF args

LEMMA FirstOfFirst ==
    ASSUME NEW fs \in SUBSET FunctionNodes, fs # {}
    PROVE  FirstOf(fs) \in fs /\ \A g \in fs : FirstOf(fs)[1] <= g[1]
<1> DEFINE T == {f[1] : f \in fs}
<1>1. \A f \in fs : f[1] \in Nat
    BY DEF FunctionNodes
<1>2. T \in SUBSET Nat /\ T # {}
    BY <1>1
<1>3. PICK x \in T : \A y \in T : x <= y
    BY <1>2, LeastElement
<1>4. PICK f \in fs : x = f[1]
    BY <1>3
<1>5. \A g \in fs : f[1] <= g[1]
    BY <1>3, <1>4
<1> QED BY <1>5 DEF FirstOf

\* A call gets the result of what it may be a call of.
LEMMA ResultsGiven ==
    ASSUME ResolverInv, CallsInv, TypesGrow, FindTargetCall, types' # types
    PROVE  TypeWritten
<1> DEFINE q == Here
           qs == Arguments(q)
           args == [k \in DOMAIN qs |-> types[qs[k]]]
           builtins == {b \in Builtins : b.name = CallName(q)}
           fs == SameArity(CallName(q), Len(args))
<1>1. Now("leave", {"types"}) /\ Kind(q) = "call" /\ ~InDot(q) /\ pass = "types"
    BY DEF FindTargetCall, Now
<1>2. IsExpression(q) /\ ~Typed(q) /\ Rooted
    BY <1>1, NotTypedYet DEF ResolverInv
<1>3. qs = Children(q) /\ qs \in Seq(Seq(Nat))
    BY <1>1, <1>2, CallIs, ChildrenAreKids
<1>4. \A p \in Range(qs) : IsExpression(p) /\ Typed(p)
    <2>1. \A p \in Range(qs) : IsExpression(p)
        BY <1>2, <1>3, ChildrenAreExpressions DEF Range
    <2>2. /\ agenda # <<>> /\ Head(agenda).do = "leave" /\ Here = Head(agenda).at
          /\ agenda \in Seq(AnEntry)
        BY <1>1, AtHead
    <2>3. 1 \in DOMAIN agenda /\ agenda[1] = Head(agenda) /\ Awaits(agenda[1])
        BY <1>1, <2>2 DEF Awaits
    <2>4. \A e \in Awaited(q) : Typed(e.at)
        <3>1. \A j \in 1..(1 - 1) : FALSE
            OBVIOUS
        <3> QED BY <1>1, <2>2, <2>3, <3>1 DEF Pledged, CallsInv
    <2>5. \A p \in Range(qs) : Entry("read", p) \in Awaited(q)
        BY <1>1 DEF Awaited
    <2> QED BY <2>1, <2>4, <2>5 DEF Entry
<1>5. PartsOf(q) = Range(qs)
    BY <1>1 DEF PartsOf
<1>6. Kind(q) \in ValueKinds /\ TypesOfParts(q) = ResultsOf(q)
    <2>1. ~IsLiteral(q) /\ Kind(q) \notin Numbers
        BY <1>1, NamesAssumption DEF IsLiteral
    <2> QED BY <1>1, <2>1 DEF ValueKinds, TypesOfParts
<1>7. \A t : TakeTarget(t) => types' = With(types, q, t.returns)
    BY DEF TakeTarget
<1>8. \/ \E b \in builtins : MatchesCall(b, args) /\ TakeTarget(b)
      \/ /\ ~\E b \in builtins : MatchesCall(b, args)
         /\ fs # {} /\ TakeTarget(FunctionTarget(FirstOf(fs)))
    <2>1. \A s : ~Stop(s)
        BY DEF Stop
    <2> QED BY <2>1 DEF FindTargetCall
<1>9. \A b \in builtins : MatchesCall(b, args) <=> MayTake(b, qs)
    BY <1>3, PathsAre, ParamsAre, MatchesTakes
<1>10. Len(args) = Len(qs)
    BY <1>3
<1> DEFINE taking == {b \in Builtins : b.name = CallName(q) /\ MayTake(b, qs)}
           named == SameArity(CallName(q), Len(qs))
           firsts == {g \in named : \A other \in named : g[1] <= other[1]}
<1>11. ResultsOf(q) = IF taking # {} THEN {b.returns : b \in taking}
                      ELSE UNION {Annotated(Kind(ReturnType(f))) : f \in firsts}
    BY DEF ResultsOf
<1>12. taking = {b \in builtins : MatchesCall(b, args)} /\ fs = named
    BY <1>9, <1>10
<1> HIDE DEF args, qs, taking
<1>13. ASSUME NEW b \in builtins, MatchesCall(b, args), TakeTarget(b) PROVE TypeWritten
    <2>1. b \in taking
        BY <1>12, <1>13
    <2>2. b.returns \in TypesOfParts(q)
        BY <1>6, <1>11, <2>1
    <2>3. types' = With(types, Here, b.returns)
        BY <1>7, <1>13
    <2> QED BY <1>2, <1>4, <1>5, <1>6, <2>2, <2>3 DEF TypeWritten
<1>14. ASSUME ~\E b \in builtins : MatchesCall(b, args), fs # {},
              TakeTarget(FunctionTarget(FirstOf(fs)))
       PROVE  TypeWritten
    <2> DEFINE f == FirstOf(fs)
    <2>1. fs \in SUBSET FunctionNodes
        BY DEF SameArity
    <2>2. taking = {} /\ named = fs
        BY <1>12, <1>14
    <2> HIDE DEF fs, named
    <2>3. f \in fs /\ f \in FunctionNodes /\ \A g \in fs : f[1] <= g[1]
        BY <1>14, <2>1, FirstOfFirst
    <2>4. f \in firsts
        BY <2>2, <2>3
    <2>5. FunctionTarget(f).returns = types[ReturnType(f)]
        BY DEF FunctionTarget, Target
    <2> HIDE DEF f, firsts
    <2>6. Typed(ReturnType(f)) /\ ~IsExpression(ReturnType(f)) /\ ReturnType(f) \in ReturnTypes
        <3>1. ReturnType(f) \in SignatureOf(f)
            BY DEF SignatureOf
        <3>2. Typed(ReturnType(f))
            BY <1>1, <2>3, <3>1 DEF ResolverInv, SignaturesTyped
        <3> QED BY <1>2, <2>3, <3>1, <3>2, TypesAreNoExpressions DEF ReturnTypes
    <2>7. types[ReturnType(f)] \in Annotated(Kind(ReturnType(f)))
        BY <2>6 DEF TypesGrow, AsAnnotated, Typed
    <2>8. types[ReturnType(f)] \in TypesOfParts(q)
        BY <1>6, <1>11, <2>2, <2>4, <2>7
    <2>9. types' = With(types, Here, types[ReturnType(f)])
        BY <1>7, <1>14, <2>5 DEF f
    <2> QED BY <1>2, <1>4, <1>5, <1>6, <2>8, <2>9 DEF TypeWritten
<1> QED BY <1>8, <1>13, <1>14

\* A name stands for the first parameter named as it is.
LEMMA FirstParam ==
    ASSUME Rooted, NEW p, IsLocalSymbol(p)
    PROVE  Annotated(Kind(ParamOf(p))) \subseteq ParameterTypes(p)
<1> DEFINE f == FunctionOf(p)
           named == {k \in DOMAIN ParamNames(f) : ParamNames(f)[k] = Kind(p)}
           firsts == {i \in named : \A j \in named : i <= j}
           Is(k) == /\ ParamNames(f)[k] = Kind(p)
                    /\ \A j \in 1..(k - 1) : ParamNames(f)[j] # Kind(p)
           c == CHOOSE k \in DOMAIN ParamNames(f) : Is(k)
<1>1. f \in FunctionNodes /\ Kind(p) \in Range(ParamNames(f))
    BY DEF IsLocalSymbol
<1>2. ParamOf(p) = ParamTypes(f)[c]
    BY DEF ParamOf
<1>3. ParameterTypes(p) = UNION {Annotated(Kind(ParamTypes(f)[k])) : k \in firsts}
    BY DEF ParameterTypes
<1> HIDE DEF f
<1>4. named # {} /\ DOMAIN ParamNames(f) \in SUBSET Nat /\ DOMAIN ParamNames(f) = DOMAIN ParamTypes(f)
      /\ ParamTypes(f) \in Seq(Seq(Nat))
    BY <1>1, SignatureIs DEF Range
<1>5. PICK n \in Nat : DOMAIN ParamNames(f) = 1..n
    BY <1>4, PathsAre
<1>6. PICK x \in named : \A y \in named : x <= y
    BY <1>4, LeastElement
<1>7. x \in DOMAIN ParamNames(f) /\ Is(x)
    <2>1. x \in 1..n /\ ParamNames(f)[x] = Kind(p)
        BY <1>5
    <2>2. \A j \in 1..(x - 1) : j \in DOMAIN ParamNames(f) /\ ~(x <= j)
        BY <1>5, <2>1
    <2> QED BY <1>5, <1>6, <2>1, <2>2
<1> HIDE DEF Is
<1>8. c \in DOMAIN ParamNames(f) /\ Is(c)
    BY <1>7
<1> HIDE DEF c
<1>9. c \in firsts
    <2>1. c \in named /\ c \in 1..n
        BY <1>5, <1>8 DEF Is
    <2>2. ASSUME NEW j \in named PROVE c <= j
        <3>1. j \in 1..n /\ ParamNames(f)[j] = Kind(p)
            BY <1>5
        <3>2. j \notin 1..(c - 1)
            BY <1>8, <3>1 DEF Is
        <3> QED BY <2>1, <3>1, <3>2
    <2> QED BY <2>1, <2>2
<1> QED BY <1>2, <1>3, <1>9

\* The types of a signature are those it says.
LEMMA Annotates ==
    ASSUME ResolverInv, TypesGrow, pass = "types", NEW f \in FunctionNodes, NEW p \in SignatureOf(f)
    PROVE  AsAnnotated(p) /\ Typed(p)
<1>1. Typed(p)
    BY DEF ResolverInv, SignaturesTyped
<1>2. ~IsExpression(p)
    BY TypesAreNoExpressions DEF ResolverInv
<1> QED BY <1>1, <1>2 DEF TypesGrow, Typed

\* A name, a number and a string.
LEMMA LeafWritten ==
    ASSUME ResolverInv, TypesGrow, TypeLeaf
    PROVE  TypeWritten
<1>1. Now("visit", {"types"}) /\ pass = "types" /\ Rooted
    BY AtHead DEF TypeLeaf
<1>2. IsExpression(Here) /\ ~Typed(Here)
    BY <1>1, NotTypedYet
<1>3. \A ts : GiveType(ts) => \E t \in ts : types' = With(types, Here, t)
    BY DEF GiveType
<1>4. CASE Here \in locals /\ GiveType({Clone(types[ParamOf(Here)])})
    <2>1. LocalFits(Here)
        BY <1>4 DEF ResolverInv, LocalsFit
    <2>2. Kind(Here) \in Names /\ IsLiteral(Here)
        BY <2>1 DEF LocalFits, IsLiteral
    <2>3. FunctionOf(Here) \in FunctionNodes /\ ParamOf(Here) \in SignatureOf(FunctionOf(Here))
        BY <1>1, <2>1, ParamIs DEF LocalFits
    <2>4. Clone(types[ParamOf(Here)]) \in Annotated(Kind(ParamOf(Here)))
        BY <1>1, <2>3, Annotates DEF AsAnnotated
    <2>5. Clone(types[ParamOf(Here)]) \in ParameterTypes(Here)
        BY <1>1, <2>1, <2>4, FirstParam DEF LocalFits
    <2>6. Clone(types[ParamOf(Here)]) \in TypesOfParts(Here)
        <3>1. Kind(Here) \notin Numbers
                 /\ Kind(Here) \notin {"string", "+", "-", "*", "%", "/", "==", ".", "call"}
            BY <2>2, NamesAssumption DEF BinOps
        <3> QED BY <2>2, <2>5, <3>1 DEF TypesOfParts
    <2>7. PartsOf(Here) = {} /\ Kind(Here) \in ValueKinds
        BY <2>2, NamesAssumption DEF PartsOf, ValueKinds, BinOps
    <2>8. types' = With(types, Here, Clone(types[ParamOf(Here)]))
        BY <1>3, <1>4
    <2> QED BY <1>2, <2>6, <2>7, <2>8 DEF TypeWritten
<1>5. CASE Kind(Here) \in Numbers \ Doubles /\ GiveType({"Int32"})
    <2>1. ~IsLiteral(Here)
             /\ Kind(Here) \notin {"string", "+", "-", "*", "%", "/", "==", ".", "call"}
        BY <1>5, NamesAssumption DEF IsLiteral, BinOps
    <2>2. TypesOfParts(Here) = {"Int32"}
        BY <1>5, <2>1 DEF TypesOfParts
    <2>3. PartsOf(Here) = {} /\ Kind(Here) \in ValueKinds
        BY <1>5, NamesAssumption DEF PartsOf, ValueKinds, BinOps
    <2>4. types' = With(types, Here, "Int32")
        BY <1>3, <1>5
    <2> QED BY <1>2, <2>2, <2>3, <2>4 DEF TypeWritten
<1>6. CASE Kind(Here) = "string" /\ GiveType({"Raw"})
    <2>1. ~IsLiteral(Here) /\ Kind(Here) \notin Numbers
        BY <1>6, NamesAssumption DEF IsLiteral
    <2>2. TypesOfParts(Here) = {"Raw"}
        BY <1>6, <2>1 DEF TypesOfParts
    <2>3. PartsOf(Here) = {} /\ Kind(Here) \in ValueKinds
        BY <1>6 DEF PartsOf, ValueKinds
    <2>4. types' = With(types, Here, "Raw")
        BY <1>3, <1>6
    <2> QED BY <1>2, <2>2, <2>3, <2>4 DEF TypeWritten
<1> QED BY <1>4, <1>5, <1>6 DEF TypeLeaf

\* The operators, and what stands after a dot.
LEMMA OperatorWritten ==
    ASSUME ResolverInv, TypesGrow,
           LeaveArithmetic \/ LeaveDivision \/ LeaveEqual \/ LeaveReference
    PROVE  TypeWritten
<1> DEFINE left == types[Kid(Here, 1)]
           right == types[Kid(Here, 2)]
<1>1. /\ Now("leave", {"types"}) /\ pass = "types"
      /\ Kind(Here) \in {"+", "-", "*", "%", "/", "==", "."}
    BY DEF LeaveArithmetic, LeaveDivision, LeaveEqual, LeaveReference, Now
<1>2. IsExpression(Here) /\ ~Typed(Here)
    BY <1>1, NotTypedYet
<1>3. /\ \A ts : GiveType(ts) => \E t \in ts : types' = With(types, Here, t)
      /\ \A s : Stop(s) => types' = types
    BY DEF GiveType, Stop
<1>4. ~IsLiteral(Here) /\ Kind(Here) \notin Numbers /\ Kind(Here) \in ValueKinds
    BY <1>1, NamesAssumption DEF IsLiteral, BinOps, ValueKinds
<1>5. types' = types => TypeWritten
    BY DEF TypeWritten
<1>6. CASE LeaveArithmetic
    <2> DEFINE op == Kind(Here)
               ts == TypesOf(op, left, right)
    <2>1. op \in {"+", "-", "*", "%"}
        BY <1>6 DEF LeaveArithmetic
    <2>2. \/ types' = types
          \/ Typed(Kid(Here, 1)) /\ Typed(Kid(Here, 2)) /\ GiveType(ts)
        BY <1>3, <1>6 DEF LeaveArithmetic
    <2>3. ASSUME Typed(Kid(Here, 1)), Typed(Kid(Here, 2)), GiveType(ts) PROVE TypeWritten
        <3>1. left \in Types /\ right \in Types
            BY <2>3, TypedIs
        <3>2. PICK t \in ts : types' = With(types, Here, t)
            BY <1>3, <2>3
        <3>3. /\ t \in LargerTypes(left, right)
              /\ op = "+" => (IsString(left) <=> IsString(right))
            BY <2>1, <3>1, <3>2, OperatorTypes
        <3>4. t \in TypesOfParts(Here)
            <4>1. CASE op = "+"
                <5>1. TypesOfParts(Here) =
                          {u \in LargerTypes(left, right) : IsString(left) <=> IsString(right)}
                    BY <1>4, <4>1 DEF TypesOfParts
                <5> QED BY <3>3, <4>1, <5>1
            <4>2. CASE op # "+"
                <5>1. TypesOfParts(Here) = LargerTypes(left, right)
                    BY <1>4, <2>1, <4>2 DEF TypesOfParts
                <5> QED BY <3>3, <5>1
            <4> QED BY <4>1, <4>2
        <3>5. PartsOf(Here) = {Kid(Here, 1), Kid(Here, 2)}
            BY <2>1 DEF PartsOf
        <3>6. IsExpression(Kid(Here, 1)) /\ IsExpression(Kid(Here, 2))
            BY <1>1, <1>2, <2>1, OperandsAre
        <3> QED BY <1>2, <1>4, <2>3, <3>2, <3>4, <3>5, <3>6 DEF TypeWritten
    <2> QED BY <1>5, <2>2, <2>3
<1>7. CASE LeaveDivision \/ LeaveEqual
    <2>1. PICK t : types' = With(types, Here, t) /\ TypesOfParts(Here) = {t}
        BY <1>3, <1>4, <1>7 DEF LeaveDivision, LeaveEqual, TypesOfParts
    <2>2. PartsOf(Here) = {}
        BY <1>7 DEF LeaveDivision, LeaveEqual, PartsOf
    <2> QED BY <1>2, <1>4, <2>1, <2>2 DEF TypeWritten
<1>8. CASE LeaveReference
    <2>1. Kind(Here) = "."
        BY <1>8 DEF LeaveReference
    <2>2. types' = types \/ (Typed(Kid(Here, 2)) /\ types' = With(types, Here, right))
        BY <1>3, <1>8 DEF LeaveReference
    <2>3. PartsOf(Here) = {Kid(Here, 2)} /\ TypesOfParts(Here) = {right}
        BY <1>4, <2>1 DEF PartsOf, TypesOfParts
    <2>4. IsExpression(Kid(Here, 2))
        BY <1>1, <1>2, <2>1, OperandsAre
    <2> QED BY <1>2, <1>4, <1>5, <2>2, <2>3, <2>4 DEF TypeWritten
<1> QED BY <1>6, <1>7, <1>8

\* The call of a method.
LEMMA MethodWritten ==
    ASSUME ResolverInv, TypesGrow, FindMethod
    PROVE  TypeWritten
<1> DEFINE owner == Kid(Parent(Here), 1)
           found == {t \in Methods(types[owner]) : t.name = CallName(Here)}
<1>1. Now("leave", {"types"}) /\ Kind(Here) = "call" /\ InDot(Here) /\ pass = "types"
    BY DEF FindMethod, Now
<1>2. IsExpression(Here) /\ ~Typed(Here)
    BY <1>1, NotTypedYet
<1>3. /\ \A s : Stop(s) => types' = types
      /\ \A t : TakeTarget(t) => types' = With(types, Here, t.returns)
    BY DEF Stop, TakeTarget
<1>4. types' = types \/ (Typed(owner) /\ \E t \in found : types' = With(types, Here, t.returns))
    BY <1>3 DEF FindMethod
<1>5. ~IsLiteral(Here) /\ Kind(Here) \notin Numbers /\ Kind(Here) \in ValueKinds
    BY <1>1, NamesAssumption DEF IsLiteral, ValueKinds
<1>6. TypesOfParts(Here) = {t.returns : t \in found}
    BY <1>1, <1>5 DEF TypesOfParts, MethodsOf
<1>7. PartsOf(Here) = {owner}
    BY <1>1 DEF PartsOf
<1>8. IsExpression(owner)
    <2>1. Here # <<>>
        BY <1>1, <1>2, CallIs DEF ResolverInv
    <2> QED BY <1>1, <1>2, <2>1, OwnerIs
<1> HIDE DEF owner, found
<1> QED BY <1>2, <1>4, <1>5, <1>6, <1>7, <1>8 DEF TypeWritten

LEMMA NoNames == "array" \notin DOMAIN NamedTypes /\ "Unit" \notin DOMAIN NamedTypes
BY DEF NamedTypes

\* The annotations.
LEMMA AnnotationWritten ==
    ASSUME ResolverInv, TypesGrow, ResolveTypeName \/ LeaveArrayType
    PROVE  TypeWritten
<1>1. /\ \A ts : GiveType(ts) => \E t \in ts : types' = With(types, Here, t)
      /\ \A s : Stop(s) => types' = types
    BY DEF GiveType, Stop
<1>2. CASE ResolveTypeName
    <2>1. Now("type", {"signatures", "types"}) /\ Kind(Here) # "array"
        BY <1>2 DEF ResolveTypeName
    <2>2. ~IsExpression(Here)
        BY <2>1, AtHead DEF EntryFits
    <2>3. \/ types' = types
          \/ \E t : types' = With(types, Here, t) /\ Annotated(Kind(Here)) = {t}
        <3>1. CASE Kind(Here) = "Unit"
            <4>1. Annotated(Kind(Here)) = {"Unit"}
                BY <3>1, NoNames DEF Annotated
            <4> QED BY <1>1, <1>2, <3>1, <4>1 DEF ResolveTypeName
        <3>2. CASE Kind(Here) # "Unit" /\ Kind(Here) \in DOMAIN NamedTypes
            <4>1. Annotated(Kind(Here)) = {NamedTypes[Kind(Here)]}
                BY <2>1, <3>2 DEF Annotated
            <4> QED BY <1>1, <1>2, <3>2, <4>1 DEF ResolveTypeName
        <3>3. CASE Kind(Here) # "Unit" /\ Kind(Here) \notin DOMAIN NamedTypes
            BY <1>1, <1>2, <3>3 DEF ResolveTypeName
        <3> QED BY <3>1, <3>2, <3>3
    <2>4. \A t : Annotated(Kind(Here)) = {t} => Clone(t) = t
        <3>1. \A name \in DOMAIN NamedTypes : NamedTypes[name] # "Array"
            BY DEF NamedTypes
        <3> QED BY <2>1, <3>1 DEF Annotated, Clone
    <2> QED BY <2>2, <2>3, <2>4 DEF TypeWritten
<1>3. CASE LeaveArrayType
    <2>1. Now("leave", {"signatures"})
        BY <1>3 DEF LeaveArrayType
    <2>2. ~IsExpression(Here) /\ Kind(Here) = "array"
        BY <2>1, AtHead DEF EntryFits, TypesGrow
    <2>3. PICK t : types' = With(types, Here, t)
                   /\ t = IF Here \in ReturnTypes THEN Clone("Array") ELSE "Array"
        BY <1>1, <1>3 DEF LeaveArrayType
    <2>4. Annotated(Kind(Here)) = {"Ptr"}
        BY <2>2, NoNames DEF Annotated
    <2>5. Clone(t) = "Ptr" /\ (Here \in ReturnTypes => t = "Ptr")
        BY <2>3 DEF Clone
    <2> QED BY <2>2, <2>3, <2>4, <2>5 DEF TypeWritten
<1> QED BY <1>2, <1>3

LEMMA Written ==
    ASSUME ResolverInv, CallsInv, TypesGrow, ResolverNext
    PROVE  TypeWritten
<1>1. types' = types => TypeWritten
    BY DEF TypeWritten
<1>2. CASE FollowNullLeft \/ DescendLiterals \/ ResolveLiteral \/ LeaveLiterals \/ VisitSignature
           \/ DescendArrayType \/ DescendTypes \/ VisitCall \/ ReadArgument \/ LeaveIf
           \/ LeaveUntyped \/ StartSignatures \/ StartTypes \/ FinishResolving
    <2>1. types' = types
        BY <1>2 DEF FollowNullLeft, DescendLiterals, ResolveLiteral, LeaveLiterals,
           VisitSignature, DescendArrayType, DescendTypes, VisitCall, ReadArgument, LeaveIf,
           LeaveUntyped, StartSignatures, StartTypes, FinishResolving, Stop, Descend, Done
    <2> QED BY <1>1, <2>1
<1> QED BY <1>1, <1>2, LeafWritten, OperatorWritten, MethodWritten, AnnotationWritten, ResultsGiven
        DEF ResolverNext

\* What has a type keeps it, and what made it.
LEMMA OfPartsKept ==
    ASSUME Rooted, program' = program, NEW p, IsExpression(p),
           Kind(p) \in ValueKinds, types'[p] \in TypesOfParts(p), p \in DOMAIN types',
           \A q \in PartsOf(p) : IsExpression(q) /\ Typed(q),
           \A q : IsExpression(q) /\ Typed(q) => q \in DOMAIN types' /\ types'[q] = types[q]
    PROVE  OfParts(p)'
<1>1. /\ PartsOf(p)' = PartsOf(p) /\ Kind(p)' = Kind(p)
      /\ \A q : IsExpression(q)' = IsExpression(q)
    BY SameParts
<1>2. TypesOfParts(p)' = TypesOfParts(p)
    BY SameTypes
<1>3. ValueKinds' = ValueKinds
    BY DEF ValueKinds
<1>4. \A q \in PartsOf(p) : Typed(q)'
    BY DEF Typed
<1> QED BY <1>1, <1>2, <1>3, <1>4 DEF OfParts

LEMMA AsAnnotatedKept ==
    ASSUME program' = program, NEW p, NEW t, types'[p] = t, Clone(t) \in Annotated(Kind(p)),
           p \in ReturnTypes => t \in Annotated(Kind(p))
    PROVE  AsAnnotated(p)'
<1>1. Kind(p)' = Kind(p) /\ ReturnTypes' = ReturnTypes
    BY SameParts
<1> QED BY <1>1 DEF AsAnnotated, Annotated

LEMMA TypesStayRight ==
    ASSUME ResolverInv, CallsInv, TypesGrow, ResolverNext
    PROVE  (\A p \in DOMAIN types : IF IsExpression(p) THEN OfParts(p) ELSE AsAnnotated(p))'
<1>1. program' = program /\ Rooted
    BY ResolverStep DEF ResolverInv
<1>2. \A p : IsExpression(p)' = IsExpression(p)
    BY <1>1, SameParts
<1>3. \A p \in DOMAIN types : IF IsExpression(p) THEN OfParts(p) ELSE AsAnnotated(p)
    BY DEF TypesGrow
<1>4. SUFFICES ASSUME NEW p \in DOMAIN types'
               PROVE  IF IsExpression(p) THEN OfParts(p)' ELSE AsAnnotated(p)'
    BY <1>2
<1>5. ASSUME p \in DOMAIN types, types'[p] = types[p],
             \A q : IsExpression(q) /\ Typed(q) => q \in DOMAIN types' /\ types'[q] = types[q]
      PROVE  IF IsExpression(p) THEN OfParts(p)' ELSE AsAnnotated(p)'
    <2>1. CASE IsExpression(p)
        <3>1. OfParts(p)
            BY <1>3, <1>5, <2>1
        <3> QED BY <1>1, <1>5, <2>1, <3>1, OfPartsKept DEF OfParts
    <2>2. CASE ~IsExpression(p)
        <3>1. AsAnnotated(p)
            BY <1>3, <1>5, <2>2
        <3> QED BY <1>1, <1>5, <2>2, <3>1, AsAnnotatedKept DEF AsAnnotated
    <2> QED BY <2>1, <2>2
<1>6. CASE types' = types
    BY <1>5, <1>6 DEF Typed
<1>7. ASSUME NEW t, types' = With(types, Here, t),
             IF IsExpression(Here)
             THEN /\ ~Typed(Here) /\ Kind(Here) \in ValueKinds /\ t \in TypesOfParts(Here)
                  /\ \A q \in PartsOf(Here) : IsExpression(q) /\ Typed(q)
             ELSE /\ Clone(t) \in Annotated(Kind(Here))
                  /\ Here \in ReturnTypes => t \in Annotated(Kind(Here))
      PROVE  IF IsExpression(p) THEN OfParts(p)' ELSE AsAnnotated(p)'
    <2>1. PICK h : h = Here
        OBVIOUS
    <2>2. /\ DOMAIN types' = DOMAIN types \union {h} /\ types'[h] = t
          /\ \A q \in DOMAIN types : q # h => types'[q] = types[q]
        <3> DEFINE f == With(types, h, t)
        <3>1. DOMAIN f = DOMAIN types \union {h} /\ f[h] = t
              /\ \A y \in DOMAIN types : y # h => f[y] = types[y]
            BY DEF With
        <3>2. types' = f
            BY <1>7, <2>1
        <3> HIDE DEF f
        <3> QED BY <3>1, <3>2
    <2>3. \A q : IsExpression(q) /\ Typed(q) => q \in DOMAIN types' /\ types'[q] = types[q]
        BY <1>7, <2>1, <2>2 DEF Typed
    <2>4. CASE p # h
        <3>1. p \in DOMAIN types /\ types'[p] = types[p]
            BY <2>2, <2>4
        <3> QED BY <1>5, <2>3, <3>1
    <2>5. CASE p = h /\ IsExpression(h)
        <3>1. /\ Kind(h) \in ValueKinds /\ t \in TypesOfParts(h)
              /\ \A q \in PartsOf(h) : IsExpression(q) /\ Typed(q)
            BY <1>7, <2>1, <2>5
        <3>2. types'[h] \in TypesOfParts(h) /\ h \in DOMAIN types'
            BY <2>2, <3>1
        <3>3. OfParts(h)'
            BY <1>1, <2>3, <2>5, <3>1, <3>2, OfPartsKept
        <3> QED BY <2>5, <3>3
    <2>6. CASE p = h /\ ~IsExpression(h)
        <3>1. Clone(t) \in Annotated(Kind(h)) /\ (h \in ReturnTypes => t \in Annotated(Kind(h)))
            BY <1>7, <2>1, <2>6
        <3>2. AsAnnotated(h)'
            BY <1>1, <2>2, <3>1, AsAnnotatedKept
        <3> QED BY <2>6, <3>2
    <2> QED BY <2>4, <2>5, <2>6
<1>8. TypeWritten
    BY Written
<1> QED BY <1>6, <1>7, <1>8 DEF TypeWritten

\* Only arrays are left in the pass of the signatures.
LEMMA ArraysLeft ==
    ASSUME ResolverInv, ResolverNext,
           pass = "signatures" => \A e \in Remaining : e.do = "leave" => Kind(e.at) = "array"
    PROVE  (pass = "signatures" => \A e \in Remaining : e.do = "leave" => Kind(e.at) = "array")'
<1>1. program' = program /\ \A p : Kind(p)' = Kind(p)
    BY ResolverStep, SameModule
<1> SUFFICES ASSUME pass' = "signatures", NEW e \in Remaining', e.do = "leave"
             PROVE  Kind(e.at) = "array"
    BY <1>1
<1>2. /\ \A s : Stop(s) => agenda' = agenda
      /\ \A ts : GiveType(ts) => agenda' = Tail(agenda)
      /\ agenda \in Seq(AnEntry)
    BY DEF Stop, GiveType, ResolverInv, AgendaFits
<1>3. \A s \in Seq(AnEntry) : s # <<>> => Range(s) = {Head(s)} \union Range(Tail(s))
    BY OnceEmpty, RangePut
<1>4. pass = "signatures" /\ agenda' = agenda => Kind(e.at) = "array"
    BY DEF Remaining
<1>5. pass = "signatures" /\ agenda # <<>> /\ agenda' = Tail(agenda) => Kind(e.at) = "array"
    BY <1>2, <1>3 DEF Remaining
<1>6. CASE StartSignatures
    <2> DEFINE es == [k \in 1..(Len(program.kids) - 1) |-> Entry("signature", <<k + 1>>)]
    <2>1. e \in Range(es)
        BY <1>6 DEF StartSignatures, Remaining
    <2>2. PICK k \in DOMAIN es : e = es[k]
        BY <2>1 DEF Range
    <2>3. e.do = "signature"
        BY <2>2 DEF Entry
    <2> QED BY <2>3
<1>7. CASE ResolveTypeName \/ LeaveArrayType
    <2>1. agenda # <<>>
        BY <1>7 DEF ResolveTypeName, LeaveArrayType, Now
    <2>2. pass = "signatures" /\ (agenda' = agenda \/ agenda' = Tail(agenda))
        BY <1>2, <1>7 DEF ResolveTypeName, LeaveArrayType, Stop, GiveType
    <2> QED BY <1>4, <1>5, <2>1, <2>2
<1>8. CASE VisitSignature
    <2> DEFINE es == Entries("type", Append(ParamTypes(Here), ReturnType(Here)))
    <2>1. Now("signature", {"signatures"})
        BY <1>8 DEF VisitSignature
    <2>2. Here \in FunctionNodes /\ agenda # <<>> /\ Rooted
        BY <2>1, AtHead DEF EntryFits
    <2>3. Append(ParamTypes(Here), ReturnType(Here)) \in Seq(Seq(Nat))
        BY <2>2, SignatureIs
    <2>5. agenda' = es \o Tail(agenda) /\ pass = "signatures"
        BY <1>8, <2>1 DEF VisitSignature, Now
    <2>7. /\ es \in Seq(AnEntry)
          /\ Range(es) = {Entry("type", q) : q \in Range(Append(ParamTypes(Here), ReturnType(Here)))}
        BY <2>3, EntriesAre DEF Jobs
    <2> HIDE DEF es
    <2>4. es \in Seq(AnEntry) /\ \A x \in Range(es) : x.do = "type"
        BY <2>7 DEF Entry
    <2>6. e \in Range(es) \/ e \in Remaining
        BY <1>2, <2>2, <2>4, <2>5, RangePut DEF Remaining
    <2> QED BY <2>4, <2>5, <2>6
<1>9. CASE DescendArrayType
    <2> DEFINE t == Entry("type", Kid(Here, 1))
               l == Entry("leave", Here)
               es == <<t>> \o <<l>>
    <2>1. Now("type", {"signatures"}) /\ Descend(<<t>>) /\ Kind(Here) = "array"
        BY <1>9 DEF DescendArrayType
    <2>2. agenda # <<>> /\ Here \in Seq(Nat) /\ pass = "signatures"
        BY <2>1, AtHead
    <2>3. /\ t \in AnEntry /\ t.do = "type" /\ l \in AnEntry /\ l.at = Here
        BY <2>2, AtKid, EntryIs DEF Jobs
    <2>4. agenda' = es \o Tail(agenda)
        BY <2>1 DEF Descend
    <2> HIDE DEF t, l
    <2>5. es \in Seq(AnEntry) /\ \A x \in Range(es) : x = t \/ x = l
        BY <2>3 DEF Range
    <2> HIDE DEF es
    <2>6. e \in Range(es) \/ e \in Remaining
        BY <1>2, <2>2, <2>4, <2>5, RangePut DEF Remaining
    <2> QED BY <2>1, <2>2, <2>3, <2>5, <2>6
<1>10. CASE ~StartSignatures /\ ~ResolveTypeName /\ ~LeaveArrayType /\ ~VisitSignature
            /\ ~DescendArrayType
    <2>1. FALSE
        BY <1>10 DEF ResolverNext, FollowNullLeft, DescendLiterals, ResolveLiteral, LeaveLiterals,
             TypeLeaf, DescendTypes, VisitCall, ReadArgument,
             LeaveArithmetic, LeaveDivision, LeaveEqual, LeaveReference,
             LeaveIf, LeaveUntyped, FindTargetCall, FindMethod, StartTypes, FinishResolving,
             Stop, Descend, Done, GiveType, TakeTarget, Now
    <2> QED BY <2>1
<1> QED BY <1>6, <1>7, <1>8, <1>9, <1>10

\* The entry at the head of the agenda leads to what is given a type, or to
\* what gets none.
LEMMA ValueTaken ==
    ASSUME ResolverInv, ResolverNext, pass = "types", ~FinishResolving, ~DescendTypes, ~VisitCall
    PROVE  \/ Kept
           \/ /\ agenda # <<>> /\ agenda' = Tail(agenda)
              /\ Head(agenda).do = "visit" =>
                    Kind(Here) \in Names \union Numbers \union {"string"} /\ Here \in DOMAIN types'
              /\ Head(agenda).do = "leave" =>
                    Here \in DOMAIN types' \/ Kind(Here) \notin ValueKinds \ LeafKinds
<1> DEFINE Taken ==
              /\ agenda # <<>> /\ agenda' = Tail(agenda)
              /\ Head(agenda).do = "visit" =>
                    Kind(Here) \in Names \union Numbers \union {"string"} /\ Here \in DOMAIN types'
              /\ Head(agenda).do = "leave" =>
                    Here \in DOMAIN types' \/ Kind(Here) \notin ValueKinds \ LeafKinds
<1>1. \A s : Stop(s) => Kept
    BY DEF Stop, Kept
<1>2. \A do : \A ps : Now(do, ps) => agenda # <<>> /\ Head(agenda).do = do
    BY DEF Now
<1>3. \A ts : GiveType(ts) => agenda' = Tail(agenda) /\ Here \in DOMAIN types'
    <2> SUFFICES ASSUME NEW ts, GiveType(ts) PROVE agenda' = Tail(agenda) /\ Here \in DOMAIN types'
        OBVIOUS
    <2>1. PICK t \in ts : types' = With(types, Here, t)
        BY DEF GiveType
    <2>2. DOMAIN types' = DOMAIN types \union {Here}
        BY <2>1, WithIs
    <2> QED BY <2>2 DEF GiveType
<1>4. \A t : TakeTarget(t) => agenda' = Tail(agenda) /\ Here \in DOMAIN types'
    <2> SUFFICES ASSUME NEW t, TakeTarget(t) PROVE agenda' = Tail(agenda) /\ Here \in DOMAIN types'
        OBVIOUS
    <2>1. types' = With(types, Here, t.returns)
        BY DEF TakeTarget
    <2>2. DOMAIN types' = DOMAIN types \union {Here}
        BY <2>1, WithIs
    <2> QED BY <2>2 DEF TakeTarget
<1>5. Done => agenda' = Tail(agenda)
    BY DEF Done
<1>6. \A ts : agenda # <<>> /\ Head(agenda).do \in {"leave", "type"} /\ GiveType(ts) => Taken
    BY <1>3
<1>7. CASE FollowNullLeft \/ DescendLiterals \/ ResolveLiteral \/ LeaveLiterals \/ VisitSignature
           \/ DescendArrayType \/ LeaveArrayType \/ StartSignatures \/ StartTypes
    BY <1>7 DEF FollowNullLeft, DescendLiterals, ResolveLiteral, LeaveLiterals, VisitSignature,
                DescendArrayType, LeaveArrayType, StartSignatures, StartTypes, Now
<1>8. CASE ResolveTypeName
    BY <1>1, <1>2, <1>6, <1>8 DEF ResolveTypeName
<1>9. CASE TypeLeaf
    <2>1. Here \in locals => Kind(Here) \in Names
        BY DEF ResolverInv, LocalsFit, LocalFits, IsLiteral
    <2> QED BY <1>2, <1>3, <1>9, <2>1 DEF TypeLeaf
<1>10. CASE ReadArgument
    BY <1>1, <1>2, <1>5, <1>10 DEF ReadArgument
<1>11. CASE LeaveArithmetic
    BY <1>1, <1>2, <1>6, <1>11 DEF LeaveArithmetic
<1>12. CASE LeaveDivision \/ LeaveEqual
    BY <1>2, <1>6, <1>12 DEF LeaveDivision, LeaveEqual
<1>13. CASE LeaveReference
    BY <1>1, <1>2, <1>6, <1>13 DEF LeaveReference
<1>14. CASE LeaveIf
    <2>1. agenda # <<>> /\ Head(agenda).do = "leave" /\ Kind(Here) = "if"
        BY <1>2, <1>14 DEF LeaveIf
    <2>2. Kept \/ agenda' = Tail(agenda)
        BY <1>1, <1>14 DEF LeaveIf
    <2>3. "if" \notin ValueKinds
        BY NamesAssumption DEF ValueKinds
    <2> QED BY <2>1, <2>2, <2>3
<1>15. CASE LeaveUntyped
    <2>1. agenda # <<>> /\ Head(agenda).do = "leave" /\ agenda' = Tail(agenda)
          /\ Kind(Here) \notin {"+", "-", "*", "%", "/", "==", ".", "if", "call"}
        BY <1>2, <1>5, <1>15 DEF LeaveUntyped
    <2>2. Kind(Here) \notin ValueKinds \ LeafKinds
        BY <2>1 DEF ValueKinds, LeafKinds
    <2> QED BY <2>1, <2>2
<1>16. CASE FindTargetCall \/ FindMethod
    <2>1. agenda # <<>> /\ Head(agenda).do = "leave"
        BY <1>2, <1>16 DEF FindTargetCall, FindMethod
    <2>2. (\E s : Stop(s)) \/ (\E t : TakeTarget(t))
        BY <1>16 DEF FindTargetCall, FindMethod
    <2> QED BY <1>1, <1>4, <2>1, <2>2
<1> QED BY <1>7, <1>8, <1>9, <1>10, <1>11, <1>12, <1>13, <1>14, <1>15, <1>16 DEF ResolverNext

LEMMA AwaitedSame ==
    ASSUME program' = program, agenda' = agenda, DOMAIN types \subseteq DOMAIN types', ValuesAwaited
    PROVE  ValuesAwaited'
<1>1. \A p : Visiting(p)' = Visiting(p) /\ Open(p)' = Open(p)
    BY SameAgenda
<1>2. \A p : Resolvable(p)' = Resolvable(p) /\ Kind(p)' = Kind(p)
    BY SameModule DEF Resolvable
<1>3. ValueKinds' = ValueKinds /\ LeafKinds' = LeafKinds
    BY DEF ValueKinds, LeafKinds
<1> QED BY <1>1, <1>2, <1>3 DEF ValuesAwaited, Typed

LEMMA AwaitedStep ==
    ASSUME ResolverInv, ResolverNext, pass = "types", ValuesAwaited,
           DOMAIN types \subseteq DOMAIN types'
    PROVE  ValuesAwaited'
<1> DEFINE h == Head(agenda)
<1>1. program' = program
    BY ResolverStep
<1>2. \A p : Resolvable(p)' = Resolvable(p) /\ Kind(p)' = Kind(p)
    BY <1>1, SameModule DEF Resolvable
<1>3. ValueKinds' = ValueKinds /\ LeafKinds' = LeafKinds
    BY DEF ValueKinds, LeafKinds
<1>4. CASE FinishResolving \/ Kept
    <2>1. agenda' = agenda
        BY <1>4 DEF FinishResolving, Stop, Kept
    <2> QED BY <1>1, <2>1, AwaitedSame
<1>5. ASSUME NEW es, Replaced(es),
             \A p : Resolvable(p) /\ Kind(p) \in ValueKinds /\ Opens(h, p) =>
                 \/ p \in DOMAIN types'
                 \/ \E x \in Range(es) : Covers(x, p)
                 \/ Kind(p) \notin LeafKinds /\ \E x \in Range(es) : Opens(x, p)
                 \/ Kind(p) \in LeafKinds /\ ~Covers(h, p)
      PROVE  ValuesAwaited'
    <2>1. agenda \in Seq(AnEntry) /\ Once(agenda)
        BY DEF ResolverInv, AgendaFits
    <2>2. /\ \A p : Visiting(p) => Visiting(p)' \/ Covers(h, p)
          /\ \A p : Open(p) => Open(p)' \/ Opens(h, p)
          /\ \A p : (\E e \in Range(es) : Covers(e, p)) => Visiting(p)'
          /\ \A p : (\E e \in Range(es) : Opens(e, p)) => Open(p)'
        BY <1>5, <2>1, Opening
    <2>3. \A p : Visiting(p)' => Open(p)'
        BY DEF Visiting, Open, Opens
    <2>4. \A p : Covers(h, p) => Opens(h, p)
        BY DEF Opens
    <2> SUFFICES ASSUME NEW p, Resolvable(p), Kind(p) \in ValueKinds
                 PROVE  \/ p \in DOMAIN types'
                        \/ Open(p)' /\ (Kind(p) \in LeafKinds => Visiting(p)')
        BY <1>2, <1>3 DEF ValuesAwaited, Typed
    <2>5. Typed(p) \/ (Open(p) /\ (Kind(p) \in LeafKinds => Visiting(p)))
        BY DEF ValuesAwaited
    <2>6. CASE Typed(p)
        BY <2>6 DEF Typed
    <2>7. CASE Opens(h, p)
        <3>1. CASE Kind(p) \in LeafKinds /\ ~Covers(h, p) /\ ~Typed(p)
            BY <2>2, <2>3, <2>5, <3>1
        <3> QED BY <1>5, <2>2, <2>3, <2>6, <2>7, <3>1
    <2>8. CASE ~Opens(h, p) /\ ~Typed(p)
        BY <2>2, <2>3, <2>4, <2>5, <2>8
    <2> QED BY <2>6, <2>7, <2>8
<1>6. CASE DescendTypes \/ VisitCall
    <2>1. Now("visit", {"types"}) /\ Kind(Here) \notin LeafKinds
        <3>1. DescendTypes => Kind(Here) \notin LeafKinds
            BY DEF DescendTypes, LeafKinds
        <3>2. VisitCall => Kind(Here) \notin LeafKinds
            BY NamesAssumption DEF VisitCall, LeafKinds
        <3> QED BY <1>6, <3>1, <3>2 DEF DescendTypes, VisitCall
    <2>2. h.do = "visit" /\ Here = h.at
        BY <2>1, AtHead
    <2>3. PICK es : TypeVisits(es)
        BY <1>6, DescendTypesVisits, VisitCallVisits
    <2>4. PICK all : /\ Replaced(all) /\ Range(all) = Range(es) \union {Entry("leave", Here)}
                     /\ \A p : Opens(Entry("leave", Here), p) <=> p = Here
        BY <2>1, <2>3, DescendReplaces DEF TypeVisits
    <2>5. ASSUME NEW p, Resolvable(p), Opens(h, p)
          PROVE  \/ \E x \in Range(all) : Covers(x, p)
                 \/ Kind(p) \notin LeafKinds /\ \E x \in Range(all) : Opens(x, p)
        <3>1. Above(Here, p)
            BY <2>2, <2>5 DEF Opens, Covers
        <3>2. p = Here \/ \E x \in Range(es) : Covers(x, p)
            BY <2>3, <2>5, <3>1 DEF TypeVisits
        <3> QED BY <2>1, <2>4, <3>2
    <2> QED BY <1>5, <2>4, <2>5
<1>7. CASE ~FinishResolving /\ ~DescendTypes /\ ~VisitCall /\ ~Kept
    <2>1. /\ agenda # <<>> /\ agenda' = Tail(agenda)
          /\ h.do = "visit" =>
                Kind(Here) \in Names \union Numbers \union {"string"} /\ Here \in DOMAIN types'
          /\ h.do = "leave" => Here \in DOMAIN types' \/ Kind(Here) \notin ValueKinds \ LeafKinds
        BY <1>7, ValueTaken
    <2>2. Replaced(<<>>)
        <3>1. agenda \in Seq(AnEntry)
            BY DEF ResolverInv, AgendaFits
        <3>2. <<>> \o Tail(agenda) = Tail(agenda)
            BY <2>1, <3>1
        <3> QED BY <1>1, <2>1, <3>2, OnceEmpty DEF Replaced
    <2>3. ASSUME NEW p, Resolvable(p), Kind(p) \in ValueKinds, Opens(h, p)
          PROVE  p \in DOMAIN types' \/ (Kind(p) \in LeafKinds /\ ~Covers(h, p))
        <3>1. CASE h.do = "visit"
            <4>1. status = "running"
                BY <1>7 DEF ResolverNext, FollowNullLeft, DescendLiterals, ResolveLiteral,
                     LeaveLiterals, VisitSignature, ResolveTypeName, DescendArrayType,
                     LeaveArrayType, TypeLeaf, ReadArgument, LeaveArithmetic, LeaveDivision,
                     LeaveEqual, LeaveReference, LeaveIf, LeaveUntyped, FindTargetCall,
                     FindMethod, StartSignatures, StartTypes, Now
            <4>2. Now("visit", {"types"})
                BY <2>1, <3>1, <4>1 DEF Now
            <4>3. p = Here
                BY <2>1, <2>3, <3>1, <4>2, LeafAlone DEF Resolvable
            <4> QED BY <2>1, <3>1, <4>3
        <3>2. CASE h.do # "visit"
            <4>1. h.do = "leave" /\ p = Here /\ ~Covers(h, p)
                BY <2>3, <3>2 DEF Opens, Covers, Here
            <4> QED BY <2>1, <2>3, <4>1
        <3> QED BY <3>1, <3>2
    <2> QED BY <1>5, <2>2, <2>3
<1> QED BY <1>4, <1>6, <1>7

LEMMA AwaitedFirst ==
    ASSUME StartTypes
    PROVE  ValuesAwaited'
<1> DEFINE e == Entry("visit", <<>>)
<1>1. program' = program /\ agenda' = <<e>>
    BY DEF StartTypes
<1>2. Range(<<e>>) = {e} /\ \A p : IsExpression(p) => Covers(e, p) /\ Opens(e, p)
    BY ModuleVisit
<1> HIDE DEF e
<1>3. \A p : IsExpression(p)' = IsExpression(p)
    BY <1>1, SameModule
<1>4. \A x, p : Covers(x, p)' = Covers(x, p) /\ Opens(x, p)' = Opens(x, p)
    BY DEF Covers, Opens, Above
<1>5. \A p : IsExpression(p) => Visiting(p)' /\ Open(p)'
    BY <1>1, <1>2, <1>4 DEF Visiting, Open, Remaining
<1> QED BY <1>3, <1>5 DEF ValuesAwaited, Resolvable

LEMMA AwaitedKept ==
    ASSUME ResolverInv, ResolverNext, pass = "types" => ValuesAwaited,
           DOMAIN types \subseteq DOMAIN types'
    PROVE  (pass = "types" => ValuesAwaited)'
<1>1. CASE pass = "types"
    BY <1>1, AwaitedStep
<1>2. CASE StartTypes
    BY <1>2, AwaitedFirst
<1>3. CASE pass # "types" /\ ~StartTypes
    <2>1. pass' # "types"
        BY <1>3 DEF ResolverNext, FollowNullLeft, DescendLiterals, ResolveLiteral, LeaveLiterals,
             VisitSignature, ResolveTypeName, DescendArrayType, LeaveArrayType,
             TypeLeaf, DescendTypes, VisitCall, ReadArgument,
             LeaveArithmetic, LeaveDivision, LeaveEqual, LeaveReference,
             LeaveIf, LeaveUntyped, FindTargetCall, FindMethod, StartSignatures, FinishResolving,
             Stop, Descend, Done, GiveType, Now
    <2> QED BY <2>1
<1> QED BY <1>1, <1>2, <1>3

LEMMA GrowStep ==
    ASSUME ResolverInv, CallsInv, TypesGrow, ResolverNext
    PROVE  TypesGrow'
<1>1. DOMAIN types \subseteq DOMAIN types'
    BY ValuesTypedStep DEF CallsInv
<1>2. (\A p \in DOMAIN types : IF IsExpression(p) THEN OfParts(p) ELSE AsAnnotated(p))'
    BY TypesStayRight
<1>3. (pass = "signatures" => \A e \in Remaining : e.do = "leave" => Kind(e.at) = "array")'
    BY ArraysLeft DEF TypesGrow
<1>4. (pass = "types" => ValuesAwaited)'
    BY <1>1, AwaitedKept DEF TypesGrow
<1> QED BY <1>2, <1>3, <1>4 DEF TypesGrow

LEMMA GrowSame ==
    ASSUME ResolverInv, TypesGrow, UNCHANGED resolverVars
    PROVE  TypesGrow'
<1>1. program' = program /\ agenda' = agenda /\ types' = types /\ pass' = pass /\ Rooted
    BY DEF resolverVars, ResolverInv
<1>2. \A p : IsExpression(p)' = IsExpression(p) /\ Kind(p)' = Kind(p)
    BY <1>1, SameParts
<1>3. ASSUME NEW p \in DOMAIN types
      PROVE  IF IsExpression(p) THEN OfParts(p)' ELSE AsAnnotated(p)'
    <2>1. CASE IsExpression(p)
        <3>1. OfParts(p)
            BY <2>1 DEF TypesGrow
        <3> QED BY <1>1, <2>1, <3>1, OfPartsKept DEF OfParts, Typed
    <2>2. CASE ~IsExpression(p)
        <3>1. AsAnnotated(p)
            BY <2>2 DEF TypesGrow
        <3> QED BY <1>1, <2>2, <3>1, AsAnnotatedKept DEF AsAnnotated
    <2> QED BY <2>1, <2>2
<1>4. (\A p \in DOMAIN types : IF IsExpression(p) THEN OfParts(p) ELSE AsAnnotated(p))'
    BY <1>1, <1>2, <1>3
<1>5. (pass = "signatures" => \A e \in Remaining : e.do = "leave" => Kind(e.at) = "array")'
    BY <1>1, <1>2 DEF TypesGrow, Remaining
<1>6. (pass = "types" => ValuesAwaited)'
    BY <1>1, AwaitedSame DEF TypesGrow
<1> QED BY <1>4, <1>5, <1>6 DEF TypesGrow

LEMMA GrowStart ==
    ASSUME ResolverInit
    PROVE  TypesGrow
<1>1. types = <<>> /\ pass = "literals"
    BY DEF ResolverInit
<1>2. DOMAIN types = {}
    BY <1>1
<1> QED BY <1>1, <1>2 DEF TypesGrow

(***************************************************************************)
(* Once resolved, exactly the expressions with a value have a type, and it *)
(* is the one that the types of their parts and the declarations give, in  *)
(* every module and wherever the expression stands.                        *)
(***************************************************************************)
THEOREM TypesAgree == ResolverSpec => []TypesRight
<1>1. ResolverInit => ResolverInv /\ CallsInv /\ TypesGrow
    BY InitInv, CallsStart, GrowStart
<1>2. ResolverInv /\ CallsInv /\ TypesGrow /\ [ResolverNext]_resolverVars =>
          ResolverInv' /\ CallsInv' /\ TypesGrow'
    <2> SUFFICES ASSUME ResolverInv, CallsInv, TypesGrow, [ResolverNext]_resolverVars
                 PROVE  ResolverInv' /\ CallsInv' /\ TypesGrow'
        OBVIOUS
    <2>1. ResolverInv'
        BY StepInv
    <2>2. CASE ResolverNext
        BY <2>1, <2>2, CallsStep, GrowStep
    <2>3. CASE UNCHANGED resolverVars
        BY <2>1, <2>3, CallsSame, GrowSame DEF resolverVars
    <2> QED BY <2>2, <2>3
<1>3. ASSUME ResolverInv, TypesGrow PROVE TypesRight
    <2> SUFFICES ASSUME status = "resolved", NEW p \in Expressions, ~InMethodArguments(p)
                 PROVE  /\ Typed(p) <=> Kind(p) \in ValueKinds
                        /\ Typed(p) => types[p] \in TypesOfParts(p)
        BY DEF TypesRight
    <2>1. IsExpression(p) /\ Resolvable(p)
        BY <1>3, ExpressionsAre DEF ResolverInv, Resolvable
    <2>2. agenda = <<>> /\ pass = "types"
        BY <1>3 DEF ResolverInv, EndsWell
    <2>3. ~Open(p)
        BY <1>3, <2>2, PassEnded
    <2>4. Typed(p) => OfParts(p)
        BY <1>3, <2>1 DEF TypesGrow, Typed
    <2>5. Kind(p) \in ValueKinds => Typed(p)
        BY <1>3, <2>1, <2>2, <2>3 DEF TypesGrow, ValuesAwaited
    <2> QED BY <2>4, <2>5 DEF OfParts
<1> QED BY <1>1, <1>2, <1>3, PTL DEF ResolverSpec
=============================================================================
