------------------------- MODULE TreeLearnerProofs -------------------------
(***************************************************************************)
(* Theorems about Kearns and Vazirani's learner.  The tree is reasoned     *)
(* about by its lines: over[n] is the set of the nodes above n, and a word *)
(* is on the path to n if the answers for it lead from the root to n.  L   *)
(* is the set of accepted words throughout.                                *)
(***************************************************************************)
EXTENDS TreeLearner, CollectionLemmas

-----------------------------------------------------------------------------
(* The tree.                                                                 *)

Letters(t) == 0..(t.alphabet_size - 1)
Words(t) == Seq(Letters(t))
Nodes(t) == 1..Len(t.node)
LeavesOf(t) == {n \in Nodes(t) : t.node[n].leaf}
InnerOf(t) == {n \in Nodes(t) : ~t.node[n].leaf}

\* A node and all that is above it.
Line(over, n) == over[n] \cup {n}
\* Where a node sends a word.
Child(L, t, n, w) == IF w \o t.node[n].label \in L THEN t.node[n].right ELSE t.node[n].left
OnPath(L, t, over, n, w) == \A m \in over[n] : Child(L, t, m, w) \in Line(over, n)

LeafNode(t, x) ==
    /\ {"leaf", "label", "level", "parent", "id", "accepting", "incoming", "transitions"} \subseteq DOMAIN x
    /\ x.leaf = TRUE /\ x.accepting \in BOOLEAN /\ x.id \in Nat
    /\ DOMAIN x.transitions = Letters(t)
InnerNode(x) ==
    /\ {"leaf", "label", "level", "parent", "left", "right"} \subseteq DOMAIN x
    /\ x.leaf = FALSE
NodeFine(t, x) ==
    /\ LeafNode(t, x) \/ InnerNode(x)
    /\ x.label \in Words(t) /\ x.level \in Nat

\* A node below the root and its parent.
Hangs(t, over, n) ==
    LET p == t.node[n].parent
    IN  /\ p \in InnerOf(t) /\ n \in {t.node[p].left, t.node[p].right}
        /\ over[n] = over[p] \cup {p} /\ t.node[n].level = t.node[p].level + 1
        /\ t.root \in over[n]
\* An inner node and its children.
Parent(t, n) ==
    /\ t.node[n].left # t.node[n].right
    /\ \A c \in {t.node[n].left, t.node[n].right} : c \in Nodes(t) \ {t.root} /\ t.node[c].parent = n
\* The nodes above a node are a chain.
Chain(t, over, n) ==
    /\ over[n] \subseteq InnerOf(t)
    /\ t.node[n].level < Len(t.node)
    /\ \A a \in over[n] : t.node[a].level < t.node[n].level
    /\ \A a, b \in over[n] : t.node[a].level = t.node[b].level => a = b
    /\ \A a \in over[n] : over[a] \subseteq over[n]
    /\ \A a \in over[n] : t.node[a].left \in Line(over, n) \/ t.node[a].right \in Line(over, n)

TreeRecord(t) ==
    /\ {"use_binary_search", "alphabet_size", "initial_phase", "node", "root", "initial_state",
        "leaf_node_count", "inner_node_count", "tasks"} \subseteq DOMAIN t
    /\ t.alphabet_size \in Nat
TreeFine(t, over) ==
    /\ TreeRecord(t) /\ Sequence(t.node)
    /\ \A n \in Nodes(t) : NodeFine(t, t.node[n])
    /\ t.root \in InnerOf(t) /\ over[t.root] = {}
    /\ t.node[t.root].label = <<>> /\ t.node[t.root].level = 0
    /\ \A n \in Nodes(t) \ {t.root} : Hangs(t, over, n)
    /\ \A n \in InnerOf(t) : Parent(t, n)
    /\ \A n \in Nodes(t) : Chain(t, over, n)

(***************************************************************************)
(* Levels number the nodes of a line.                                      *)
(***************************************************************************)
LEMMA LevelsApart ==
    ASSUME NEW t, NEW over, TreeFine(t, over), NEW n \in Nodes(t),
           NEW p \in Line(over, n), NEW q \in Line(over, n), t.node[p].level = t.node[q].level
    PROVE  p = q
<1>1. Chain(t, over, n) /\ NodeFine(t, t.node[n])
  BY DEF TreeFine
<1>2. t.node[n].level \in Nat
  BY <1>1 DEF NodeFine
<1>3. \A a \in over[n] : a \in Nodes(t) /\ t.node[a].level \in Nat /\ t.node[a].level < t.node[n].level
  BY <1>1 DEF TreeFine, NodeFine, Chain, InnerOf
<1> QED BY <1>1, <1>2, <1>3 DEF Chain, Line

(***************************************************************************)
(* From a node of a line one comes to its parent, until the root.          *)
(***************************************************************************)
LEMMA LineUp ==
    ASSUME NEW t, NEW over, TreeFine(t, over), NEW n \in Nodes(t), NEW p \in Line(over, n)
    PROVE  /\ p \in Nodes(t) /\ t.node[p].level \in Nat /\ t.node[p].level < Len(t.node)
           /\ t.root \in Line(over, n)
           /\ p # t.root => /\ t.node[p].parent \in over[n] /\ t.node[p].parent \in InnerOf(t)
                            /\ t.node[p].level = t.node[t.node[p].parent].level + 1
           /\ p = t.root <=> t.node[p].level = 0
<1>1. Chain(t, over, n) /\ over[n] \subseteq Nodes(t)
  BY DEF TreeFine, Chain, InnerOf
<1>2. p \in Nodes(t)
  BY <1>1 DEF Line
<1>3. Chain(t, over, p) /\ t.node[p].level \in Nat
  BY <1>2 DEF TreeFine, NodeFine
<1>4. t.root \in Line(over, n)
  BY DEF TreeFine, Hangs, Line
<1>5. over[p] \subseteq over[n]
  BY <1>1 DEF Chain, Line
<1>6. ASSUME p # t.root
      PROVE  /\ t.node[p].parent \in over[n] /\ t.node[p].parent \in InnerOf(t)
             /\ t.node[p].level = t.node[t.node[p].parent].level + 1
             /\ t.node[t.node[p].parent].level \in Nat
  <2>1. Hangs(t, over, p)
    BY <1>2, <1>6 DEF TreeFine
  <2>2. t.node[p].parent \in over[p] /\ t.node[p].parent \in InnerOf(t)
    BY <2>1 DEF Hangs
  <2>3. t.node[t.node[p].parent].level \in Nat
    BY <2>2 DEF TreeFine, NodeFine, InnerOf
  <2> QED BY <1>5, <2>1, <2>2, <2>3 DEF Hangs
<1>7. t.node[t.root].level = 0
  BY DEF TreeFine
<1> QED BY <1>2, <1>3, <1>4, <1>6, <1>7 DEF Chain

\* What is below an inner node m.
Below(t, over, m, c) ==
    /\ c \in Nodes(t) /\ c # t.root
    /\ t.node[c].parent = m /\ t.node[c].level = t.node[m].level + 1
    /\ over[c] = over[m] \cup {m}

(***************************************************************************)
(* The children of an inner node are one level lower.                      *)
(***************************************************************************)
LEMMA Children ==
    ASSUME NEW t, NEW over, TreeFine(t, over), NEW m \in InnerOf(t)
    PROVE  /\ Below(t, over, m, t.node[m].left) /\ Below(t, over, m, t.node[m].right)
           /\ t.node[m].left # t.node[m].right
<1>1. Parent(t, m)
  BY DEF TreeFine
<1>2. ASSUME NEW c \in {t.node[m].left, t.node[m].right} PROVE Below(t, over, m, c)
  <2>1. c \in Nodes(t) \ {t.root} /\ t.node[c].parent = m
    BY <1>1 DEF Parent
  <2>2. Hangs(t, over, c)
    BY <2>1 DEF TreeFine
  <2> QED BY <2>1, <2>2 DEF Hangs, Below
<1> QED BY <1>1, <1>2 DEF Parent

\* Only one child of a node is on a line.
LEMMA OneChild ==
    ASSUME NEW t, NEW over, TreeFine(t, over), NEW n \in Nodes(t), NEW m \in over[n]
    PROVE  ~(t.node[m].left \in Line(over, n) /\ t.node[m].right \in Line(over, n))
<1>1. m \in InnerOf(t)
  BY DEF TreeFine, Chain
<1>2. Below(t, over, m, t.node[m].left) /\ Below(t, over, m, t.node[m].right)
      /\ t.node[m].left # t.node[m].right
  BY <1>1, Children
<1>3. t.node[t.node[m].left].level = t.node[t.node[m].right].level
  BY <1>2 DEF Below
<1> QED BY <1>2, <1>3, LevelsApart

\* Words on the path to a node are sent to the same side before it.
LEMMA SameSide ==
    ASSUME NEW L, NEW t, NEW over, TreeFine(t, over), NEW n \in Nodes(t), NEW m \in over[n],
           NEW v, NEW w, OnPath(L, t, over, n, v), OnPath(L, t, over, n, w)
    PROVE  v \o t.node[m].label \in L <=> w \o t.node[m].label \in L
<1>1. Child(L, t, m, v) \in Line(over, n) /\ Child(L, t, m, w) \in Line(over, n)
  BY DEF OnPath
<1> QED BY <1>1, OneChild DEF Child

\* A word that is on the path to an inner node is on the path to the child it is sent to.
LEMMA DescendFine ==
    ASSUME NEW L, NEW t, NEW over, TreeFine(t, over), NEW n \in InnerOf(t), NEW w,
           OnPath(L, t, over, n, w)
    PROVE  /\ Below(t, over, n, Child(L, t, n, w))
           /\ OnPath(L, t, over, Child(L, t, n, w), w)
<1> DEFINE c == Child(L, t, n, w)
<1>1. Below(t, over, n, c)
  BY Children DEF Child
<1>2. over[c] = over[n] \cup {n}
  BY <1>1 DEF Below
<1>3. \A m \in over[n] : Child(L, t, m, w) \in over[c]
  BY <1>2 DEF OnPath, Line
<1>4. OnPath(L, t, over, c, w)
  <2> SUFFICES ASSUME NEW m \in over[c] PROVE Child(L, t, m, w) \in Line(over, c)
    BY DEF OnPath
  <2>1. m \in over[n] \/ Child(L, t, m, w) = c
    BY <1>2
  <2> HIDE DEF c
  <2> QED BY <1>3, <2>1 DEF Line
<1> QED BY <1>1, <1>4

\* Every word is on the path to the root.
LEMMA AtRoot ==
    ASSUME NEW L, NEW t, NEW over, TreeFine(t, over), NEW w
    PROVE  t.root \in Nodes(t) /\ OnPath(L, t, over, t.root, w)
BY DEF TreeFine, OnPath, InnerOf

-----------------------------------------------------------------------------
(* The last node that two lines have in common.                              *)

\* p and q, above x and y, have passed no node that is above both; i rounds are done.
Climbing(t, over, x, y, i, p, q) ==
    /\ p \in Line(over, x) /\ q \in Line(over, y)
    /\ \A r \in Line(over, x) : t.node[r].level > t.node[p].level => r \notin Line(over, y)
    /\ \A r \in Line(over, y) : t.node[r].level > t.node[q].level => r \notin Line(over, x)
    /\ p = q \/ (t.node[p].level < Len(t.node) - i /\ t.node[q].level < Len(t.node) - i)

\* The lower of the two nodes goes up.
LEMMA OneGoesUp ==
    ASSUME NEW t, NEW over, TreeFine(t, over), NEW x \in Nodes(t), NEW y \in Nodes(t),
           NEW i \in Nat, NEW p, NEW q, Climbing(t, over, x, y, i, p, q), p # q,
           t.node[p].level >= t.node[q].level
    PROVE  /\ p # t.root /\ t.node[p].parent \in Line(over, x)
           /\ t.node[t.node[p].parent].level \in Nat
           /\ t.node[p].level = t.node[t.node[p].parent].level + 1
           /\ \A r \in Line(over, x) :
                 t.node[r].level > t.node[t.node[p].parent].level => r \notin Line(over, y)
<1>1. p \in Line(over, x) /\ q \in Line(over, y)
  BY DEF Climbing
<1>2. /\ t.node[p].level \in Nat /\ (p = t.root <=> t.node[p].level = 0)
      /\ p # t.root => /\ t.node[p].parent \in over[x] /\ t.node[p].parent \in InnerOf(t)
                       /\ t.node[p].level = t.node[t.node[p].parent].level + 1
  BY <1>1, LineUp
<1>3. t.node[q].level \in Nat /\ (q = t.root <=> t.node[q].level = 0)
  BY <1>1, LineUp
<1>4. p # t.root
  BY <1>2, <1>3
<1>5. t.node[t.node[p].parent].level \in Nat
  BY <1>2, <1>4 DEF TreeFine, NodeFine, InnerOf
<1>6. p \notin Line(over, y)
  <2> SUFFICES ASSUME p \in Line(over, y) PROVE FALSE
    OBVIOUS
  <2>1. t.node[p].level = t.node[q].level
    BY <1>1, <1>2, <1>3 DEF Climbing
  <2> QED BY <1>1, <2>1, LevelsApart
<1>7. ASSUME NEW r \in Line(over, x), t.node[r].level > t.node[t.node[p].parent].level
      PROVE  r \notin Line(over, y)
  <2>1. t.node[r].level \in Nat
    BY LineUp
  <2>2. CASE t.node[r].level > t.node[p].level
    BY <2>2 DEF Climbing
  <2>3. CASE t.node[r].level = t.node[p].level
    BY <1>1, <1>6, <2>3, LevelsApart
  <2> QED BY <1>2, <1>4, <1>5, <1>7, <2>1, <2>2, <2>3
<1> QED BY <1>2, <1>4, <1>5, <1>7 DEF Line

\* The two lines are exchanged.
LEMMA ClimbingBothWays ==
    ASSUME NEW t, NEW over, NEW x, NEW y, NEW i, NEW p, NEW q, Climbing(t, over, x, y, i, p, q)
    PROVE  Climbing(t, over, y, x, i, q, p)
BY DEF Climbing

\* One round of the climb to the least common ancestor keeps both nodes on the
\* way up from the two leaves.
LEMMA ClimbFine ==
    ASSUME NEW t, NEW over, TreeFine(t, over), NEW x \in Nodes(t), NEW y \in Nodes(t),
           NEW i \in Nat, NEW pair, Climbing(t, over, x, y, i, pair[1], pair[2])
    PROVE  Climbing(t, over, x, y, i + 1, Climb(t, pair)[1], Climb(t, pair)[2])
<1> DEFINE p == pair[1]
           q == pair[2]
           next == Climb(t, pair)
<1>0. Climbing(t, over, x, y, i, p, q)
  OBVIOUS
<1>1. next = IF p = q THEN pair
             ELSE <<IF t.node[p].level >= t.node[q].level THEN t.node[p].parent ELSE p,
                    IF t.node[q].level >= t.node[p].level THEN t.node[q].parent ELSE q>>
  BY DEF Climb
<1> HIDE DEF next
<1>2. CASE p = q
  <2>1. Climb(t, pair) = pair
    BY <1>1, <1>2 DEF next
  <2> QED BY <1>0, <1>2, <2>1 DEF Climbing
<1>3. CASE p # q
  <2>0. next = <<next[1], next[2]>>
        /\ next[1] = (IF t.node[p].level >= t.node[q].level THEN t.node[p].parent ELSE p)
        /\ next[2] = (IF t.node[q].level >= t.node[p].level THEN t.node[q].parent ELSE q)
    BY <1>1, <1>3
  <2> DEFINE pp == t.node[p].parent
             qq == t.node[q].parent
  <2> HIDE DEF p, q
  <2>1. t.node[p].level >= t.node[q].level =>
           /\ pp \in Line(over, x) /\ t.node[pp].level \in Nat
           /\ t.node[p].level = t.node[pp].level + 1
           /\ \A r \in Line(over, x) : t.node[r].level > t.node[pp].level => r \notin Line(over, y)
    BY <1>0, <1>3, OneGoesUp
  <2>2. t.node[q].level >= t.node[p].level =>
           /\ qq \in Line(over, y) /\ t.node[qq].level \in Nat
           /\ t.node[q].level = t.node[qq].level + 1
           /\ \A r \in Line(over, y) : t.node[r].level > t.node[qq].level => r \notin Line(over, x)
    <3>1. Climbing(t, over, y, x, i, q, p) /\ q # p
      BY <1>0, <1>3, ClimbingBothWays
    <3> QED BY <3>1, OneGoesUp
  <2>3. p \in Line(over, x) /\ q \in Line(over, y)
    BY <1>0 DEF Climbing
  <2>4. t.node[p].level \in Nat /\ t.node[q].level \in Nat
    BY <2>3, LineUp
  <2>5. t.node[p].level < Len(t.node) - i /\ t.node[q].level < Len(t.node) - i /\ Len(t.node) \in Nat
    <3>1. Len(t.node) \in Nat
      BY SequenceFacts DEF TreeFine
    <3> QED BY <1>0, <1>3, <3>1 DEF Climbing
  <2>x. \A b, c, l, j \in Nat : b < c /\ c < l - j => b < l - (j + 1)
    OBVIOUS
  <2>y. \A b, c \in Nat : c = b + 1 => b < c
    OBVIOUS
  <2> DEFINE n1 == next[1]
             n2 == next[2]
  <2>6. /\ n1 \in Line(over, x)
        /\ \A r \in Line(over, x) : t.node[r].level > t.node[n1].level => r \notin Line(over, y)
        /\ t.node[n1].level < Len(t.node) - (i + 1)
    <3>1. CASE t.node[p].level >= t.node[q].level
      <4>1. n1 = pp
        BY <2>0, <3>1
      <4> HIDE DEF pp, n1
      <4>2. t.node[pp].level \in Nat /\ t.node[p].level = t.node[pp].level + 1
        BY <2>1, <3>1
      <4>3. t.node[pp].level < t.node[p].level
        BY ONLY <2>y, <2>4, <4>2
      <4>4. t.node[pp].level < Len(t.node) - (i + 1)
        BY ONLY <2>x, <2>4, <2>5, <4>2, <4>3, i \in Nat
      <4> QED BY <2>1, <3>1, <4>1, <4>4
    <3>2. CASE ~(t.node[p].level >= t.node[q].level)
      <4>1. n1 = p
        BY <2>0, <3>2
      <4> HIDE DEF n1
      <4>2. t.node[p].level < t.node[q].level
        BY ONLY <2>4, <3>2
      <4>3. t.node[p].level < Len(t.node) - (i + 1)
        BY ONLY <2>x, <2>4, <2>5, <4>2, i \in Nat
      <4> QED BY <1>0, <2>3, <4>1, <4>3 DEF Climbing
    <3> QED BY <3>1, <3>2
  <2>7. /\ n2 \in Line(over, y)
        /\ \A r \in Line(over, y) : t.node[r].level > t.node[n2].level => r \notin Line(over, x)
        /\ t.node[n2].level < Len(t.node) - (i + 1)
    <3>1. CASE t.node[q].level >= t.node[p].level
      <4>1. n2 = qq
        BY <2>0, <3>1
      <4> HIDE DEF qq, n2
      <4>2. t.node[qq].level \in Nat /\ t.node[q].level = t.node[qq].level + 1
        BY <2>2, <3>1
      <4>3. t.node[qq].level < t.node[q].level
        BY ONLY <2>y, <2>4, <4>2
      <4>4. t.node[qq].level < Len(t.node) - (i + 1)
        BY ONLY <2>x, <2>4, <2>5, <4>2, <4>3, i \in Nat
      <4> QED BY <2>2, <3>1, <4>1, <4>4
    <3>2. CASE ~(t.node[q].level >= t.node[p].level)
      <4>1. n2 = q
        BY <2>0, <3>2
      <4> HIDE DEF n2
      <4>2. t.node[q].level < t.node[p].level
        BY ONLY <2>4, <3>2
      <4>3. t.node[q].level < Len(t.node) - (i + 1)
        BY ONLY <2>x, <2>4, <2>5, <4>2, i \in Nat
      <4> QED BY <1>0, <2>3, <4>1, <4>3 DEF Climbing
    <3> QED BY <3>1, <3>2
  <2> QED BY <2>6, <2>7 DEF Climbing, next
<1> QED BY <1>2, <1>3

ClimbBody(t, pair, i) == Climb(t, pair)
ClimbInv(c, s) == Climbing(c[1], c[2], c[3], c[4], s[1], s[2][1], s[2][2])
Ascent == INSTANCE LoopRules WITH Body <- ClimbBody, Inv <- ClimbInv

(***************************************************************************)
(* The least common ancestor of two leaves sends them to different sides.  *)
(***************************************************************************)
LEMMA AncestorFacts ==
    ASSUME NEW t, NEW over, TreeFine(t, over), NEW x \in LeavesOf(t), NEW y \in LeavesOf(t), x # y
    PROVE  LET c == least_commont_ancestor(t, x, y)
           IN  /\ c \in over[x] /\ c \in over[y]
               /\ \A s \in Line(over, x) : t.node[s].level > t.node[c].level => s \notin Line(over, y)
<1> DEFINE n == Len(t.node)
           pair == Ascent!Rounds(t, <<x, y>>, n)
           c == pair[1]
<1>1. least_commont_ancestor(t, x, y) = c
  BY DEF least_commont_ancestor, Repeated, Ascent!Rounds, ClimbBody
<1>2. x \in Nodes(t) /\ y \in Nodes(t) /\ n \in Nat
  BY SequenceFacts DEF LeavesOf, TreeFine
<1>3. ClimbInv(<<t, over, x, y>>, <<0, <<x, y>>>>)
  <2>1. /\ x \in Line(over, x) /\ y \in Line(over, y)
        /\ \A r \in Line(over, x) : ~(t.node[r].level > t.node[x].level)
        /\ \A r \in Line(over, y) : ~(t.node[r].level > t.node[y].level)
    <3>1. ASSUME NEW z \in Nodes(t), NEW r \in Line(over, z) PROVE ~(t.node[r].level > t.node[z].level)
      <4>1. t.node[r].level \in Nat
        BY <3>1, LineUp
      <4>2. t.node[z].level \in Nat
        BY DEF TreeFine, NodeFine
      <4>3. r = z \/ t.node[r].level < t.node[z].level
        BY <3>1 DEF TreeFine, Chain, Line
      <4> QED BY <4>1, <4>2, <4>3
    <3> QED BY <1>2, <3>1 DEF Line
  <2>2. t.node[x].level < n - 0 /\ t.node[y].level < n - 0
    BY <1>2 DEF TreeFine, Chain
  <2>3. Climbing(t, over, x, y, 0, x, y)
    BY <2>1, <2>2 DEF Climbing
  <2> QED BY <2>3 DEF ClimbInv
<1>4. ASSUME NEW i \in 1..n, NEW z, ClimbInv(<<t, over, x, y>>, <<i - 1, z>>)
      PROVE  ClimbInv(<<t, over, x, y>>, <<i, ClimbBody(t, z, i)>>)
  <2>1. Climbing(t, over, x, y, i - 1, z[1], z[2])
    BY <1>4 DEF ClimbInv
  <2>2. Climbing(t, over, x, y, (i - 1) + 1, Climb(t, z)[1], Climb(t, z)[2])
    BY <1>2, <2>1, ClimbFine
  <2>3. (i - 1) + 1 = i
    OBVIOUS
  <2>4. Climbing(t, over, x, y, i, Climb(t, z)[1], Climb(t, z)[2])
    BY <2>2, <2>3
  <2> QED BY <2>4 DEF ClimbInv, ClimbBody
<1>5. ClimbInv(<<t, over, x, y>>, <<n, pair>>)
  <2> HIDE DEF n
  <2> QED BY <1>2, <1>3, <1>4, Ascent!CountedRoundsRule
<1> HIDE DEF pair
<1>6. Climbing(t, over, x, y, n, pair[1], pair[2])
  BY <1>5 DEF ClimbInv
<1>7. pair[1] = pair[2]
  <2>1. t.node[pair[1]].level \in Nat
    BY <1>2, <1>6, LineUp DEF Climbing
  <2> QED BY <1>2, <1>6, <2>1 DEF Climbing
<1>8. c \in Line(over, x) /\ c \in Line(over, y)
  BY <1>6, <1>7 DEF Climbing
<1>9. over[x] \subseteq InnerOf(t) /\ over[y] \subseteq InnerOf(t)
  BY <1>2 DEF TreeFine, Chain
<1>10. c \in over[x] /\ c \in over[y]
  BY <1>8, <1>9 DEF Line, LeavesOf, InnerOf
<1> QED BY <1>1, <1>6, <1>10 DEF Climbing

\* A label that tells two words apart.
Apart(L, t, c, v, w) == ~(v \o t.node[c].label \in L <=> w \o t.node[c].label \in L)

(***************************************************************************)
(* Words at different leaves are told apart by the label there.            *)
(***************************************************************************)
LEMMA ToldApart ==
    ASSUME NEW L, NEW t, NEW over, TreeFine(t, over), NEW x \in LeavesOf(t), NEW y \in LeavesOf(t), x # y,
           NEW v, NEW w, OnPath(L, t, over, x, v), OnPath(L, t, over, y, w)
    PROVE  Apart(L, t, least_commont_ancestor(t, x, y), v, w)
<1> DEFINE c == least_commont_ancestor(t, x, y)
<1>1. /\ c \in over[x] /\ c \in over[y]
      /\ \A s \in Line(over, x) : t.node[s].level > t.node[c].level => s \notin Line(over, y)
  BY AncestorFacts
<1> HIDE DEF c
<1>2. x \in Nodes(t) /\ c \in InnerOf(t)
  BY <1>1 DEF TreeFine, LeavesOf, Chain
<1>3. Child(L, t, c, v) \in Line(over, x) /\ Child(L, t, c, w) \in Line(over, y)
  BY <1>1 DEF OnPath
<1>4. Below(t, over, c, Child(L, t, c, v))
  BY <1>2, Children DEF Child
<1>5. t.node[Child(L, t, c, v)].level > t.node[c].level
  <2>1. t.node[c].level \in Nat
    BY <1>2 DEF TreeFine, NodeFine, InnerOf
  <2> QED BY <1>4, <2>1 DEF Below
<1>6. Child(L, t, c, v) # Child(L, t, c, w)
  BY <1>1, <1>3, <1>5
<1> QED BY <1>6 DEF Child, Apart, c

\* So no word is at two leaves.
LEMMA OneLeaf ==
    ASSUME NEW L, NEW t, NEW over, TreeFine(t, over), NEW x \in LeavesOf(t), NEW y \in LeavesOf(t),
           NEW w, OnPath(L, t, over, x, w), OnPath(L, t, over, y, w)
    PROVE  x = y
BY ToldApart DEF Apart

-----------------------------------------------------------------------------
(* The language.                                                             *)

\* The words that a machine accepts.
Language(m) == {w \in Seq(0..(m.input_alphabet_size - 1)) : classify(m, w, Reject) = Accept}

\* Words are words again in a row, and in parts.
LEMMA WordFacts ==
    ASSUME NEW W, NEW v \in Seq(W), NEW w \in Seq(W)
    PROVE  /\ v \o w \in Seq(W) /\ v \o <<>> = v /\ Len(v) \in Nat /\ DOMAIN v = 1..Len(v)
           /\ \A a \in W : Append(v, a) \in Seq(W) /\ <<a>> \in Seq(W)
           /\ \A i \in 0..Len(v) : SubSeq(v, 1, i) \in Seq(W)
<1>1. Len(v) \in Nat /\ DOMAIN v = 1..Len(v)
  BY LenProperties
<1>2. \A i \in 1..Len(v) : v[i] \in W
  BY ElementOfSeq
<1>3. ASSUME NEW i \in 0..Len(v) PROVE SubSeq(v, 1, i) \in Seq(W)
  BY <1>1, <1>2, SubSeqProperties
<1> QED BY <1>1, <1>3, ConcatProperties, AppendProperties

\* A label tells whether a word goes on to be accepted.
LEMMA LabelTells ==
    ASSUME NEW m, NEW t, NEW over, TreeFine(t, over), t.alphabet_size = m.input_alphabet_size,
           NEW n \in Nodes(t), NEW w \in Words(t)
    PROVE  /\ t.node[n].label \in Words(t) /\ w \o t.node[n].label \in Words(t)
           /\ w \o t.node[n].label \in Language(m)
                <=> classify(m, w \o t.node[n].label, Reject) = Accept
<1>1. t.node[n].label \in Words(t)
  BY DEF TreeFine, NodeFine
<1>2. w \o t.node[n].label \in Words(t)
  BY <1>1, WordFacts DEF Words
<1> QED BY <1>1, <1>2 DEF Language, Words, Letters

\* How far down a word was followed.
Followed(L, t, over, w, i, n) ==
    /\ n \in Nodes(t) /\ OnPath(L, t, over, n, w)
    /\ t.node[n].leaf \/ t.node[n].level >= i

DescendBody(c, n, i) ==
    IF is_leaf(c[1], n) THEN n
    ELSE IF classify(c[2], c[3] \o c[1].node[n].label, Reject) = Accept THEN c[1].node[n].right
                                                                     ELSE c[1].node[n].left
DescendInv(c, s) == Followed(c[1], c[2], c[3], c[4], s[1], s[2])
Descent == INSTANCE LoopRules WITH Body <- DescendBody, Inv <- DescendInv

\* One step down.
LEMMA FollowedFurther ==
    ASSUME NEW m, NEW t, NEW over, TreeFine(t, over), t.alphabet_size = m.input_alphabet_size,
           NEW w \in Words(t), NEW i \in Nat, NEW j, NEW n, Followed(Language(m), t, over, w, i, n)
    PROVE  Followed(Language(m), t, over, w, i + 1, DescendBody(<<t, m, w>>, n, j))
<1> DEFINE L == Language(m)
           c == DescendBody(<<t, m, w>>, n, j)
<1>0. n \in Nodes(t) /\ OnPath(L, t, over, n, w) /\ (t.node[n].leaf \/ t.node[n].level >= i)
  BY DEF Followed
<1>1. CASE t.node[n].leaf
  BY <1>0, <1>1 DEF Followed, DescendBody, is_leaf
<1>2. CASE ~t.node[n].leaf
  <2>1. n \in InnerOf(t)
    BY <1>0, <1>2 DEF InnerOf
  <2>2. c = Child(L, t, n, w)
    BY <1>0, <1>2, LabelTells DEF DescendBody, is_leaf, Child
  <2> HIDE DEF c, L
  <2>3. Below(t, over, n, c) /\ OnPath(L, t, over, c, w)
    BY <1>0, <2>1, <2>2, DescendFine
  <2>4. t.node[n].level \in Nat
    BY <1>0 DEF TreeFine, NodeFine
  <2>5. c \in Nodes(t) /\ t.node[c].level >= i + 1
    BY <1>0, <1>2, <2>3, <2>4 DEF Below
  <2> QED BY <2>3, <2>5 DEF Followed, L, c
<1> QED BY <1>1, <1>2

(***************************************************************************)
(* The teacher's answers lead a word to the leaf whose path it is on.      *)
(***************************************************************************)
LEMMA BelongsFine ==
    ASSUME NEW over, TreeFine(alg, over), alg.alphabet_size = target.input_alphabet_size,
           NEW w \in Words(alg)
    PROVE  /\ Belongs(w, alg.root) \in LeavesOf(alg)
           /\ OnPath(Language(target), alg, over, Belongs(w, alg.root), w)
<1> DEFINE n == Len(alg.node)
           c == <<alg, target, w>>
           p == <<Language(target), alg, over, w>>
           last == Descent!Rounds(c, alg.root, n)
<1>1. Belongs(w, alg.root) = last
  BY DEF Belongs, Repeated, Descent!Rounds, DescendBody, Descend, Truth
<1>2. n \in Nat
  BY SequenceFacts DEF TreeFine
<1>3. DescendInv(p, <<0, alg.root>>)
  <2>1. alg.root \in Nodes(alg) /\ OnPath(Language(target), alg, over, alg.root, w)
    BY AtRoot
  <2>2. alg.node[alg.root].level >= 0
    BY DEF TreeFine
  <2> QED BY <2>1, <2>2 DEF DescendInv, Followed
<1>4. ASSUME NEW i \in 1..n, NEW x, DescendInv(p, <<i - 1, x>>)
      PROVE  DescendInv(p, <<i, DescendBody(c, x, i)>>)
  <2>1. Followed(Language(target), alg, over, w, i - 1, x)
    BY <1>4 DEF DescendInv
  <2>2. Followed(Language(target), alg, over, w, (i - 1) + 1, DescendBody(<<alg, target, w>>, x, i))
    BY <1>2, <2>1, FollowedFurther
  <2>3. (i - 1) + 1 = i
    OBVIOUS
  <2>4. Followed(Language(target), alg, over, w, i, DescendBody(<<alg, target, w>>, x, i))
    BY <2>2, <2>3
  <2> QED BY <2>4 DEF DescendInv
<1>5. DescendInv(p, <<n, last>>)
  <2> HIDE DEF n, p, c
  <2> QED BY <1>2, <1>3, <1>4, Descent!CountedRoundsRule
<1> HIDE DEF last
<1>6. Followed(Language(target), alg, over, w, n, last)
  BY <1>5 DEF DescendInv
<1>7. last \in Nodes(alg) /\ alg.node[last].level \in Nat /\ alg.node[last].level < n
  BY <1>6 DEF Followed, TreeFine, NodeFine, Chain
<1> HIDE DEF n
<1>8. alg.node[last].leaf
  BY <1>2, <1>6, <1>7 DEF Followed
<1> QED BY <1>1, <1>6, <1>7, <1>8 DEF Followed, LeavesOf

\* So a leaf that a word is on the path to is where it belongs.
LEMMA BelongsThere ==
    ASSUME NEW over, TreeFine(alg, over), alg.alphabet_size = target.input_alphabet_size,
           NEW w \in Words(alg), NEW n \in LeavesOf(alg), OnPath(Language(target), alg, over, n, w)
    PROVE  Belongs(w, alg.root) = n
BY BelongsFine, OneLeaf

-----------------------------------------------------------------------------
(* The knowledgebase.                                                        *)

Queries(m) == Seq(0..(m.input_alphabet_size - 1))

\* What it holds are the answers of the user of machine m.
Truthful(m, k) ==
    /\ "node" \in DOMAIN k
    /\ \A w \in Queries(m) : is_answered(k, w) => k.node[w].ans = classify(m, w, Reject)

\* A knowledgebase that has no other answers.
Forgets(k, l) ==
    /\ "node" \in DOMAIN l
    /\ \A w : is_answered(l, w) => is_answered(k, w) /\ l.node[w] = k.node[w]

\* Answers that are a part of right answers are right.
LEMMA ForgottenIsTruthful ==
    ASSUME NEW m, NEW k, NEW l, Truthful(m, k), Forgets(k, l)
    PROVE  Truthful(m, l)
BY DEF Truthful, Forgets

\* New nodes say nothing.
LEMMA FindForgets ==
    ASSUME NEW k, "node" \in DOMAIN k, NEW W
    PROVE  Forgets(k, find_or_create(k, W))
<1> DEFINE f == find_or_create(k, W)
           new == (UNION {Prefixes(w) : w \in W}) \ DOMAIN k.node
           nodes == [v \in DOMAIN k.node \cup new |-> IF v \in new THEN Ignored ELSE k.node[v]]
<1>1. "node" \in DOMAIN f /\ f.node = nodes
  BY DEF find_or_create
<1> HIDE DEF f
<1>2. \A w : is_answered(f, w) => is_answered(k, w) /\ f.node[w] = k.node[w]
  BY <1>1 DEF is_answered, Ignored
<1> QED BY <1>1, <1>2 DEF Forgets, f

\* A query is no answer.
LEMMA MarkForgets ==
    ASSUME NEW k, "node" \in DOMAIN k, NEW ws
    PROVE  Forgets(k, mark_required(k, ws))
<1> DEFINE fresh == OnlyIn(ws, WordsWith(k, "ignore"))
           f == mark_required(k, ws)
           nodes == [v \in DOMAIN k.node |-> IF v \in Range(fresh) THEN Required(k.timestamp)
                                                                 ELSE k.node[v]]
<1>1. "node" \in DOMAIN f /\ f.node = nodes
  BY DEF mark_required
<1> HIDE DEF f, fresh
<1>2. \A w : is_answered(f, w) => is_answered(k, w) /\ f.node[w] = k.node[w]
  BY <1>1 DEF is_answered, Required
<1> QED BY <1>1, <1>2 DEF Forgets, f

\* ignore() and cleanup() take answers away.
LEMMA IgnoreForgets ==
    ASSUME NEW k, "node" \in DOMAIN k, NEW W
    PROVE  Forgets(k, ignore(k, W))
<1> DEFINE f == ignore(k, W)
<1>1. "node" \in DOMAIN f /\ f.node = [v \in DOMAIN k.node |-> IF v \in W THEN Ignored ELSE k.node[v]]
  BY DEF ignore
<1> HIDE DEF f
<1>2. \A w : is_answered(f, w) => is_answered(k, w) /\ f.node[w] = k.node[w]
  BY <1>1 DEF is_answered, Ignored
<1> QED BY <1>1, <1>2 DEF Forgets, f

\* cleanup() drops nodes that carry no answer and changes no answer.
LEMMA CleanupForgets ==
    ASSUME NEW k, "node" \in DOMAIN k
    PROVE  Forgets(k, cleanup(k))
BY DEF cleanup, Forgets, is_answered

\* undo() and clear_queries() do no more than that.
LEMMA UndoForgets ==
    ASSUME NEW k, "node" \in DOMAIN k, NEW count
    PROVE  Forgets(k, undo(k, count)) /\ Forgets(k, clear_queries(k))
<1> DEFINE limit == (k.timestamp - count) % TSMod
           since == {w \in DOMAIN k.node : k.node[w].ts >= limit}
           i == ignore(k, since)
           g == [i EXCEPT !.timestamp = IF limit < 1 THEN 1 ELSE limit]
           j == ignore(k, Range(k.required))
<1>1. undo(k, count) = cleanup(g) /\ clear_queries(k) = cleanup(j)
  BY DEF undo, clear_queries
<1>2. Forgets(k, i) /\ Forgets(k, j)
  <2> HIDE DEF since
  <2> QED BY IgnoreForgets
<1> HIDE DEF i, j
<1>3. "node" \in DOMAIN g /\ g.node = i.node
  BY <1>2 DEF Forgets
<1> HIDE DEF g
<1>4. Forgets(g, cleanup(g)) /\ Forgets(j, cleanup(j))
  BY <1>2, <1>3, CleanupForgets DEF Forgets
<1>5. Forgets(k, g)
  BY <1>2, <1>3 DEF Forgets, is_answered
<1> QED BY <1>1, <1>2, <1>4, <1>5 DEF Forgets

\* An answer is kept as it is given.
LEMMA TruthfulAnswer ==
    ASSUME NEW m, NEW k, Truthful(m, k), NEW w, NEW a,
           w \in Queries(m) => a = classify(m, w, Reject)
    PROVE  Truthful(m, set_answer(k, w, a))
<1> DEFINE f == set_answer(k, w, a)
<1>1. CASE is_answered(k, w)
  BY <1>1 DEF set_answer
<1>2. CASE ~is_answered(k, w)
  <2>1. "node" \in DOMAIN f /\ f.node = [k.node EXCEPT ![w] = Answered(k.timestamp, a)]
    BY <1>2 DEF set_answer, Truthful
  <2> HIDE DEF f
  <2>2. \A v : v # w /\ is_answered(f, v) => is_answered(k, v) /\ f.node[v] = k.node[v]
    BY <2>1 DEF is_answered
  <2>3. is_answered(f, w) => f.node[w].ans = a
    BY <2>1 DEF is_answered, Answered
  <2>4. \A v \in Queries(m) : is_answered(f, v) => f.node[v].ans = classify(m, v, Reject)
    BY <2>2, <2>3 DEF Truthful
  <2>5. Truthful(m, f)
    BY <2>1, <2>4 DEF Truthful
  <2> QED BY <2>5 DEF f
<1> QED BY <1>1, <1>2

(***************************************************************************)
(* The learner asks, or hears of the filter what the user would say.       *)
(***************************************************************************)
LEMMA AskedIsTruthful ==
    ASSUME NEW m \in Targets, NEW k, Truthful(m, k), NEW w
    PROVE  Truthful(m, resolve_or_add_query(k, w))
<1> DEFINE f == find_or_create(k, {w})
<1>1. Truthful(m, f)
  BY FindForgets, ForgottenIsTruthful DEF Truthful
<1>2. "node" \in DOMAIN f
  BY <1>1 DEF Truthful
<1>3. resolve_or_add_query(k, w) = IF is_answered(f, w) THEN f
                                   ELSE IF w \in DOMAIN Filter THEN set_answer(f, w, Filter[w])
                                   ELSE mark_required(f, <<w>>)
  BY DEF resolve_or_add_query
<1> HIDE DEF f
<1>4. w \in DOMAIN Filter => Truthful(m, set_answer(f, w, Filter[w]))
  BY <1>1, TruthfulAnswer, FilterTellsTruth DEF Queries
<1>5. Truthful(m, mark_required(f, <<w>>))
  BY <1>1, <1>2, MarkForgets, ForgottenIsTruthful
<1> QED BY <1>1, <1>3, <1>4, <1>5

\* The answer to a label tells what the language says.
LEMMA AnswerTells ==
    ASSUME NEW m, NEW k, Truthful(m, k), NEW w \in Queries(m), is_answered(k, w)
    PROVE  k.node[w].ans = Accept <=> w \in Language(m)
BY DEF Truthful, Language, Queries

-----------------------------------------------------------------------------
(* Sifting.                                                                  *)

\* The tree of the learner that learns the language of m.
TreeOf(m, t, over) ==
    m \in Targets /\ t.alphabet_size = m.input_alphabet_size /\ TreeFine(t, over)

\* Where a word was sifted to, with the knowledgebase that has the answers.
Sifted(m, t, over, w, s) ==
    Truthful(m, s.kb) /\ s.at \in Nodes(t) /\ OnPath(Language(m), t, over, s.at, w)

SiftBody(c, s, i) == SiftRound(c[1], c[2], s)
SiftInv(c, s) == Sifted(c[1], c[2], c[3], c[4], s)
Sifting == INSTANCE LoopRules WITH Body <- SiftBody, Inv <- SiftInv

\* A sift that follows the answers of the target goes down a path of the tree,
\* or asks for a word it has no answer for.
LEMMA SiftRoundFine ==
    ASSUME NEW m, NEW t, NEW over, TreeOf(m, t, over), NEW w \in Words(t),
           NEW s, Sifted(m, t, over, w, s)
    PROVE  Sifted(m, t, over, w, SiftRound(t, w, s))
<1> DEFINE q == w \o t.node[s.at].label
           l == resolve_or_add_query(s.kb, q)
<1>1. CASE ~s.again \/ is_leaf(t, s.at)
  BY <1>1 DEF SiftRound
<1>2. CASE ~(~s.again \/ is_leaf(t, s.at))
  <2>1. SiftRound(t, w, s) = SiftOn(t, l, s.at, q)
    BY <1>2 DEF SiftRound
  <2>2. Truthful(m, l)
    BY AskedIsTruthful DEF Sifted, TreeOf
  <2>3. s.at \in InnerOf(t)
    BY <1>2 DEF Sifted, InnerOf, is_leaf
  <2>4. s.at \in Nodes(t)
    BY DEF Sifted
  <2>5. q \in Words(t)
    BY <2>4, LabelTells DEF TreeOf
  <2> HIDE DEF l
  <2>6. CASE ~is_answered(l, q)
    BY <2>1, <2>2, <2>6 DEF SiftOn, Sifted
  <2>7. CASE is_answered(l, q)
    <3>1. l.node[q].ans = Accept <=> q \in Language(m)
      BY <2>2, <2>5, <2>7, AnswerTells DEF Queries, Words, Letters, TreeOf
    <3>2. SiftOn(t, l, s.at, q) = [kb |-> l, at |-> Child(Language(m), t, s.at, w), again |-> TRUE]
      BY <2>7, <3>1 DEF SiftOn, Child
    <3>3. /\ Below(t, over, s.at, Child(Language(m), t, s.at, w))
          /\ OnPath(Language(m), t, over, Child(Language(m), t, s.at, w), w)
      BY <2>3, DescendFine DEF TreeOf, Sifted
    <3> QED BY <2>1, <2>2, <3>2, <3>3 DEF Sifted, Below
  <2> QED BY <2>6, <2>7
<1> QED BY <1>1, <1>2

(***************************************************************************)
(* Sifting stays on the path of the word.                                  *)
(***************************************************************************)
LEMMA SiftFine ==
    ASSUME NEW m, NEW t, NEW over, TreeOf(m, t, over), NEW w \in Words(t), NEW k, Truthful(m, k),
           NEW n \in Nodes(t), OnPath(Language(m), t, over, n, w)
    PROVE  Sifted(m, t, over, w, Sift(t, k, w, n))
<1> DEFINE c == <<t, w>>
           p == <<m, t, over, w>>
           base == [kb |-> k, at |-> n, again |-> TRUE]
           z == Len(t.node)
<1>1. Sift(t, k, w, n) = Sifting!Rounds(c, base, z)
  BY DEF Sift, Repeated, Sifting!Rounds, SiftBody
<1>2. z \in Nat
  BY SequenceFacts DEF TreeOf, TreeFine
<1>3. SiftInv(p, base)
  BY DEF SiftInv, Sifted
<1>4. \A i \in 1..z : \A x : SiftInv(p, x) => SiftInv(p, SiftBody(c, x, i))
  BY SiftRoundFine DEF SiftInv, SiftBody
<1>5. SiftInv(p, Sifting!Rounds(c, base, z))
  <2> HIDE DEF p, c, base, z
  <2> QED BY <1>2, <1>3, <1>4, Sifting!RoundsRule
<1> HIDE DEF c, base, z
<1> QED BY <1>1, <1>5 DEF SiftInv

-----------------------------------------------------------------------------
(* The conjecture's runs.                                                    *)

\* A transition that leads where it belongs.
Leads(L, t, over, n, a) ==
    LET y == t.node[n].transitions[a]
    IN  /\ y \in LeavesOf(t) /\ n \in t.node[y].incoming
        /\ OnPath(L, t, over, y, Append(t.node[n].label, a))
\* All of them do.
Complete(L, t, over) ==
    /\ t.initial_state \in LeavesOf(t)
    /\ \A n \in LeavesOf(t) : \A a \in Letters(t) : Leads(L, t, over, n, a)

RunBody(node, n, a) == node[n].transitions[a]
RunInv(t, n) == n \in LeavesOf(t)
Walk == INSTANCE LoopRules WITH Body <- RunBody, Inv <- RunInv

\* simulate_run is such a loop.
LEMMA RunIsLoop ==
    ASSUME NEW t, NEW w
    PROVE  simulate_run(t, w) = Walk!Loop(t.node, t.initial_state, w)
BY DEF simulate_run, Walk!Loop, Walk!FoldLeft, Walk!MapThenFoldSet, Walk!Max,
   FoldLeft, MapThenFoldSet, Max, RunBody

(***************************************************************************)
(* A run ends at a leaf.                                                   *)
(***************************************************************************)
LEMMA RunFine ==
    ASSUME NEW L, NEW t, NEW over, Complete(L, t, over), NEW w \in Words(t)
    PROVE  simulate_run(t, w) \in LeavesOf(t)
<1>1. Len(w) \in Nat /\ DOMAIN w = 1..Len(w) /\ \A i \in 1..Len(w) : w[i] \in Letters(t)
  BY LenProperties, ElementOfSeq DEF Words
<1>2. RunInv(t, t.initial_state)
  BY DEF RunInv, Complete
<1>3. \A i \in 1..Len(w) : \A x : RunInv(t, x) => RunInv(t, RunBody(t.node, x, w[i]))
  BY <1>1 DEF RunInv, RunBody, Complete, Leads
<1>4. RunInv(t, Walk!Loop(t.node, t.initial_state, w))
  BY <1>1, <1>2, <1>3, Walk!FoldRule
<1> QED BY <1>4, RunIsLoop DEF RunInv

(***************************************************************************)
(* Its last step is the transition by the last letter.                     *)
(***************************************************************************)
LEMMA RunStep ==
    ASSUME NEW t, NEW w \in Words(t), NEW i \in 1..Len(w)
    PROVE  simulate_run(t, SubSeq(w, 1, i))
              = t.node[simulate_run(t, SubSeq(w, 1, i - 1))].transitions[w[i]]
<1> DEFINE u == SubSeq(w, 1, i - 1)
           v == SubSeq(w, 1, i)
<1>1. Sequence(w) /\ Len(w) \in Nat
  BY SequenceOf, LenProperties DEF Words
<1>2. /\ Sequence(u) /\ Len(u) = i - 1 /\ \A j \in 1..(i - 1) : u[j] = w[j]
      /\ Sequence(v) /\ Len(v) = i /\ \A j \in 1..i : v[j] = w[j]
  <2>1. /\ Sequence(u) /\ Len(u) = (IF 1 <= i - 1 THEN (i - 1) - 1 + 1 ELSE 0)
        /\ \A j \in 1..((i - 1) - 1 + 1) : u[j] = w[1 + j - 1]
    BY <1>1, PartFacts
  <2>2. /\ Sequence(v) /\ Len(v) = (IF 1 <= i THEN i - 1 + 1 ELSE 0)
        /\ \A j \in 1..(i - 1 + 1) : v[j] = w[1 + j - 1]
    BY <1>1, PartFacts
  <2> HIDE DEF u, v
  <2> QED BY <1>1, <2>1, <2>2
<1> HIDE DEF u, v
<1>3. DOMAIN u = 1..(i - 1) /\ DOMAIN v = 1..i
  BY <1>2, SequenceFacts
<1>4. i - 1 \in Nat /\ (i - 1) + 1 = i
  BY <1>1
<1>5. DOMAIN v = 1..((i - 1) + 1) /\ \A j \in 1..(i - 1) : v[j] = u[j]
  BY <1>2, <1>3, <1>4
<1>6. Walk!Loop(t.node, t.initial_state, v) = RunBody(t.node, Walk!Loop(t.node, t.initial_state, u), v[(i - 1) + 1])
  BY <1>3, <1>4, <1>5, Walk!FoldLast
<1>7. v[(i - 1) + 1] = w[i]
  BY <1>1, <1>2, <1>4
<1> QED BY <1>6, <1>7, RunIsLoop DEF RunBody, u, v

\* No letters, no steps.
LEMMA EmptyRun ==
    ASSUME NEW t
    PROVE  simulate_run(t, <<>>) = t.initial_state
<1>1. 0 \in Nat /\ DOMAIN <<>> = 1..0
  OBVIOUS
<1>2. PICK g : Walk!Turns(g, t.node, t.initial_state, <<>>, 0) /\ Walk!Loop(t.node, t.initial_state, <<>>) = g[0]
  BY <1>1, Walk!FoldSteps
<1> QED BY <1>2, RunIsLoop DEF Walk!Turns

\* A run depends on the nodes alone.
LEMMA SameRun ==
    ASSUME NEW t, NEW u, u.node = t.node, u.initial_state = t.initial_state, NEW w
    PROVE  simulate_run(u, w) = simulate_run(t, w)
BY RunIsLoop

-----------------------------------------------------------------------------
(* What holds of the leaves, the transitions and the tasks.                  *)

\* f is the number of leaves that proved too few.
IdsFine(t) ==
    /\ t.leaf_node_count \in Nat
    /\ {t.node[n].id : n \in LeavesOf(t)} = 0..(t.leaf_node_count - 1)
    /\ Cardinality(LeavesOf(t)) = t.leaf_node_count
LeafFine(L, t, over, n) ==
    /\ OnPath(L, t, over, n, t.node[n].label)
    /\ t.node[n].accepting = (t.node[n].label \in L)
    /\ t.node[n].incoming \subseteq LeavesOf(t)
LeavesFine(L, t, over) ==
    /\ \A n \in LeavesOf(t) : LeafFine(L, t, over, n)
    /\ t.initial_state \in LeavesOf(t) /\ t.node[t.initial_state].label = <<>>

\* A task of P will compute the transition of n by a.
Awaits(P, n, a) == \E p \in P : p.kind = "transition" /\ p.source = n /\ p.symbol = a
TransitionsFine(L, t, over, P) ==
    \A n \in LeavesOf(t) : \A a \in Letters(t) : Awaits(P, n, a) \/ Leads(L, t, over, n, a)

TransitionFine(L, t, over, p) ==
    /\ {"kind", "source", "symbol", "at"} \subseteq DOMAIN p /\ p.kind = "transition"
    /\ p.source \in LeavesOf(t) /\ p.symbol \in Letters(t)
    /\ p.at \in Nodes(t) /\ OnPath(L, t, over, p.at, Append(t.node[p.source].label, p.symbol))
SplitFine(L, t, over, p) ==
    /\ {"kind", "node", "leaf_label", "inner_label"} \subseteq DOMAIN p /\ p.kind = "split"
    /\ p.node \in LeavesOf(t) /\ p.leaf_label \in Words(t) /\ p.inner_label \in Words(t)
    /\ OnPath(L, t, over, p.node, p.leaf_label)
    /\ (p.leaf_label \o p.inner_label \in L) # (t.node[p.node].label \o p.inner_label \in L)
\* The conjecture takes the first i letters of w where they belong.
Good(L, t, over, w, i) == OnPath(L, t, over, simulate_run(t, SubSeq(w, 1, i)), SubSeq(w, 1, i))
LinearFine(L, t, over, p) ==
    LET w == p.counterexample
    IN  /\ {"kind", "counterexample", "position", "prefix", "at"} \subseteq DOMAIN p
        /\ p.kind = "linear" /\ w \in Words(t)
        /\ p.position \in 1..Len(w) /\ p.prefix = SubSeq(w, 1, p.position)
        /\ p.at \in Nodes(t) /\ OnPath(L, t, over, p.at, p.prefix)
        /\ Good(L, t, over, w, p.position - 1) /\ ~Good(L, t, over, w, Len(w))
BinaryFine(L, t, over, p) ==
    LET w == p.counterexample
    IN  /\ {"kind", "counterexample", "position", "left", "right", "sift"} \subseteq DOMAIN p
        /\ p.kind = "binary" /\ w \in Words(t)
        /\ p.left \in 1..Len(w) /\ p.right \in 1..Len(w) /\ p.position \in p.left..p.right
        /\ DOMAIN p.sift = 0..Len(w)
        /\ \A i \in 0..Len(w) : p.sift[i] \in Nodes(t) /\ OnPath(L, t, over, p.sift[i], SubSeq(w, 1, i))
        /\ Good(L, t, over, w, p.left - 1) /\ ~Good(L, t, over, w, p.right)
SearchFine(L, t, over, p) ==
    SplitFine(L, t, over, p) \/ LinearFine(L, t, over, p) \/ BinaryFine(L, t, over, p)

\* Either transitions are to be computed, or the conjecture is complete and one
\* task looks for the leaf to be split, or splits it.
Computing(L, t, over, P) ==
    TransitionsFine(L, t, over, P) /\ \A p \in P : TransitionFine(L, t, over, p)
Searching(L, t, over, p) ==
    Complete(L, t, over) /\ SearchFine(L, t, over, p)
Waits(L, t, over, list, f) ==
    /\ Sequence(list)
    /\ \/ Computing(L, t, over, Range(list)) /\ f < t.leaf_node_count
       \/ Len(list) = 1 /\ Searching(L, t, over, list[1]) /\ f <= t.leaf_node_count

Sound(m, t, over) ==
    /\ TreeOf(m, t, over)
    /\ IdsFine(t)
    /\ LeavesFine(Language(m), t, over)
    /\ t.initial_phase = FALSE

\* The same tree; the tasks and the kind of search may differ.
SameTree(t, u) ==
    /\ TreeRecord(u) /\ u.node = t.node /\ u.root = t.root /\ u.initial_state = t.initial_state
    /\ u.initial_phase = t.initial_phase
    /\ u.alphabet_size = t.alphabet_size /\ u.leaf_node_count = t.leaf_node_count

\* Two trees with the same shape and labels have the same words, leaves and
\* paths ...
LEMMA SameTreeFacts ==
    ASSUME NEW t, NEW u, SameTree(t, u)
    PROVE  /\ Letters(u) = Letters(t) /\ Words(u) = Words(t) /\ Nodes(u) = Nodes(t)
           /\ LeavesOf(u) = LeavesOf(t) /\ InnerOf(u) = InnerOf(t)
           /\ \A L, over, n, w : OnPath(L, u, over, n, w) <=> OnPath(L, t, over, n, w)
<1>1. /\ Letters(u) = Letters(t) /\ Words(u) = Words(t) /\ Nodes(u) = Nodes(t)
      /\ LeavesOf(u) = LeavesOf(t) /\ InnerOf(u) = InnerOf(t)
  BY DEF SameTree, Letters, Words, Nodes, LeavesOf, InnerOf
<1>2. \A L, over, n, w : OnPath(L, u, over, n, w) <=> OnPath(L, t, over, n, w)
  BY DEF OnPath, Child, SameTree
<1> QED BY <1>1, <1>2

(***************************************************************************)
(* What is said of the tree depends on nothing else.                       *)
(***************************************************************************)
LEMMA SameTreeSound ==
    ASSUME NEW m, NEW t, NEW over, NEW u, SameTree(t, u), Sound(m, t, over)
    PROVE  Sound(m, u, over)
<1>1. /\ Letters(u) = Letters(t) /\ Words(u) = Words(t) /\ Nodes(u) = Nodes(t)
      /\ LeavesOf(u) = LeavesOf(t) /\ InnerOf(u) = InnerOf(t)
      /\ \A L, o, n, w : OnPath(L, u, o, n, w) <=> OnPath(L, t, o, n, w)
  BY SameTreeFacts
<1>2. /\ TreeRecord(u) /\ u.node = t.node /\ u.root = t.root /\ u.initial_state = t.initial_state
      /\ u.initial_phase = t.initial_phase
      /\ u.alphabet_size = t.alphabet_size /\ u.leaf_node_count = t.leaf_node_count
  BY DEF SameTree
<1>3. TreeFine(u, over)
  <2>1. TreeFine(t, over)
    BY DEF Sound, TreeOf
  <2>2. \A n : NodeFine(t, t.node[n]) => NodeFine(u, u.node[n])
    BY <1>1, <1>2 DEF NodeFine, LeafNode
  <2>3. \A n : Hangs(t, over, n) => Hangs(u, over, n)
    BY <1>1, <1>2 DEF Hangs
  <2>4. \A n : Parent(t, n) => Parent(u, n)
    BY <1>1, <1>2 DEF Parent
  <2>5. \A n : Chain(t, over, n) => Chain(u, over, n)
    BY <1>1, <1>2 DEF Chain
  <2> QED BY <1>1, <1>2, <2>1, <2>2, <2>3, <2>4, <2>5 DEF TreeFine
<1>4. TreeOf(m, u, over)
  BY <1>2, <1>3 DEF Sound, TreeOf
<1>5. IdsFine(u)
  BY <1>1, <1>2 DEF IdsFine, Sound
<1>6. LeavesFine(Language(m), u, over)
  BY <1>1, <1>2 DEF LeavesFine, LeafFine, Sound
<1> QED BY <1>2, <1>4, <1>5, <1>6 DEF Sound

\* ... so what the tasks rely on carries over from one to the other.
LEMMA SameTreeWaits ==
    ASSUME NEW L, NEW t, NEW over, NEW u, SameTree(t, u)
    PROVE  /\ \A P : Computing(L, t, over, P) => Computing(L, u, over, P)
           /\ \A p : Searching(L, t, over, p) => Searching(L, u, over, p)
           /\ \A list, f : Waits(L, t, over, list, f) => Waits(L, u, over, list, f)
<1>1. /\ Letters(u) = Letters(t) /\ Words(u) = Words(t) /\ Nodes(u) = Nodes(t)
      /\ LeavesOf(u) = LeavesOf(t) /\ InnerOf(u) = InnerOf(t)
      /\ \A M, o, n, w : OnPath(M, u, o, n, w) <=> OnPath(M, t, o, n, w)
  BY SameTreeFacts
<1>2. u.node = t.node /\ u.initial_state = t.initial_state /\ u.leaf_node_count = t.leaf_node_count
  BY DEF SameTree
<1>3. \A n, a : Leads(L, t, over, n, a) => Leads(L, u, over, n, a)
  BY <1>1, <1>2 DEF Leads
<1>4. \A w : simulate_run(u, w) = simulate_run(t, w)
  BY <1>2, SameRun
<1>5. \A w, i : Good(L, u, over, w, i) <=> Good(L, t, over, w, i)
  BY <1>1, <1>4 DEF Good
<1>6. ASSUME NEW P, Computing(L, t, over, P) PROVE Computing(L, u, over, P)
  <2>1. TransitionsFine(L, u, over, P)
    BY <1>1, <1>3, <1>6 DEF Computing, TransitionsFine
  <2>2. \A p : TransitionFine(L, t, over, p) => TransitionFine(L, u, over, p)
    BY <1>1, <1>2 DEF TransitionFine
  <2> QED BY <1>6, <2>1, <2>2 DEF Computing
<1>7. ASSUME NEW p, Searching(L, t, over, p) PROVE Searching(L, u, over, p)
  <2>1. Complete(L, u, over)
    BY <1>1, <1>2, <1>3, <1>7 DEF Complete, Searching
  <2>2. SplitFine(L, t, over, p) => SplitFine(L, u, over, p)
    BY <1>1, <1>2 DEF SplitFine
  <2>3. LinearFine(L, t, over, p) => LinearFine(L, u, over, p)
    BY <1>1, <1>2, <1>5 DEF LinearFine
  <2>4. BinaryFine(L, t, over, p) => BinaryFine(L, u, over, p)
    BY <1>1, <1>2, <1>5 DEF BinaryFine
  <2> QED BY <1>7, <2>1, <2>2, <2>3, <2>4 DEF Searching, SearchFine
<1> QED BY <1>2, <1>6, <1>7 DEF Waits

-----------------------------------------------------------------------------
(* A transition is computed.                                                 *)

\* What is left of a node when a transition from source to leaf is set.
Relinked(x, y, n, source, symbol, leaf) ==
    /\ DOMAIN y = DOMAIN x
    /\ y.leaf = x.leaf /\ y.label = x.label /\ y.level = x.level /\ y.parent = x.parent
    /\ x.leaf => y.id = x.id /\ y.accepting = x.accepting
    /\ ~x.leaf => y.left = x.left /\ y.right = x.right
    /\ x.leaf => /\ DOMAIN y.transitions = DOMAIN x.transitions
                 /\ \A a \in DOMAIN x.transitions :
                       y.transitions[a] = IF n = source /\ a = symbol THEN leaf ELSE x.transitions[a]
                 /\ y.incoming = IF n = leaf THEN x.incoming \cup {source} ELSE x.incoming

\* What linking a transition to a leaf changes: one entry, and the leaf's list
\* of incoming transitions.
LEMMA SetTransitionNodes ==
    ASSUME NEW t, NEW over, TreeFine(t, over), NEW source \in LeavesOf(t), NEW symbol \in Letters(t),
           NEW leaf \in LeavesOf(t)
    PROVE  LET u == SetTransition(t, source, symbol, leaf)
           IN  /\ TreeRecord(u) /\ u.root = t.root /\ u.initial_state = t.initial_state
               /\ u.initial_phase = t.initial_phase
               /\ u.alphabet_size = t.alphabet_size /\ u.leaf_node_count = t.leaf_node_count
               /\ u.tasks = t.tasks
               /\ Sequence(u.node) /\ Len(u.node) = Len(t.node)
               /\ \A n \in Nodes(t) : Relinked(t.node[n], u.node[n], n, source, symbol, leaf)
<1> DEFINE x == t.node[source]
           n1 == [t.node EXCEPT ![source] =
                     [t.node[source] EXCEPT !.transitions = [t.node[source].transitions EXCEPT ![symbol] = leaf]]]
           n2 == [n1 EXCEPT ![leaf] = [n1[leaf] EXCEPT !.incoming = n1[leaf].incoming \cup {source}]]
           u == SetTransition(t, source, symbol, leaf)
<1>1. Sequence(t.node) /\ Len(t.node) \in Nat /\ DOMAIN t.node = Nodes(t) /\ TreeRecord(t)
  BY SequenceFacts DEF TreeFine, Nodes
<1>2. DOMAIN n2 = Nodes(t) /\ n2 = [n \in Nodes(t) |-> n2[n]]
  BY <1>1
<1>3. /\ u.node = n2 /\ u.root = t.root /\ u.initial_state = t.initial_state
      /\ u.initial_phase = t.initial_phase
      /\ u.alphabet_size = t.alphabet_size /\ u.leaf_node_count = t.leaf_node_count
      /\ u.tasks = t.tasks /\ DOMAIN u = DOMAIN t
  BY <1>1 DEF SetTransition, TreeRecord
<1>4. TreeRecord(u)
  <2> HIDE DEF u, n2
  <2> QED BY <1>1, <1>3 DEF TreeRecord
<1>5. Sequence(u.node) /\ Len(u.node) = Len(t.node)
  <2> HIDE DEF n2, u
  <2>1. n2 = [n \in 1..Len(t.node) |-> n2[n]]
    BY <1>2 DEF Nodes
  <2> QED BY <1>1, <1>3, <2>1, FunctionToSequence
<1>6. ASSUME NEW n \in Nodes(t) PROVE Relinked(t.node[n], n2[n], n, source, symbol, leaf)
  <2>1. NodeFine(t, t.node[n]) /\ LeafNode(t, t.node[source]) /\ LeafNode(t, t.node[leaf])
    BY DEF TreeFine, NodeFine, LeavesOf, InnerNode
  <2>2. source \in Nodes(t) /\ leaf \in Nodes(t) /\ t.node[source].leaf /\ t.node[leaf].leaf
    BY DEF LeavesOf
  <2>4. CASE n # source /\ n # leaf
    <3>1. n2[n] = t.node[n]
      BY <1>1, <2>4
    <3> HIDE DEF n2
    <3> QED BY <2>4, <3>1 DEF Relinked
  <2>5. CASE n = source /\ n # leaf
    <3>1. n2[n] = [t.node[n] EXCEPT !.transitions = [t.node[n].transitions EXCEPT ![symbol] = leaf]]
      BY <1>1, <2>2, <2>5
    <3> HIDE DEF n2
    <3> QED BY <2>1, <2>2, <2>5, <3>1 DEF Relinked, LeafNode
  <2>6. CASE n = leaf /\ n # source
    <3>1. n2[n] = [t.node[n] EXCEPT !.incoming = t.node[n].incoming \cup {source}]
      BY <1>1, <2>2, <2>6
    <3> HIDE DEF n2
    <3> QED BY <2>1, <2>2, <2>6, <3>1 DEF Relinked, LeafNode
  <2>7. CASE n = leaf /\ n = source
    <3>1. n1[n] = [t.node[n] EXCEPT !.transitions = [t.node[n].transitions EXCEPT ![symbol] = leaf]]
      BY <1>1, <2>2, <2>7
    <3>2. n2[n] = [n1[n] EXCEPT !.incoming = n1[n].incoming \cup {source}]
      BY <1>1, <2>2, <2>7
    <3> DEFINE z == n1[n]
    <3>3. z = [t.node[n] EXCEPT !.transitions = [t.node[n].transitions EXCEPT ![symbol] = leaf]]
          /\ n2[n] = [z EXCEPT !.incoming = z.incoming \cup {source}]
      BY <3>1, <3>2
    <3> HIDE DEF n1, n2, z
    <3>4. /\ DOMAIN z = DOMAIN t.node[n] /\ z.leaf = t.node[n].leaf /\ z.label = t.node[n].label
          /\ z.level = t.node[n].level /\ z.parent = t.node[n].parent
          /\ z.id = t.node[n].id /\ z.accepting = t.node[n].accepting
          /\ z.transitions = [t.node[n].transitions EXCEPT ![symbol] = leaf]
          /\ z.incoming = t.node[n].incoming
      BY <2>1, <2>7, <3>3 DEF LeafNode
    <3>5. /\ DOMAIN n2[n] = DOMAIN z /\ n2[n].leaf = z.leaf /\ n2[n].label = z.label
          /\ n2[n].level = z.level /\ n2[n].parent = z.parent
          /\ n2[n].id = z.id /\ n2[n].accepting = z.accepting
          /\ n2[n].transitions = z.transitions
          /\ n2[n].incoming = z.incoming \cup {source}
      BY <2>1, <2>7, <3>3, <3>4 DEF LeafNode
    <3> QED BY <2>2, <2>7, <3>4, <3>5 DEF Relinked
  <2> QED BY <2>4, <2>5, <2>6, <2>7
<1> HIDE DEF u, n2
<1> QED BY <1>3, <1>4, <1>5, <1>6 DEF u

(***************************************************************************)
(* It leads where it should, and so do the others that did.                *)
(***************************************************************************)
LEMMA SetTransitionFine ==
    ASSUME NEW m, NEW t, NEW over, Sound(m, t, over), NEW source \in LeavesOf(t),
           NEW symbol \in Letters(t), NEW leaf \in LeavesOf(t),
           OnPath(Language(m), t, over, leaf, Append(t.node[source].label, symbol))
    PROVE  LET u == SetTransition(t, source, symbol, leaf)
           IN  /\ Sound(m, u, over)
               /\ u.tasks = t.tasks /\ u.leaf_node_count = t.leaf_node_count
               /\ LeavesOf(u) = LeavesOf(t) /\ Letters(u) = Letters(t)
               /\ \A p : TransitionFine(Language(m), t, over, p) => TransitionFine(Language(m), u, over, p)
               /\ Leads(Language(m), u, over, source, symbol)
               /\ \A n \in LeavesOf(t) : \A a \in Letters(t) :
                     Leads(Language(m), t, over, n, a) => Leads(Language(m), u, over, n, a)
<1> DEFINE u == SetTransition(t, source, symbol, leaf)
           L == Language(m)
<1>0. TreeFine(t, over)
  BY DEF Sound, TreeOf
<1>1. /\ TreeRecord(u) /\ u.root = t.root /\ u.initial_state = t.initial_state
      /\ u.initial_phase = t.initial_phase
      /\ u.alphabet_size = t.alphabet_size /\ u.leaf_node_count = t.leaf_node_count
      /\ u.tasks = t.tasks
      /\ Sequence(u.node) /\ Len(u.node) = Len(t.node)
      /\ \A n \in Nodes(t) : Relinked(t.node[n], u.node[n], n, source, symbol, leaf)
  BY <1>0, SetTransitionNodes
<1> HIDE DEF u, L
<1>2. /\ Letters(u) = Letters(t) /\ Words(u) = Words(t) /\ Nodes(u) = Nodes(t)
  BY <1>1 DEF Letters, Words, Nodes
<1>3. \A n \in Nodes(t) :
         /\ u.node[n].leaf = t.node[n].leaf /\ u.node[n].label = t.node[n].label
         /\ u.node[n].level = t.node[n].level /\ u.node[n].parent = t.node[n].parent
         /\ t.node[n].leaf => u.node[n].id = t.node[n].id /\ u.node[n].accepting = t.node[n].accepting
         /\ ~t.node[n].leaf => u.node[n].left = t.node[n].left /\ u.node[n].right = t.node[n].right
         /\ DOMAIN u.node[n] = DOMAIN t.node[n]
         /\ t.node[n].leaf => DOMAIN u.node[n].transitions = DOMAIN t.node[n].transitions
  BY <1>1 DEF Relinked
<1>4. LeavesOf(u) = LeavesOf(t) /\ InnerOf(u) = InnerOf(t)
  BY <1>2, <1>3 DEF LeavesOf, InnerOf
<1>5. \A n \in InnerOf(t) : n \in Nodes(t) /\ ~t.node[n].leaf
  BY DEF InnerOf
<1>6. TreeFine(u, over)
  <2>1. ASSUME NEW n \in Nodes(t) PROVE NodeFine(u, u.node[n])
    <3>1. NodeFine(t, t.node[n])
      BY <1>0 DEF TreeFine
    <3>2. CASE t.node[n].leaf
      BY <1>2, <1>3, <3>1, <3>2 DEF NodeFine, LeafNode, InnerNode
    <3>3. CASE ~t.node[n].leaf
      BY <1>2, <1>3, <3>1, <3>3 DEF NodeFine, LeafNode, InnerNode
    <3> QED BY <3>2, <3>3
  <2>2. ASSUME NEW n \in Nodes(t) \ {t.root} PROVE Hangs(u, over, n)
    <3>1. Hangs(t, over, n)
      BY <1>0 DEF TreeFine
    <3> QED BY <1>1, <1>3, <1>4, <1>5, <3>1 DEF Hangs
  <2>3. ASSUME NEW n \in InnerOf(t) PROVE Parent(u, n)
    <3>1. Parent(t, n)
      BY <1>0 DEF TreeFine
    <3> QED BY <1>1, <1>2, <1>3, <1>5, <3>1 DEF Parent
  <2>4. ASSUME NEW n \in Nodes(t) PROVE Chain(u, over, n)
    <3>1. Chain(t, over, n)
      BY <1>0 DEF TreeFine
    <3>2. \A a \in over[n] : a \in Nodes(t) /\ ~t.node[a].leaf
      BY <1>5, <3>1 DEF Chain
    <3> QED BY <1>1, <1>3, <1>4, <3>1, <3>2 DEF Chain
  <2>5. t.root \in Nodes(t) /\ t.root \in InnerOf(t) /\ over[t.root] = {}
        /\ t.node[t.root].label = <<>> /\ t.node[t.root].level = 0
    BY <1>0, <1>5 DEF TreeFine
  <2>6. u.node[u.root].label = <<>> /\ u.node[u.root].level = 0
    BY <1>1, <1>3, <2>5
  <2> QED BY <1>1, <1>2, <1>4, <2>1, <2>2, <2>3, <2>4, <2>5, <2>6 DEF TreeFine
<1>7. ASSUME NEW n \in Nodes(t), NEW w PROVE OnPath(L, u, over, n, w) <=> OnPath(L, t, over, n, w)
  <2>1. \A a \in over[n] : a \in Nodes(t) /\ ~t.node[a].leaf
    BY <1>0, <1>5 DEF TreeFine, Chain
  <2>2. \A a \in over[n] : Child(L, u, a, w) = Child(L, t, a, w)
    BY <1>3, <2>1 DEF Child
  <2> QED BY <2>2 DEF OnPath
<1>8. \A n \in LeavesOf(t) : n \in Nodes(t) /\ t.node[n].leaf
  BY DEF LeavesOf
<1>9. IdsFine(u)
  <2>1. {u.node[n].id : n \in LeavesOf(t)} = {t.node[n].id : n \in LeavesOf(t)}
    BY <1>3, <1>8
  <2> QED BY <1>1, <1>4, <2>1 DEF IdsFine, Sound
<1>10. \A n \in LeavesOf(t) :
          /\ t.node[n].incoming \subseteq u.node[n].incoming
          /\ u.node[n].incoming \subseteq t.node[n].incoming \cup {source}
          /\ n = leaf => source \in u.node[n].incoming
  BY <1>1, <1>8 DEF Relinked
<1>11. LeavesFine(L, u, over)
  <2>1. LeavesFine(L, t, over)
    BY DEF Sound, L
  <2>2. ASSUME NEW n \in LeavesOf(t) PROVE LeafFine(L, u, over, n)
    <3>1. LeafFine(L, t, over, n)
      BY <2>1 DEF LeavesFine
    <3> QED BY <1>3, <1>4, <1>7, <1>8, <1>10, <3>1 DEF LeafFine
  <2> QED BY <1>1, <1>3, <1>4, <1>8, <2>1, <2>2 DEF LeavesFine
<1>12. Sound(m, u, over)
  BY <1>1, <1>6, <1>9, <1>11 DEF Sound, TreeOf, L
<1>13. \A p : TransitionFine(L, t, over, p) => TransitionFine(L, u, over, p)
  BY <1>2, <1>3, <1>4, <1>7, <1>8 DEF TransitionFine
<1>14. \A n \in LeavesOf(t) : \A a \in Letters(t) :
          u.node[n].transitions[a] = IF n = source /\ a = symbol THEN leaf ELSE t.node[n].transitions[a]
  <2>1. \A n \in LeavesOf(t) : DOMAIN t.node[n].transitions = Letters(t)
    BY <1>0, <1>8 DEF TreeFine, NodeFine, LeafNode, InnerNode
  <2>2. ASSUME NEW n \in LeavesOf(t), NEW a \in Letters(t)
        PROVE  u.node[n].transitions[a]
                  = IF n = source /\ a = symbol THEN leaf ELSE t.node[n].transitions[a]
    <3>1. Relinked(t.node[n], u.node[n], n, source, symbol, leaf) /\ t.node[n].leaf
      BY <1>1, <1>8
    <3> QED BY <2>1, <3>1 DEF Relinked
  <2> QED BY <2>2
<1>15. Leads(L, u, over, source, symbol)
  <2>1. u.node[source].transitions[symbol] = leaf /\ u.node[source].label = t.node[source].label
    BY <1>3, <1>8, <1>14
  <2>2. OnPath(L, u, over, leaf, Append(t.node[source].label, symbol))
    BY <1>7, <1>8 DEF L
  <2> QED BY <1>4, <1>10, <2>1, <2>2 DEF Leads
<1>16. ASSUME NEW n \in LeavesOf(t), NEW a \in Letters(t), Leads(L, t, over, n, a)
       PROVE  Leads(L, u, over, n, a)
  <2>1. CASE n = source /\ a = symbol
    BY <1>15, <2>1
  <2>2. CASE ~(n = source /\ a = symbol)
    <3> DEFINE y == t.node[n].transitions[a]
    <3>1. u.node[n].transitions[a] = y /\ u.node[n].label = t.node[n].label
      BY <1>3, <1>8, <1>14, <2>2
    <3>2. y \in LeavesOf(t) /\ n \in t.node[y].incoming /\ OnPath(L, t, over, y, Append(t.node[n].label, a))
      BY <1>16 DEF Leads
    <3> HIDE DEF y
    <3>3. OnPath(L, u, over, y, Append(t.node[n].label, a)) /\ n \in u.node[y].incoming
      BY <1>7, <1>8, <1>10, <3>2
    <3> QED BY <1>4, <3>1, <3>2, <3>3 DEF Leads
  <2> QED BY <2>1, <2>2
<1> QED BY <1>1, <1>2, <1>4, <1>12, <1>13, <1>15, <1>16 DEF u, L

\* What a transition task leaves of the tasks P: itself, gone on, unless it is done.
Computed(m, t, over, P, task, r) ==
    /\ Truthful(m, r.kb) /\ Sound(m, r.alg, over)
    /\ r.alg.tasks = t.tasks /\ r.alg.leaf_node_count = t.leaf_node_count
    /\ \A Q : /\ P \ {task} \subseteq Q /\ Q \subseteq P \cup {r.task}
              /\ r.done \/ r.task \in Q
              => Computing(Language(m), r.alg, over, Q)

(***************************************************************************)
(* perform() of a transition task sets the transition or goes on sifting.  *)
(***************************************************************************)
LEMMA ComputeFine ==
    ASSUME NEW m, NEW t, NEW over, Sound(m, t, over), NEW k, Truthful(m, k),
           NEW P, Computing(Language(m), t, over, P), NEW task \in P
    PROVE  Computed(m, t, over, P, task, perform(t, k, task))
<1> DEFINE L == Language(m)
           w == Append(t.node[task.source].label, task.symbol)
           s == Sift(t, k, w, task.at)
           r == perform(t, k, task)
           u == SetTransition(t, task.source, task.symbol, s.at)
<1>1. TransitionFine(L, t, over, task) /\ \A p \in P : TransitionFine(L, t, over, p)
  BY DEF Computing
<1>2. r = ComputedTransition(t, task, s)
  BY <1>1 DEF perform, TransitionFine
<1> HIDE DEF r
<1>3. Sifted(m, t, over, w, s)
  <2>1. w \in Words(t)
    <3>1. t.node[task.source].label \in Words(t)
      BY <1>1 DEF TransitionFine, LeavesOf, Sound, TreeOf, TreeFine, NodeFine
    <3> QED BY <1>1, <3>1, WordFacts DEF TransitionFine, Words
  <2>2. TreeOf(m, t, over)
    BY DEF Sound
  <2>3. task.at \in Nodes(t) /\ OnPath(L, t, over, task.at, w)
    BY <1>1 DEF TransitionFine
  <2> HIDE DEF w
  <2> QED BY <2>1, <2>2, <2>3, SiftFine
<1> HIDE DEF s
<1>4. Truthful(m, s.kb) /\ s.at \in Nodes(t) /\ OnPath(L, t, over, s.at, w)
  BY <1>3 DEF Sifted
<1>5. CASE is_leaf(t, s.at)
  <2>1. r = [alg |-> u, kb |-> s.kb, task |-> task, done |-> TRUE, again |-> FALSE]
    BY <1>2, <1>5 DEF ComputedTransition, Outcome
  <2>2. s.at \in LeavesOf(t) /\ task.source \in LeavesOf(t) /\ task.symbol \in Letters(t)
    BY <1>1, <1>4, <1>5 DEF LeavesOf, is_leaf, TransitionFine
  <2>3. /\ Sound(m, u, over)
        /\ u.tasks = t.tasks /\ u.leaf_node_count = t.leaf_node_count
        /\ LeavesOf(u) = LeavesOf(t) /\ Letters(u) = Letters(t)
        /\ \A p : TransitionFine(L, t, over, p) => TransitionFine(L, u, over, p)
        /\ Leads(L, u, over, task.source, task.symbol)
        /\ \A n \in LeavesOf(t) : \A a \in Letters(t) : Leads(L, t, over, n, a) => Leads(L, u, over, n, a)
    BY <1>4, <2>2, SetTransitionFine
  <2> HIDE DEF u
  <2>4. ASSUME NEW Q, P \ {task} \subseteq Q, Q \subseteq P \cup {task}
        PROVE  Computing(L, u, over, Q)
    <3>1. \A p \in Q : TransitionFine(L, u, over, p)
      BY <1>1, <2>3, <2>4
    <3>2. ASSUME NEW n \in LeavesOf(t), NEW a \in Letters(t)
          PROVE  Awaits(Q, n, a) \/ Leads(L, u, over, n, a)
      <4>1. CASE Leads(L, t, over, n, a)
        BY <2>3, <4>1
      <4>2. CASE Awaits(P, n, a)
        <5>1. PICK p \in P : p.kind = "transition" /\ p.source = n /\ p.symbol = a
          BY <4>2 DEF Awaits
        <5>2. CASE p = task
          BY <2>3, <5>1, <5>2
        <5>3. CASE p # task
          BY <2>4, <5>1, <5>3 DEF Awaits
        <5> QED BY <5>2, <5>3
      <4>3. TransitionsFine(L, t, over, P)
        BY DEF Computing
      <4> QED BY <4>1, <4>2, <4>3 DEF TransitionsFine
    <3>3. TransitionsFine(L, u, over, Q)
      BY <2>3, <3>2 DEF TransitionsFine
    <3> QED BY <3>1, <3>3 DEF Computing
  <2> HIDE DEF L
  <2> QED BY <1>4, <2>1, <2>3, <2>4 DEF Computed, L, r
<1>6. CASE ~is_leaf(t, s.at)
  <2> DEFINE next == [task EXCEPT !.at = s.at]
  <2>1. r = [alg |-> t, kb |-> s.kb, task |-> next, done |-> FALSE, again |-> FALSE]
    BY <1>2, <1>6 DEF ComputedTransition, Outcome
  <2>2. /\ DOMAIN next = DOMAIN task /\ next.kind = task.kind /\ next.source = task.source
        /\ next.symbol = task.symbol /\ next.at = s.at
    BY <1>1 DEF TransitionFine
  <2> HIDE DEF next
  <2>3. TransitionFine(L, t, over, next)
    BY <1>1, <1>4, <2>2 DEF TransitionFine
  <2>4. ASSUME NEW Q, P \ {task} \subseteq Q, Q \subseteq P \cup {next}, next \in Q
        PROVE  Computing(L, t, over, Q)
    <3>1. \A p \in Q : TransitionFine(L, t, over, p)
      BY <1>1, <2>3, <2>4
    <3>2. ASSUME NEW n, NEW a, Awaits(P, n, a) PROVE Awaits(Q, n, a)
      <4>1. PICK p \in P : p.kind = "transition" /\ p.source = n /\ p.symbol = a
        BY <3>2 DEF Awaits
      <4>2. CASE p = task
        BY <2>2, <2>4, <4>1, <4>2 DEF Awaits
      <4>3. CASE p # task
        BY <2>4, <4>1, <4>3 DEF Awaits
      <4> QED BY <4>2, <4>3
    <3>3. TransitionsFine(L, t, over, Q)
      BY <3>2 DEF TransitionsFine, Computing
    <3> QED BY <3>1, <3>3 DEF Computing
  <2> HIDE DEF L
  <2> QED BY <1>4, <2>1, <2>4 DEF Computed, L, r
<1> QED BY <1>5, <1>6 DEF r

-----------------------------------------------------------------------------
(* A leaf is split.                                                          *)

\* A reference to the leaf becomes one to the inner node that takes its place.
Instead(n, old, inner) == IF n = old THEN inner ELSE n

\* The nodes of t and u, where old, a child of q, went below inner, next to new;
\* ans says on which side.
Replaced(t, u, task, ans, old, q, new, inner) ==
    /\ new = Len(t.node) + 1 /\ inner = Len(t.node) + 2
    /\ Sequence(u.node) /\ Len(u.node) = Len(t.node) + 2
    /\ \A n \in Nodes(t) \ {old, q} : u.node[n] = t.node[n]
    /\ DOMAIN u.node[q] = DOMAIN t.node[q]
    /\ u.node[q].leaf = t.node[q].leaf /\ u.node[q].label = t.node[q].label
    /\ u.node[q].level = t.node[q].level /\ u.node[q].parent = t.node[q].parent
    /\ u.node[q].left = Instead(t.node[q].left, old, inner)
    /\ u.node[q].right = Instead(t.node[q].right, old, inner)
    /\ DOMAIN u.node[old] = DOMAIN t.node[old]
    /\ u.node[old].leaf = t.node[old].leaf /\ u.node[old].label = t.node[old].label
    /\ u.node[old].id = t.node[old].id /\ u.node[old].accepting = t.node[old].accepting
    /\ u.node[old].transitions = t.node[old].transitions
    /\ u.node[old].level = t.node[old].level + 1 /\ u.node[old].parent = inner
    /\ u.node[old].incoming = {}
    /\ u.node[new] = leaf_node(task.leaf_label, t.node[old].level + 1, inner, t.leaf_node_count,
                               t.node[old].accepting, t.alphabet_size)
    /\ u.node[inner] = inner_node(task.inner_label, t.node[old].level, q,
                                  IF ans = Accept THEN old ELSE new, IF ans = Accept THEN new ELSE old)

\* What SplitAt adds to the tasks.
SplitTasks(t, old, new) ==
    LET todo == Redirected(t, old) \o [i \in 1..t.alphabet_size |-> <<new, i - 1>>]
    IN  [i \in DOMAIN todo |-> compute_transition_task(t, todo[i][1], todo[i][2])]

\* What a split makes of the learner.
IsSplit(t, u, task, ans, old) ==
    /\ TreeRecord(u) /\ u.root = t.root /\ u.initial_state = t.initial_state
    /\ u.initial_phase = t.initial_phase
    /\ u.alphabet_size = t.alphabet_size /\ u.leaf_node_count = t.leaf_node_count + 1
    /\ u.tasks = t.tasks \o SplitTasks(t, old, Len(t.node) + 1)
    /\ Replaced(t, u, task, ans, old, t.node[old].parent, Len(t.node) + 1, Len(t.node) + 2)

\* What splitting a leaf changes: the leaf turns into an inner node with two
\* leaves below it.
LEMMA SplitNodes ==
    ASSUME NEW t, NEW over, TreeFine(t, over), t.leaf_node_count \in Nat, NEW task, NEW ans,
           NEW old \in LeavesOf(t)
    PROVE  IsSplit(t, SplitAt(t, task, ans, old, Len(t.node) + 1, Len(t.node) + 2), task, ans, old)
<1> DEFINE new == Len(t.node) + 1
           inner == Len(t.node) + 2
           u == SplitAt(t, task, ans, old, new, inner)
           o == t.node[old]
           q == o.parent
           k3 == [t.node EXCEPT ![old] = Lowered(@, inner),
                                ![q].left = Instead(@, old, inner),
                                ![q].right = Instead(@, old, inner)]
           made == <<leaf_node(task.leaf_label, o.level + 1, inner, t.leaf_node_count,
                               o.accepting, t.alphabet_size),
                     inner_node(task.inner_label, o.level, q,
                                IF ans = Accept THEN old ELSE new,
                                IF ans = Accept THEN new ELSE old)>>
<1>1. Sequence(t.node) /\ Len(t.node) \in Nat /\ DOMAIN t.node = Nodes(t) /\ TreeRecord(t)
  BY SequenceFacts DEF TreeFine, Nodes
<1>2. /\ u.node = k3 \o made /\ u.root = t.root /\ u.initial_state = t.initial_state
      /\ u.initial_phase = t.initial_phase
      /\ u.alphabet_size = t.alphabet_size
      /\ u.leaf_node_count = t.leaf_node_count + 1
      /\ u.tasks = t.tasks \o SplitTasks(t, old, new)
      /\ DOMAIN u = DOMAIN t
  <2>1. u = [t EXCEPT !.node = k3 \o made, !.leaf_node_count = @ + 1,
                      !.tasks = @ \o SplitTasks(t, old, new)]
    BY DEF SplitAt, SplitTasks, Instead
  <2> HIDE DEF u, k3, made
  <2> QED BY <1>1, <2>1 DEF TreeRecord
<1>3. TreeRecord(u)
  <2> HIDE DEF u
  <2> QED BY <1>1, <1>2 DEF TreeRecord
<1>4. /\ old \in Nodes(t) /\ old # t.root /\ t.node[old].leaf /\ q \in Nodes(t) /\ q # old
      /\ LeafNode(t, t.node[old]) /\ InnerNode(t.node[q]) /\ ~t.node[q].leaf
  <2>1. old \in Nodes(t) /\ t.node[old].leaf /\ old # t.root
    BY DEF LeavesOf, TreeFine, InnerOf
  <2>2. Hangs(t, over, old)
    BY <2>1 DEF TreeFine
  <2>3. q \in InnerOf(t)
    BY ONLY <2>2 DEF Hangs
  <2>4. q \in Nodes(t) /\ ~t.node[q].leaf
    BY ONLY <2>3 DEF InnerOf
  <2> QED BY <2>1, <2>4 DEF TreeFine, NodeFine, LeafNode, InnerNode
<1>5. DOMAIN k3 = Nodes(t) /\ k3 = [n \in Nodes(t) |-> k3[n]]
  BY <1>1
<1>6. \A n \in Nodes(t) \ {old, q} : k3[n] = t.node[n]
  BY <1>1
<1>7. k3[old] = Lowered(t.node[old], inner)
  BY <1>1, <1>4
<1>8. k3[q] = [[t.node[q] EXCEPT !.left = Instead(t.node[q].left, old, inner)]
                    EXCEPT !.right = Instead(t.node[q].right, old, inner)]
  BY <1>1, <1>4 DEF InnerNode
<1> HIDE DEF k3
<1>9. Sequence(k3) /\ Len(k3) = Len(t.node)
  <2>1. k3 = [n \in 1..Len(t.node) |-> k3[n]]
    BY <1>5 DEF Nodes
  <2> QED BY <1>1, <2>1, FunctionToSequence
<1>10. Sequence(made) /\ Len(made) = 2 /\ made[1] = leaf_node(task.leaf_label, o.level + 1, inner,
                               t.leaf_node_count, o.accepting, t.alphabet_size)
       /\ made[2] = inner_node(task.inner_label, o.level, q, IF ans = Accept THEN old ELSE new,
                                                             IF ans = Accept THEN new ELSE old)
  <2>1. made = [i \in 1..2 |-> made[i]]
    OBVIOUS
  <2> QED BY <2>1, FunctionToSequence
<1> HIDE DEF made
<1>11. /\ Sequence(u.node) /\ Len(u.node) = Len(t.node) + 2
       /\ \A n \in Nodes(t) : u.node[n] = k3[n]
       /\ u.node[new] = made[1] /\ u.node[inner] = made[2]
  <2>1. /\ Sequence(k3 \o made) /\ Len(k3 \o made) = Len(t.node) + 2
        /\ \A i \in 1..Len(t.node) : (k3 \o made)[i] = k3[i]
        /\ \A i \in (Len(t.node) + 1)..(Len(t.node) + 2) : (k3 \o made)[i] = made[i - Len(t.node)]
    <3>1. /\ Sequence(k3 \o made) /\ Len(k3 \o made) = Len(k3) + Len(made)
          /\ \A i \in 1..Len(k3) : (k3 \o made)[i] = k3[i]
          /\ \A i \in (Len(k3) + 1)..(Len(k3) + Len(made)) : (k3 \o made)[i] = made[i - Len(k3)]
      BY <1>9, <1>10, ConcatFacts
    <3> QED BY <1>9, <1>10, <3>1
  <2>2. new \in (Len(t.node) + 1)..(Len(t.node) + 2) /\ inner \in (Len(t.node) + 1)..(Len(t.node) + 2)
        /\ new - Len(t.node) = 1 /\ inner - Len(t.node) = 2
    BY <1>1
  <2> HIDE DEF u
  <2> QED BY <1>2, <2>1, <2>2 DEF Nodes
<1> HIDE DEF u
<1>12. Replaced(t, u, task, ans, old, q, new, inner)
  <2>1. /\ DOMAIN u.node[q] = DOMAIN t.node[q]
        /\ u.node[q].leaf = t.node[q].leaf /\ u.node[q].label = t.node[q].label
        /\ u.node[q].level = t.node[q].level /\ u.node[q].parent = t.node[q].parent
        /\ u.node[q].left = Instead(t.node[q].left, old, inner)
        /\ u.node[q].right = Instead(t.node[q].right, old, inner)
    <3> DEFINE x == t.node[q]
               y == u.node[q]
    <3>1. y = [[x EXCEPT !.left = Instead(x.left, old, inner)]
                    EXCEPT !.right = Instead(x.right, old, inner)]
      BY <1>4, <1>8, <1>11
    <3>2. {"leaf", "label", "level", "parent", "left", "right"} \subseteq DOMAIN x
      BY <1>4 DEF InnerNode
    <3> HIDE DEF x, y
    <3>3. /\ DOMAIN y = DOMAIN x
          /\ y.leaf = x.leaf /\ y.label = x.label /\ y.level = x.level /\ y.parent = x.parent
          /\ y.left = Instead(x.left, old, inner) /\ y.right = Instead(x.right, old, inner)
      BY ONLY <3>1, <3>2
    <3> QED BY <3>3 DEF x, y
  <2>2. /\ DOMAIN u.node[old] = DOMAIN t.node[old]
        /\ u.node[old].leaf = t.node[old].leaf /\ u.node[old].label = t.node[old].label
        /\ u.node[old].id = t.node[old].id /\ u.node[old].accepting = t.node[old].accepting
        /\ u.node[old].transitions = t.node[old].transitions
        /\ u.node[old].level = t.node[old].level + 1 /\ u.node[old].parent = inner
        /\ u.node[old].incoming = {}
    <3> DEFINE x == t.node[old]
               y == u.node[old]
    <3>1. y = Lowered(x, inner)
      BY <1>4, <1>7, <1>11
    <3>2. {"leaf", "label", "level", "parent", "id", "accepting", "incoming", "transitions"}
             \subseteq DOMAIN x
      BY <1>4 DEF LeafNode
    <3> HIDE DEF x, y
    <3>3. /\ DOMAIN y = DOMAIN x /\ y.leaf = x.leaf /\ y.label = x.label /\ y.id = x.id
          /\ y.accepting = x.accepting /\ y.transitions = x.transitions
          /\ y.level = x.level + 1 /\ y.parent = inner /\ y.incoming = {}
      BY ONLY <3>1, <3>2 DEF Lowered
    <3> QED BY <3>3 DEF x, y
  <2>3. \A n \in Nodes(t) \ {old, q} : u.node[n] = t.node[n]
    BY <1>6, <1>11
  <2> QED BY <1>10, <1>11, <2>1, <2>2, <2>3 DEF Replaced
<1> QED BY <1>2, <1>3, <1>12 DEF u, IsSplit

\* The lines of the new tree.
SplitOver(t, over, old, new, inner) ==
    [n \in 1..inner |-> IF n \in {old, new} THEN over[old] \cup {inner}
                        ELSE IF n = inner THEN over[old] ELSE over[n]]

\* The tree t, and u, in which its leaf old was split.
WasSplit(t, over, u, over2, task, ans, old, q, new, inner) ==
    /\ TreeFine(t, over) /\ old \in LeavesOf(t) /\ q = t.node[old].parent
    /\ task.leaf_label \in Words(t) /\ task.inner_label \in Words(t)
    /\ TreeRecord(u) /\ u.root = t.root /\ u.initial_state = t.initial_state
    /\ u.initial_phase = t.initial_phase
    /\ u.alphabet_size = t.alphabet_size /\ t.leaf_node_count \in Nat
    /\ Replaced(t, u, task, ans, old, q, new, inner)
    /\ over2 = SplitOver(t, over, old, new, inner)

(***************************************************************************)
(* Where the nodes of the new tree are, and what is above them.            *)
(***************************************************************************)
LEMMA SplitFacts ==
    ASSUME NEW t, NEW over, NEW u, NEW over2, NEW task, NEW ans, NEW old, NEW q, NEW new, NEW inner,
           WasSplit(t, over, u, over2, task, ans, old, q, new, inner)
    PROVE  /\ Len(t.node) \in Nat /\ new \notin Nodes(t) /\ inner \notin Nodes(t) /\ new # inner
           /\ Nodes(u) = Nodes(t) \cup {new, inner}
           /\ old \in Nodes(t) /\ t.node[old].leaf /\ old # t.root
           /\ q \in InnerOf(t) /\ q \in Nodes(t) /\ q # old /\ ~t.node[q].leaf
           /\ t.root \in Nodes(t) /\ ~t.node[t.root].leaf
           /\ over2[old] = over[old] \cup {inner} /\ over2[new] = over[old] \cup {inner}
           /\ over2[inner] = over[old]
           /\ \A n \in Nodes(t) \ {old} : over2[n] = over[n]
           /\ over[old] = over[q] \cup {q}
           /\ \A n \in Nodes(t) : over[n] \subseteq InnerOf(t)
           /\ \A n \in InnerOf(t) : n \in Nodes(t) /\ n # old /\ n # new /\ n # inner /\ ~t.node[n].leaf
           /\ LeavesOf(u) = LeavesOf(t) \cup {new} /\ InnerOf(u) = InnerOf(t) \cup {inner}
           /\ Letters(u) = Letters(t) /\ Words(u) = Words(t)
<1>0. /\ TreeFine(t, over) /\ old \in LeavesOf(t) /\ q = t.node[old].parent
      /\ Replaced(t, u, task, ans, old, q, new, inner)
      /\ over2 = SplitOver(t, over, old, new, inner)
      /\ u.alphabet_size = t.alphabet_size
  BY DEF WasSplit
<1>1. Len(t.node) \in Nat
  BY <1>0, SequenceFacts DEF TreeFine
<1>2. new = Len(t.node) + 1 /\ inner = Len(t.node) + 2 /\ Len(u.node) = Len(t.node) + 2
  BY <1>0 DEF Replaced
<1>3. /\ new \notin Nodes(t) /\ inner \notin Nodes(t) /\ new # inner
      /\ Nodes(u) = Nodes(t) \cup {new, inner} /\ 1..inner = Nodes(t) \cup {new, inner}
  <2>1. \A k \in Nat : /\ 1..(k + 2) = (1..k) \cup {k + 1, k + 2}
                        /\ k + 1 \notin 1..k /\ k + 2 \notin 1..k /\ k + 1 # k + 2
    OBVIOUS
  <2> QED BY ONLY <1>1, <1>2, <2>1 DEF Nodes
<1>4. old \in Nodes(t) /\ t.node[old].leaf /\ old # t.root /\ t.root \in Nodes(t) /\ ~t.node[t.root].leaf
  BY <1>0 DEF LeavesOf, TreeFine, InnerOf
<1>5. Hangs(t, over, old)
  BY <1>0, <1>4 DEF TreeFine
<1>6. q \in InnerOf(t) /\ q \in Nodes(t) /\ q # old /\ ~t.node[q].leaf /\ over[old] = over[q] \cup {q}
  BY <1>0, <1>4, <1>5 DEF Hangs, InnerOf
<1>7. \A n \in Nodes(t) : over[n] \subseteq InnerOf(t)
  BY <1>0 DEF TreeFine, Chain
<1>8. \A n \in InnerOf(t) : n \in Nodes(t) /\ n # old /\ n # new /\ n # inner /\ ~t.node[n].leaf
  BY <1>3, <1>4 DEF InnerOf
<1>9. /\ over2[old] = over[old] \cup {inner} /\ over2[new] = over[old] \cup {inner}
      /\ over2[inner] = over[old] /\ \A n \in Nodes(t) \ {old} : over2[n] = over[n]
  BY <1>0, <1>3, <1>4 DEF SplitOver
<1>10. \A n \in Nodes(t) : u.node[n].leaf = t.node[n].leaf
  <2>1. Replaced(t, u, task, ans, old, q, new, inner)
    BY <1>0
  <2>2. /\ \A n \in Nodes(t) \ {old, q} : u.node[n] = t.node[n]
        /\ u.node[q].leaf = t.node[q].leaf /\ u.node[old].leaf = t.node[old].leaf
    BY ONLY <2>1 DEF Replaced
  <2> QED BY ONLY <2>2
<1>11. u.node[new].leaf = TRUE /\ u.node[inner].leaf = FALSE
  BY <1>0 DEF Replaced, leaf_node, inner_node
<1>12. LeavesOf(u) = LeavesOf(t) \cup {new} /\ InnerOf(u) = InnerOf(t) \cup {inner}
  BY <1>3, <1>10, <1>11 DEF LeavesOf, InnerOf
<1>13. Letters(u) = Letters(t) /\ Words(u) = Words(t)
  <2>1. u.alphabet_size = t.alphabet_size
    BY <1>0
  <2> QED BY ONLY <2>1 DEF Letters, Words
<1> QED BY <1>1, <1>3, <1>4, <1>6, <1>7, <1>8, <1>9, <1>12, <1>13

\* What the split leaves of the node n that was there before.
LEMMA SplitKeeps ==
    ASSUME NEW t, NEW over, NEW u, NEW over2, NEW task, NEW ans, NEW old, NEW q, NEW new, NEW inner,
           WasSplit(t, over, u, over2, task, ans, old, q, new, inner)
    PROVE  /\ \A n \in Nodes(t) : /\ u.node[n].leaf = t.node[n].leaf /\ u.node[n].label = t.node[n].label
                                  /\ DOMAIN u.node[n] = DOMAIN t.node[n]
                                  /\ t.node[n].leaf => /\ u.node[n].accepting = t.node[n].accepting
                                                       /\ u.node[n].id = t.node[n].id
                                                       /\ u.node[n].transitions = t.node[n].transitions
           /\ \A n \in Nodes(t) \ {old} : /\ u.node[n].level = t.node[n].level
                                          /\ u.node[n].parent = t.node[n].parent
                                          /\ t.node[n].leaf => u.node[n].incoming = t.node[n].incoming
           /\ \A n \in InnerOf(t) : /\ u.node[n].left = Instead(t.node[n].left, old, inner)
                                    /\ u.node[n].right = Instead(t.node[n].right, old, inner)
           /\ \A n \in InnerOf(t) : (t.node[n].left = old \/ t.node[n].right = old) => n = q
<1>0. /\ TreeFine(t, over) /\ Replaced(t, u, task, ans, old, q, new, inner) /\ q = t.node[old].parent
  BY DEF WasSplit
<1>1. old # q /\ old \in Nodes(t) /\ t.node[old].leaf /\ ~t.node[q].leaf
  BY SplitFacts
<1>2. \A n \in InnerOf(t) : n \in Nodes(t) /\ n # old
  BY SplitFacts
<1>3. \A n \in InnerOf(t) : (t.node[n].left = old \/ t.node[n].right = old) => n = q
  BY <1>0 DEF TreeFine, Parent
<1>4. ASSUME NEW n \in InnerOf(t)
      PROVE  /\ u.node[n].left = Instead(t.node[n].left, old, inner)
             /\ u.node[n].right = Instead(t.node[n].right, old, inner)
  <2>1. CASE n = q
    BY <1>0, <2>1 DEF Replaced
  <2>2. CASE n # q
    <3>1. u.node[n] = t.node[n]
      BY <1>0, <1>2, <2>2 DEF Replaced
    <3> QED BY <1>3, <2>2, <3>1 DEF Instead
  <2> QED BY <2>1, <2>2
<1>5. Replaced(t, u, task, ans, old, q, new, inner)
  BY <1>0
<1>6. \A n \in Nodes(t) \ {old, q} : u.node[n] = t.node[n]
  BY ONLY <1>5 DEF Replaced
<1>7. /\ u.node[q].leaf = t.node[q].leaf /\ u.node[q].label = t.node[q].label
      /\ DOMAIN u.node[q] = DOMAIN t.node[q]
      /\ u.node[q].level = t.node[q].level /\ u.node[q].parent = t.node[q].parent
  BY ONLY <1>5 DEF Replaced
<1>8. /\ u.node[old].leaf = t.node[old].leaf /\ u.node[old].label = t.node[old].label
      /\ DOMAIN u.node[old] = DOMAIN t.node[old]
      /\ u.node[old].accepting = t.node[old].accepting /\ u.node[old].id = t.node[old].id
      /\ u.node[old].transitions = t.node[old].transitions
  BY ONLY <1>5 DEF Replaced
<1> QED BY ONLY <1>1, <1>3, <1>4, <1>6, <1>7, <1>8

(***************************************************************************)
(* A split leaves the words where they are, except those of the old leaf,  *)
(* which the new inner node tells apart.                                   *)
(***************************************************************************)
LEMMA SplitPaths ==
    ASSUME NEW t, NEW over, NEW u, NEW over2, NEW task, NEW ans, NEW old, NEW q, NEW new, NEW inner,
           WasSplit(t, over, u, over2, task, ans, old, q, new, inner), NEW L, NEW w
    PROVE  /\ \A n \in Nodes(t) \ {old} : OnPath(L, u, over2, n, w) <=> OnPath(L, t, over, n, w)
           /\ OnPath(L, u, over2, inner, w) <=> OnPath(L, t, over, old, w)
           /\ \A n \in {old, new} : OnPath(L, u, over2, n, w)
                    <=> OnPath(L, t, over, old, w) /\ Child(L, u, inner, w) = n
<1>1. /\ new \notin Nodes(t) /\ inner \notin Nodes(t) /\ new # inner /\ old \in Nodes(t) /\ q # old
      /\ over2[old] = over[old] \cup {inner} /\ over2[new] = over[old] \cup {inner}
      /\ over2[inner] = over[old]
      /\ \A n \in Nodes(t) \ {old} : over2[n] = over[n]
      /\ \A n \in Nodes(t) : over[n] \subseteq InnerOf(t)
      /\ \A n \in InnerOf(t) : n \in Nodes(t) /\ n # old /\ n # new /\ n # inner /\ ~t.node[n].leaf
  BY SplitFacts
<1>2. \A n \in InnerOf(t) : Child(L, u, n, w) = Instead(Child(L, t, n, w), old, inner)
  BY <1>1, SplitKeeps DEF Child
<1>3. ASSUME NEW n \in Nodes(t) \ {old}
      PROVE  OnPath(L, u, over2, n, w) <=> OnPath(L, t, over, n, w)
  <2>1. old \notin Line(over, n) /\ inner \notin Line(over, n) /\ Line(over2, n) = Line(over, n)
    BY <1>1 DEF Line
  <2>2. \A a \in over[n] : Child(L, u, a, w) \in Line(over2, n) <=> Child(L, t, a, w) \in Line(over, n)
    BY <1>1, <1>2, <2>1 DEF Instead
  <2> QED BY <1>1, <2>2 DEF OnPath
<1>4. \A a \in over[old] : Child(L, u, a, w) \in over[old] \cup {inner} <=> Child(L, t, a, w) \in Line(over, old)
  <2>1. inner \notin over[old] /\ old \notin over[old] /\ inner # old
    BY <1>1
  <2>2. \A a \in over[old] : Child(L, u, a, w) = Instead(Child(L, t, a, w), old, inner)
    BY <1>1, <1>2
  <2>3. \A a \in over[old] : Child(L, t, a, w) # inner
    <3>1. TreeFine(t, over)
      BY DEF WasSplit
    <3>2. ASSUME NEW a \in over[old] PROVE Child(L, t, a, w) \in Nodes(t)
      <4>1. a \in InnerOf(t)
        BY <1>1
      <4>2. Below(t, over, a, t.node[a].left) /\ Below(t, over, a, t.node[a].right)
        BY <3>1, <4>1, Children
      <4> QED BY <4>2 DEF Below, Child
    <3> QED BY <1>1, <3>2
  <2> QED BY <2>1, <2>2, <2>3 DEF Instead, Line
<1>5. OnPath(L, u, over2, inner, w) <=> OnPath(L, t, over, old, w)
  BY <1>1, <1>4 DEF OnPath, Line
<1>6. ASSUME NEW n \in {old, new}
      PROVE  OnPath(L, u, over2, n, w) <=> OnPath(L, t, over, old, w) /\ Child(L, u, inner, w) = n
  <2>1. over2[n] = over[old] \cup {inner} /\ n \notin over[old] /\ n # inner /\ inner \notin over[old]
    BY <1>1
  <2>2. Child(L, u, inner, w) \in {old, new}
    BY DEF WasSplit, Replaced, inner_node, Child
  <2>3. Child(L, u, inner, w) \in Line(over2, n) <=> Child(L, u, inner, w) = n
    BY <1>1, <2>1, <2>2 DEF Line
  <2>4. \A a \in over[old] : Child(L, u, a, w) \in Line(over2, n) <=> Child(L, t, a, w) \in Line(over, old)
    <3>1. ASSUME NEW a \in over[old] PROVE Child(L, u, a, w) # n
      <4>1. TreeFine(t, over) /\ a \in InnerOf(t)
        BY <1>1 DEF WasSplit
      <4>2. Below(t, over, a, t.node[a].left) /\ Below(t, over, a, t.node[a].right)
        BY <4>1, Children
      <4>3. Child(L, t, a, w) \in Nodes(t)
        BY <4>2 DEF Below, Child
      <4> QED BY <1>1, <1>2, <4>1, <4>3 DEF Instead
    <3> QED BY <1>4, <2>1, <3>1 DEF Line
  <2> QED BY <2>1, <2>3, <2>4 DEF OnPath
<1> QED BY <1>3, <1>5, <1>6

(***************************************************************************)
(* The new nodes are a tree.                                               *)
(***************************************************************************)
LEMMA SplitTree ==
    ASSUME NEW t, NEW over, NEW u, NEW over2, NEW task, NEW ans, NEW old, NEW q, NEW new, NEW inner,
           WasSplit(t, over, u, over2, task, ans, old, q, new, inner)
    PROVE  TreeFine(u, over2)
<1>0. /\ TreeFine(t, over) /\ TreeRecord(u) /\ u.root = t.root /\ q = t.node[old].parent
      /\ u.alphabet_size = t.alphabet_size
      /\ task.leaf_label \in Words(t) /\ task.inner_label \in Words(t)
      /\ Sequence(u.node) /\ Len(u.node) = Len(t.node) + 2
      /\ u.node[old].level = t.node[old].level + 1 /\ u.node[old].parent = inner
      /\ u.node[new] = leaf_node(task.leaf_label, t.node[old].level + 1, inner, t.leaf_node_count,
                               t.node[old].accepting, t.alphabet_size)
      /\ u.node[inner] = inner_node(task.inner_label, t.node[old].level, q,
                                  IF ans = Accept THEN old ELSE new, IF ans = Accept THEN new ELSE old)
  BY DEF WasSplit, Replaced
<1>1. /\ Len(t.node) \in Nat /\ new \notin Nodes(t) /\ inner \notin Nodes(t) /\ new # inner
      /\ Nodes(u) = Nodes(t) \cup {new, inner}
      /\ old \in Nodes(t) /\ t.node[old].leaf /\ old # t.root
      /\ q \in InnerOf(t) /\ q \in Nodes(t) /\ q # old /\ ~t.node[q].leaf
      /\ t.root \in Nodes(t)
      /\ over2[old] = over[old] \cup {inner} /\ over2[new] = over[old] \cup {inner}
      /\ over2[inner] = over[old]
      /\ \A n \in Nodes(t) \ {old} : over2[n] = over[n]
      /\ over[old] = over[q] \cup {q}
      /\ \A n \in Nodes(t) : over[n] \subseteq InnerOf(t)
      /\ \A n \in InnerOf(t) : n \in Nodes(t) /\ n # old /\ n # new /\ n # inner /\ ~t.node[n].leaf
      /\ LeavesOf(u) = LeavesOf(t) \cup {new} /\ InnerOf(u) = InnerOf(t) \cup {inner}
      /\ Letters(u) = Letters(t) /\ Words(u) = Words(t)
  BY SplitFacts
<1>2. /\ \A n \in Nodes(t) : u.node[n].leaf = t.node[n].leaf /\ u.node[n].label = t.node[n].label
                              /\ DOMAIN u.node[n] = DOMAIN t.node[n]
      /\ \A n \in Nodes(t) \ {old} : u.node[n].level = t.node[n].level
                                      /\ u.node[n].parent = t.node[n].parent
      /\ \A n \in InnerOf(t) : /\ u.node[n].left = Instead(t.node[n].left, old, inner)
                               /\ u.node[n].right = Instead(t.node[n].right, old, inner)
      /\ \A n \in InnerOf(t) : (t.node[n].left = old \/ t.node[n].right = old) => n = q
  BY SplitKeeps
<1>3. /\ u.node[new].leaf = TRUE /\ u.node[new].level = t.node[old].level + 1
      /\ u.node[new].parent = inner
      /\ u.node[inner].leaf = FALSE /\ u.node[inner].level = t.node[old].level
      /\ u.node[inner].parent = q
      /\ u.node[inner].left = (IF ans = Accept THEN old ELSE new) /\ u.node[inner].right = (IF ans = Accept THEN new ELSE old)
  BY <1>0 DEF leaf_node, inner_node
<1>4. \A n \in Nodes(t) : t.node[n].level \in Nat /\ t.node[n].level < Len(t.node)
  BY <1>0 DEF TreeFine, NodeFine, Chain
<1>5. ASSUME NEW n \in Nodes(u) PROVE NodeFine(u, u.node[n])
  <2>1. CASE n \in Nodes(t)
    <3>1. NodeFine(t, t.node[n])
      BY <1>0, <2>1 DEF TreeFine
    <3>2. u.node[n].level \in Nat
      <4>1. t.node[n].level \in Nat
        BY <1>4, <2>1
      <4>2. CASE n = old
        <5>1. u.node[n].level = t.node[n].level + 1
          BY <1>0, <4>2
        <5> QED BY ONLY <4>1, <5>1
      <4>3. CASE n # old
        <5>1. u.node[n].level = t.node[n].level
          BY <1>2, <2>1, <4>3
        <5> QED BY ONLY <4>1, <5>1
      <4> QED BY <4>2, <4>3
    <3>3. CASE t.node[n].leaf
      <4>1. LeafNode(t, t.node[n])
        BY <3>1, <3>3 DEF NodeFine, InnerNode
      <4>2. /\ u.node[n].accepting = t.node[n].accepting /\ u.node[n].id = t.node[n].id
            /\ u.node[n].transitions = t.node[n].transitions
        BY <2>1, <3>3, SplitKeeps
      <4> QED BY <1>1, <1>2, <2>1, <3>1, <3>2, <4>1, <4>2 DEF NodeFine, LeafNode
    <3>4. CASE ~t.node[n].leaf
      <4>1. InnerNode(t.node[n])
        BY <3>1, <3>4 DEF NodeFine, LeafNode
      <4> QED BY <1>1, <1>2, <2>1, <3>1, <3>2, <4>1 DEF NodeFine, InnerNode
    <3> QED BY <3>3, <3>4
  <2>2. CASE n = new
    <3>1. t.leaf_node_count \in Nat
      BY DEF WasSplit
    <3>2. t.node[old].accepting \in BOOLEAN
      BY <1>0, <1>1 DEF TreeFine, NodeFine, LeafNode, InnerNode
    <3>3. LeafNode(u, u.node[new])
      BY <1>0, <1>1, <3>1, <3>2 DEF LeafNode, leaf_node, Letters
    <3>4. u.node[new].label = task.leaf_label /\ u.node[new].level = t.node[old].level + 1
      BY <1>0 DEF leaf_node
    <3>5. u.node[new].label \in Words(u)
      BY <1>0, <1>1, <3>4
    <3>6. u.node[new].level \in Nat
      BY <1>1, <1>4, <3>4
    <3> QED BY ONLY <2>2, <3>3, <3>5, <3>6 DEF NodeFine
  <2>3. CASE n = inner
    <3>1. InnerNode(u.node[n]) /\ u.node[n].label = task.inner_label
          /\ u.node[n].level = t.node[old].level
      BY <1>0, <2>3 DEF InnerNode, inner_node
    <3>2. u.node[n].label \in Words(u) /\ u.node[n].level \in Nat
      BY <1>0, <1>1, <1>4, <3>1
    <3> QED BY ONLY <3>1, <3>2 DEF NodeFine
  <2> QED BY <1>1, <2>1, <2>2, <2>3
<1>6. ASSUME NEW n \in Nodes(u) \ {u.root} PROVE Hangs(u, over2, n)
  <2>0. Hangs(t, over, old)
    BY <1>0, <1>1 DEF TreeFine
  <2>1. CASE n \in Nodes(t) /\ n # old
    <3>1. Hangs(t, over, n)
      BY <1>0, <2>1 DEF TreeFine
    <3> DEFINE p == t.node[n].parent
    <3>2. p \in InnerOf(t) /\ p \in Nodes(t) /\ p # old
      BY <1>1, <3>1 DEF Hangs
    <3>3. u.node[n].parent = p /\ u.node[p].level = t.node[p].level
          /\ over2[p] = over[p] /\ over2[n] = over[n] /\ p \in InnerOf(u)
      BY <1>1, <1>2, <2>1, <3>2
    <3>4. n \in {u.node[p].left, u.node[p].right}
      <4>1. n \in {t.node[p].left, t.node[p].right}
        BY <3>1 DEF Hangs
      <4>2. /\ u.node[p].left = Instead(t.node[p].left, old, inner)
            /\ u.node[p].right = Instead(t.node[p].right, old, inner)
        BY <1>2, <3>2
      <4> HIDE DEF p
      <4> QED BY ONLY <2>1, <4>1, <4>2 DEF Instead
    <3> QED BY <1>0, <1>2, <2>1, <3>1, <3>3, <3>4 DEF Hangs
  <2>2. CASE n \in {old, new}
    <3>1. u.node[n].parent = inner /\ u.node[n].level = u.node[inner].level + 1
      BY <1>0, <1>3, <2>2
    <3>2. n \in {u.node[inner].left, u.node[inner].right}
      BY <1>3, <2>2
    <3>3. over2[n] = over2[inner] \cup {inner} /\ inner \in InnerOf(u)
      BY <1>1, <2>2
    <3>4. u.root \in over2[n]
      <4>1. u.root \in over[old]
        BY <1>0, <2>0 DEF Hangs
      <4> QED BY <1>1, <2>2, <4>1
    <3> QED BY ONLY <3>1, <3>2, <3>3, <3>4 DEF Hangs
  <2>3. CASE n = inner
    <3>1. over2[inner] = over[q] \cup {q} /\ over2[q] = over[q] /\ u.node[q].level = t.node[q].level
      BY <1>1, <1>2
    <3>2. inner \in {u.node[q].left, u.node[q].right}
      <4>1. old \in {t.node[q].left, t.node[q].right}
        BY <1>0, <2>0 DEF Hangs
      <4>2. /\ u.node[q].left = Instead(t.node[q].left, old, inner)
            /\ u.node[q].right = Instead(t.node[q].right, old, inner)
        BY <1>1, <1>2
      <4> QED BY ONLY <4>1, <4>2 DEF Instead
    <3>3. u.node[inner].level = u.node[q].level + 1 /\ u.root \in over2[inner]
      BY <1>0, <1>1, <1>3, <2>0, <3>1 DEF Hangs
    <3> QED BY <1>1, <1>3, <2>3, <3>1, <3>2, <3>3 DEF Hangs
  <2> QED BY <1>1, <2>1, <2>2, <2>3
<1>7. ASSUME NEW n \in InnerOf(u) PROVE Parent(u, n)
  <2>1. CASE n = inner
    <3>1. {u.node[inner].left, u.node[inner].right} = {old, new} /\ old # new
      BY <1>1, <1>3
    <3>2. old \in Nodes(u) \ {u.root} /\ new \in Nodes(u) \ {u.root}
      BY <1>0, <1>1
    <3>3. u.node[old].parent = inner /\ u.node[new].parent = inner
      BY <1>0, <1>3
    <3>4. u.node[inner].left # u.node[inner].right
      BY <1>1, <1>3
    <3> QED BY ONLY <2>1, <3>1, <3>2, <3>3, <3>4 DEF Parent
  <2>2. CASE n \in InnerOf(t)
    <3>1. Parent(t, n)
      BY <1>0, <2>2 DEF TreeFine
    <3>2. u.node[n].left # u.node[n].right
      BY <1>1, <1>2, <2>2, <3>1 DEF Parent, Instead
    <3>3. ASSUME NEW c \in {t.node[n].left, t.node[n].right}
          PROVE  /\ Instead(c, old, inner) \in Nodes(u) \ {u.root}
                 /\ u.node[Instead(c, old, inner)].parent = n
      <4>1. CASE c = old
        <5>1. Instead(c, old, inner) = inner
          BY ONLY <4>1 DEF Instead
        <5>2. n = q
          BY <1>2, <2>2, <3>3, <4>1
        <5> QED BY <1>0, <1>1, <1>3, <5>1, <5>2
      <4>2. CASE c # old
        <5>1. Instead(c, old, inner) = c
          BY ONLY <4>2 DEF Instead
        <5>2. c \in Nodes(t) \ {t.root} /\ t.node[c].parent = n
          BY <3>1, <3>3 DEF Parent
        <5>3. u.node[c].parent = n
          BY <1>2, <4>2, <5>2
        <5> QED BY <1>0, <1>1, <5>1, <5>2, <5>3
      <4> QED BY <4>1, <4>2
    <3> QED BY <1>2, <2>2, <3>2, <3>3 DEF Parent
  <2> QED BY <1>1, <2>1, <2>2
<1>8. ASSUME NEW n \in Nodes(u) PROVE Chain(u, over2, n)
  <2>a. \A a \in InnerOf(t) : a \in Nodes(t) /\ a # old /\ u.node[a].level = t.node[a].level /\ over2[a] = over[a]
    BY <1>1, <1>2
  <2>0. Chain(t, over, old)
    BY <1>0, <1>1 DEF TreeFine
  <2>b. \A a \in over[old] : u.node[a].left \in over[old] \cup {inner} \/ u.node[a].right \in over[old] \cup {inner}
    BY <1>1, <1>2, <2>0 DEF Chain, Line, Instead
  <2>1. CASE n \in Nodes(t) /\ n # old
    <3>1. Chain(t, over, n) /\ over2[n] = over[n] /\ u.node[n].level = t.node[n].level
      BY <1>0, <1>1, <1>2, <2>1 DEF TreeFine
    <3>2. over[n] \subseteq InnerOf(t) /\ old \notin Line(over, n)
      BY <1>1, <2>1 DEF Line
    <3>3. \A a \in over2[n] : u.node[a].left \in Line(over2, n) \/ u.node[a].right \in Line(over2, n)
      BY <1>2, <3>1, <3>2 DEF Chain, Instead, Line
    <3>4. u.node[n].level < Len(u.node)
      <4>1. t.node[n].level \in Nat /\ t.node[n].level < Len(t.node)
        BY <1>4, <2>1
      <4>2. Len(u.node) = Len(t.node) + 2 /\ Len(t.node) \in Nat
        BY <1>0, <1>1
      <4> QED BY ONLY <3>1, <4>1, <4>2
    <3> QED BY <1>1, <2>a, <3>1, <3>2, <3>3, <3>4 DEF Chain
  <2>2. CASE n = inner
    <3>1. \A a \in over2[n] : u.node[a].left \in Line(over2, n) \/ u.node[a].right \in Line(over2, n)
      BY <1>1, <2>b, <2>2 DEF Line
    <3>2. u.node[n].level < Len(u.node)
      BY <1>0, <1>1, <1>3, <1>4, <2>2
    <3>3. over2[n] = over[old] /\ u.node[n].level = t.node[old].level
          /\ over2[n] \subseteq InnerOf(t) /\ over2[n] \subseteq InnerOf(u)
      BY <1>1, <1>3, <2>2
    <3>4. \A a \in over2[n] : u.node[a].level < u.node[n].level
      BY <2>a, <2>0, <3>3 DEF Chain
    <3>5. \A a, d \in over2[n] : u.node[a].level = u.node[d].level => a = d
      BY <2>a, <2>0, <3>3 DEF Chain
    <3>6. \A a \in over2[n] : over2[a] \subseteq over2[n]
      BY <2>a, <2>0, <3>3 DEF Chain
    <3> QED BY ONLY <3>1, <3>2, <3>3, <3>4, <3>5, <3>6 DEF Chain
  <2>3. CASE n \in {old, new}
    <3>0. over2[n] = over[old] \cup {inner} /\ u.node[n].level = t.node[old].level + 1
      BY <1>0, <1>1, <1>3, <2>3
    <3>1. \A a \in over2[n] : u.node[a].left \in Line(over2, n) \/ u.node[a].right \in Line(over2, n)
      <4>1. u.node[inner].left \in Line(over2, n) \/ u.node[inner].right \in Line(over2, n)
        BY <1>3, <2>3 DEF Line
      <4> QED BY <2>b, <3>0, <4>1 DEF Line
    <3>2. u.node[n].level < Len(u.node)
      BY <1>0, <1>1, <1>4, <3>0
    <3>3. over2[n] \subseteq InnerOf(u)
      BY <1>1, <3>0
    <3>4. \A a \in over[old] : u.node[a].level = t.node[a].level /\ t.node[a].level \in Nat
                                /\ t.node[a].level < t.node[old].level
      BY <1>1, <1>4, <2>a, <2>0 DEF Chain
    <3>5. \A a \in over2[n] : u.node[a].level < u.node[n].level
      <4>1. t.node[old].level \in Nat /\ u.node[inner].level = t.node[old].level
        BY <1>1, <1>3, <1>4
      <4>2. \A c, d \in Nat : c < d \/ c = d => c < d + 1
        OBVIOUS
      <4> QED BY ONLY <3>0, <3>4, <4>1, <4>2
    <3>6. \A a, d \in over2[n] : u.node[a].level = u.node[d].level => a = d
      BY <1>1, <1>3, <1>4, <2>0, <3>0, <3>4 DEF Chain
    <3>7. \A a \in over2[n] : over2[a] \subseteq over2[n]
      <4>1. \A a \in over[old] : over2[a] \subseteq over[old]
        BY <1>1, <2>a, <2>0 DEF Chain
      <4> QED BY <1>1, <3>0, <4>1
    <3> QED BY <3>1, <3>2, <3>3, <3>5, <3>6, <3>7 DEF Chain
  <2> QED BY <1>1, <2>1, <2>2, <2>3
<1>9. /\ t.root \in InnerOf(t) /\ over[t.root] = {} /\ t.node[t.root].label = <<>>
      /\ t.node[t.root].level = 0
  BY <1>0 DEF TreeFine
<1>10. /\ u.root \in InnerOf(u) /\ over2[u.root] = {} /\ u.node[u.root].label = <<>>
       /\ u.node[u.root].level = 0
  <2>1. u.root = t.root /\ t.root \in Nodes(t) /\ t.root # old
    BY <1>0, <1>1
  <2>2. u.node[t.root].label = t.node[t.root].label /\ u.node[t.root].level = t.node[t.root].level
    BY <1>2, <2>1
  <2>3. over2[t.root] = over[t.root] /\ t.root \in InnerOf(u)
    BY <1>1, <1>9, <2>1
  <2> QED BY ONLY <1>9, <2>1, <2>2, <2>3
<1> QED BY <1>0, <1>5, <1>6, <1>7, <1>8, <1>10 DEF TreeFine

\* The list of all transitions, and of those that are redirected.
LEMMA TransitionsFacts ==
    ASSUME NEW t, Sequence(t.node), t.alphabet_size \in Nat, NEW old
    PROVE  /\ Sequence(Redirected(t, old))
           /\ Range(Redirected(t, old)) \subseteq t.node[old].incoming \X Letters(t)
           /\ \A n \in Nodes(t) \cap t.node[old].incoming : \A a \in Letters(t) :
                 t.node[n].transitions[a] = old => <<n, a>> \in Range(Redirected(t, old))
<1> DEFINE k == t.alphabet_size
           row(n) == [a \in 1..k |-> <<n, a - 1>>]
           rows == [n \in 1..Len(t.node) |-> row(n)]
           S == {p \in t.node[old].incoming \X (0..(k - 1)) : t.node[p[1]].transitions[p[2]] = old}
           all == Transitions(t)
<1>1. Len(t.node) \in Nat
  BY SequenceFacts
<1>2. ASSUME NEW n PROVE Sequence(row(n)) /\ Range(row(n)) = {<<n, a - 1>> : a \in 1..k}
  <2>1. row(n) = [a \in 1..k |-> row(n)[a]]
    OBVIOUS
  <2>2. Sequence(row(n)) /\ Range(row(n)) = {row(n)[a] : a \in 1..k}
    <3> HIDE DEF row
    <3> QED BY <2>1, FunctionToSequence
  <2> QED BY <2>2
<1>3. all = Concatenated(rows)
  BY DEF Transitions, Concatenated
<1>4. Sequence(all) /\ \A n \in 1..Len(t.node) : Range(rows[n]) \subseteq Range(all)
  <2>1. DOMAIN rows = 1..Len(t.node) /\ \A n \in 1..Len(t.node) : Sequence(rows[n])
    BY <1>2
  <2> HIDE DEF rows
  <2> QED BY <1>1, <1>3, <2>1, ConcatenatedFacts
<1>5. ASSUME NEW n \in Nodes(t), NEW a \in Letters(t) PROVE <<n, a>> \in Range(all)
  <2>1. a + 1 \in 1..k /\ (a + 1) - 1 = a
    BY DEF Letters
  <2>2. <<n, a>> \in Range(row(n))
    <3>1. Range(row(n)) = {<<n, b - 1>> : b \in 1..k}
      BY <1>2
    <3> HIDE DEF row
    <3> QED BY ONLY <2>1, <3>1
  <2>3. rows[n] = row(n) /\ n \in 1..Len(t.node)
    BY DEF Nodes
  <2> HIDE DEF rows, row
  <2> QED BY <1>4, <2>2, <2>3
<1>6. Redirected(t, old) = OnlyIn(all, S)
  BY DEF Redirected
<1> HIDE DEF all, S
<1>7. Sequence(Redirected(t, old)) /\ Range(Redirected(t, old)) = Range(all) \cap S
  BY <1>4, <1>6, KeptFacts
<1>8. \A n \in t.node[old].incoming : \A a \in Letters(t) :
         t.node[n].transitions[a] = old => <<n, a>> \in S
  BY DEF S, Letters
<1>9. S \subseteq t.node[old].incoming \X Letters(t)
  BY DEF S, Letters
<1> QED BY <1>5, <1>7, <1>8, <1>9

\* The new tasks are those of the redirected transitions and the new leaf's.
LEMMA SplitTasksFacts ==
    ASSUME NEW t, Sequence(t.node), t.alphabet_size \in Nat, NEW old, NEW new
    PROVE  /\ Sequence(SplitTasks(t, old, new))
           /\ \A p \in Range(SplitTasks(t, old, new)) :
                 /\ {"kind", "source", "symbol", "at"} \subseteq DOMAIN p
                 /\ p.kind = "transition" /\ p.at = t.root /\ p.symbol \in Letters(t)
                 /\ p.source \in t.node[old].incoming \cup {new}
           /\ \A a \in Letters(t) : Awaits(Range(SplitTasks(t, old, new)), new, a)
           /\ \A n \in Nodes(t) \cap t.node[old].incoming : \A a \in Letters(t) :
                 t.node[n].transitions[a] = old => Awaits(Range(SplitTasks(t, old, new)), n, a)
<1> DEFINE k == t.alphabet_size
           its == [i \in 1..k |-> <<new, i - 1>>]
           others == Redirected(t, old)
           todo == others \o its
           tasks == SplitTasks(t, old, new)
<1>1. /\ Sequence(others) /\ Range(others) \subseteq t.node[old].incoming \X Letters(t)
      /\ \A n \in Nodes(t) \cap t.node[old].incoming : \A a \in Letters(t) :
                 t.node[n].transitions[a] = old => <<n, a>> \in Range(others)
  BY TransitionsFacts
<1> HIDE DEF others
<1>2. Sequence(its) /\ Range(its) = {its[i] : i \in 1..k}
  <2>1. its = [i \in 1..k |-> its[i]]
    OBVIOUS
  <2> HIDE DEF its
  <2> QED BY <2>1, FunctionToSequence
<1>3. Range(its) \subseteq {new} \X Letters(t)
  BY <1>2 DEF Letters
<1>4. \A a \in Letters(t) : <<new, a>> \in Range(its)
  <2> SUFFICES ASSUME NEW a \in Letters(t) PROVE <<new, a>> \in Range(its)
    OBVIOUS
  <2>1. a + 1 \in 1..k /\ (a + 1) - 1 = a
    BY DEF Letters
  <2>2. its[a + 1] = <<new, a>>
    BY <2>1
  <2> HIDE DEF its
  <2> QED BY <1>2, <2>1, <2>2
<1> HIDE DEF its
<1>5. Sequence(todo) /\ Range(todo) = Range(others) \cup Range(its)
  BY <1>1, <1>2, ConcatFacts
<1>6. tasks = [i \in DOMAIN todo |-> compute_transition_task(t, todo[i][1], todo[i][2])]
  BY DEF SplitTasks, others, its
<1> HIDE DEF todo, tasks
<1>7. Len(todo) \in Nat /\ DOMAIN todo = 1..Len(todo) /\ Range(todo) = {todo[i] : i \in 1..Len(todo)}
  BY <1>5, SequenceFacts
<1>8. Sequence(tasks) /\ Range(tasks) = {tasks[i] : i \in 1..Len(todo)}
  <2>1. tasks = [i \in 1..Len(todo) |-> tasks[i]]
    BY <1>6, <1>7
  <2> QED BY <1>7, <2>1, FunctionToSequence
<1>9. \A i \in 1..Len(todo) : tasks[i] = compute_transition_task(t, todo[i][1], todo[i][2])
  BY <1>6, <1>7
<1>10. ASSUME NEW p \in Range(tasks)
       PROVE  /\ {"kind", "source", "symbol", "at"} \subseteq DOMAIN p
              /\ p.kind = "transition" /\ p.at = t.root /\ p.symbol \in Letters(t)
              /\ p.source \in t.node[old].incoming \cup {new}
  <2>1. PICK i \in 1..Len(todo) : p = compute_transition_task(t, todo[i][1], todo[i][2])
    BY <1>8, <1>9
  <2>2. todo[i] \in Range(todo)
    BY <1>7
  <2>3. todo[i] \in (t.node[old].incoming \cup {new}) \X Letters(t)
    BY <1>1, <1>3, <1>5, <2>2
  <2> QED BY <2>1, <2>3 DEF compute_transition_task
<1>11. ASSUME NEW n, NEW a, <<n, a>> \in Range(todo) PROVE Awaits(Range(tasks), n, a)
  <2>1. PICK i \in 1..Len(todo) : todo[i] = <<n, a>>
    BY <1>7, <1>11
  <2>2. tasks[i] = compute_transition_task(t, n, a) /\ tasks[i] \in Range(tasks)
    BY <1>8, <1>9, <2>1
  <2> QED BY <2>2 DEF Awaits, compute_transition_task
<1> QED BY <1>1, <1>4, <1>5, <1>8, <1>10, <1>11 DEF tasks

(***************************************************************************)
(* The split keeps what holds of leaves and transitions, if the label of   *)
(* the new inner node tells the old leaf's word and the new one's apart.   *)
(***************************************************************************)
SplitDone(m, t, u, over2) ==
    /\ Sound(m, u, over2) /\ u.leaf_node_count = t.leaf_node_count + 1
    /\ \E added : /\ Sequence(added) /\ u.tasks = t.tasks \o added
                  /\ Computing(Language(m), u, over2, Range(added))

\* Splitting a leaf at a right answer gives a sound tree, one leaf larger.
LEMMA SplitAtFine ==
    ASSUME NEW m, NEW t, NEW over, Sound(m, t, over), NEW task, Searching(Language(m), t, over, task),
           SplitFine(Language(m), t, over, task), NEW ans,
           ans = Accept <=> task.leaf_label \o task.inner_label \in Language(m)
    PROVE  \E over2 : SplitDone(m, t, SplitAt(t, task, ans, task.node, Len(t.node) + 1, Len(t.node) + 2), over2)
<1> DEFINE L == Language(m)
           old == task.node
           q == t.node[old].parent
           new == Len(t.node) + 1
           inner == Len(t.node) + 2
           u == SplitAt(t, task, ans, old, new, inner)
           over2 == SplitOver(t, over, old, new, inner)
           added == SplitTasks(t, old, new)
<1>0. /\ TreeFine(t, over) /\ m \in Targets /\ t.alphabet_size = m.input_alphabet_size
      /\ IdsFine(t) /\ LeavesFine(L, t, over) /\ Complete(L, t, over)
      /\ old \in LeavesOf(t) /\ task.leaf_label \in Words(t) /\ task.inner_label \in Words(t)
      /\ OnPath(L, t, over, old, task.leaf_label)
      /\ (task.leaf_label \o task.inner_label \in L) # (t.node[old].label \o task.inner_label \in L)
      /\ t.leaf_node_count \in Nat /\ t.initial_phase = FALSE
  BY DEF Sound, TreeOf, Searching, SplitFine, IdsFine
<1>1. /\ TreeRecord(u) /\ u.root = t.root /\ u.initial_state = t.initial_state
      /\ u.initial_phase = t.initial_phase
      /\ u.alphabet_size = t.alphabet_size
      /\ u.leaf_node_count = t.leaf_node_count + 1
      /\ u.tasks = t.tasks \o added
      /\ Replaced(t, u, task, ans, old, q, new, inner)
  <2>1. IsSplit(t, u, task, ans, old)
    BY <1>0, SplitNodes
  <2> HIDE DEF u
  <2> QED BY <2>1 DEF IsSplit
<1>2. ans = Accept <=> task.leaf_label \o task.inner_label \in L
  OBVIOUS
<1> HIDE DEF u, L
<1>3. WasSplit(t, over, u, over2, task, ans, old, q, new, inner)
  BY <1>0, <1>1, <1>2 DEF WasSplit
<1>s. t.alphabet_size \in Nat /\ Sequence(t.node)
  <2>1. TreeFine(t, over)
    BY <1>0
  <2> QED BY ONLY <2>1 DEF TreeFine, TreeRecord
<1>t. /\ u.node[new] = leaf_node(task.leaf_label, t.node[old].level + 1, inner, t.leaf_node_count,
                               t.node[old].accepting, t.alphabet_size)
      /\ u.node[inner] = inner_node(task.inner_label, t.node[old].level, q,
                                  IF ans = Accept THEN old ELSE new, IF ans = Accept THEN new ELSE old)
      /\ u.node[old].incoming = {}
  BY <1>1 DEF Replaced
<1> HIDE DEF old, q, new, inner, over2, added
<1>4. /\ new \notin Nodes(t) /\ inner \notin Nodes(t) /\ new # inner /\ new # old
      /\ Nodes(u) = Nodes(t) \cup {new, inner}
      /\ old \in Nodes(t) /\ t.node[old].leaf
      /\ LeavesOf(u) = LeavesOf(t) \cup {new} /\ Letters(u) = Letters(t) /\ Words(u) = Words(t)
  BY <1>3, SplitFacts
<1>5. /\ \A n \in Nodes(t) : /\ u.node[n].label = t.node[n].label
                             /\ t.node[n].leaf => /\ u.node[n].accepting = t.node[n].accepting
                                                  /\ u.node[n].id = t.node[n].id
                                                  /\ u.node[n].transitions = t.node[n].transitions
      /\ \A n \in Nodes(t) \ {old} : t.node[n].leaf => u.node[n].incoming = t.node[n].incoming
  BY <1>3, SplitKeeps
<1>6. \A w : /\ \A n \in Nodes(t) \ {old} : OnPath(L, u, over2, n, w) <=> OnPath(L, t, over, n, w)
             /\ \A n \in {old, new} : OnPath(L, u, over2, n, w)
                    <=> OnPath(L, t, over, old, w) /\ Child(L, u, inner, w) = n
  BY <1>3, SplitPaths
<1>7. TreeFine(u, over2)
  BY <1>3, SplitTree
<1>8. \A n \in LeavesOf(t) : n \in Nodes(t) /\ t.node[n].leaf
  BY DEF LeavesOf
<1>9. /\ u.node[new].label = task.leaf_label /\ u.node[new].accepting = t.node[old].accepting
      /\ u.node[new].incoming = {} /\ u.node[new].id = t.leaf_node_count
      /\ u.node[inner].label = task.inner_label
      /\ u.node[inner].left = (IF ans = Accept THEN old ELSE new) /\ u.node[inner].right = (IF ans = Accept THEN new ELSE old)
  BY <1>t DEF leaf_node, inner_node
<1>10. LeavesFine(L, u, over2)
  <2>1. LeafFine(L, t, over, old)
    BY <1>0 DEF LeavesFine
  <2>2. ASSUME NEW n \in LeavesOf(t), n # old PROVE LeafFine(L, u, over2, n)
    <3>1. LeafFine(L, t, over, n)
      BY <1>0 DEF LeavesFine
    <3> QED BY <1>4, <1>5, <1>6, <1>8, <2>2, <3>1 DEF LeafFine
  <2>3. LeafFine(L, u, over2, old)
    <3>1. Child(L, u, inner, t.node[old].label) = old
      BY <1>0, <1>2, <1>9 DEF Child
    <3>2. OnPath(L, u, over2, old, u.node[old].label)
      BY <1>4, <1>5, <1>6, <2>1, <3>1 DEF LeafFine
    <3> QED BY <1>4, <1>5, <1>t, <2>1, <3>2 DEF LeafFine
  <2>4. LeafFine(L, u, over2, new)
    <3>1. Child(L, u, inner, task.leaf_label) = new
      BY <1>0, <1>2, <1>9 DEF Child
    <3>2. OnPath(L, u, over2, new, u.node[new].label)
      BY <1>0, <1>6, <1>9, <3>1
    <3>3. (task.leaf_label \in L) = (t.node[old].label \in L)
      <4>1. t.root \in over[old] /\ t.node[t.root].label = <<>>
        BY <1>0, <1>4 DEF TreeFine, Hangs, InnerOf
      <4>2. (task.leaf_label \o t.node[t.root].label \in L) = (t.node[old].label \o t.node[t.root].label \in L)
        <5>1. OnPath(L, t, over, old, t.node[old].label) /\ old \in Nodes(t)
          BY <1>4, <2>1 DEF LeafFine
        <5>2. \A v, w : OnPath(L, t, over, old, v) /\ OnPath(L, t, over, old, w)
                  => (v \o t.node[t.root].label \in L <=> w \o t.node[t.root].label \in L)
          <6>1. TreeFine(t, over)
            BY <1>0
          <6> QED BY <4>1, <5>1, <6>1, SameSide
        <5> QED BY <1>0, <5>1, <5>2
      <4>3. t.node[old].label \in Words(t)
        BY <1>0, <1>4 DEF TreeFine, NodeFine
      <4>4. task.leaf_label \o <<>> = task.leaf_label /\ t.node[old].label \o <<>> = t.node[old].label
        BY <1>0, <4>3, WordFacts DEF Words
      <4> QED BY <4>1, <4>2, <4>4
    <3> QED BY <1>9, <2>1, <3>2, <3>3 DEF LeafFine
  <2>5. t.initial_state \in LeavesOf(t) /\ t.node[t.initial_state].label = <<>>
    BY <1>0 DEF LeavesFine
  <2> QED BY <1>1, <1>4, <1>5, <1>8, <2>2, <2>3, <2>4, <2>5 DEF LeavesFine
<1>11. IdsFine(u)
  <2>1. {u.node[n].id : n \in LeavesOf(u)} = {t.node[n].id : n \in LeavesOf(t)} \cup {t.leaf_node_count}
    BY <1>4, <1>5, <1>8, <1>9
  <2>2. {t.node[n].id : n \in LeavesOf(t)} = 0..(t.leaf_node_count - 1)
    BY <1>0 DEF IdsFine
  <2>3. 0..(t.leaf_node_count - 1) \cup {t.leaf_node_count} = 0..((t.leaf_node_count + 1) - 1)
    BY <1>0
  <2>4. IsFiniteSet(LeavesOf(t))
    <3>1. IsFiniteSet(1..Len(t.node))
      <4>1. 1 \in Int /\ Len(t.node) \in Int
        BY <1>s, SequenceFacts
      <4> QED BY <4>1, FS_Interval
    <3> QED BY <3>1, FS_Subset DEF LeavesOf, Nodes
  <2>5. new \notin LeavesOf(t)
    BY <1>4, <1>8
  <2>6. Cardinality(LeavesOf(u)) = t.leaf_node_count + 1
    <3>1. Cardinality(LeavesOf(t) \cup {new}) = Cardinality(LeavesOf(t)) + 1
      BY <2>4, <2>5, FS_AddElement
    <3> QED BY <1>0, <1>4, <3>1 DEF IdsFine
  <2>7. u.leaf_node_count \in Nat /\ {u.node[n].id : n \in LeavesOf(u)} = 0..(u.leaf_node_count - 1)
    <3>1. u.leaf_node_count = t.leaf_node_count + 1 /\ t.leaf_node_count \in Nat
      BY <1>0, <1>1
    <3>2. u.leaf_node_count \in Nat
      BY <3>1
    <3> QED BY <2>1, <2>2, <2>3, <3>1, <3>2
  <2> QED BY <1>1, <2>6, <2>7 DEF IdsFine
<1>12. Sound(m, u, over2)
  BY <1>0, <1>1, <1>7, <1>10, <1>11 DEF Sound, TreeOf, L
<1>13. /\ Sequence(added)
       /\ \A p \in Range(added) :
             /\ {"kind", "source", "symbol", "at"} \subseteq DOMAIN p
             /\ p.kind = "transition" /\ p.at = t.root /\ p.symbol \in Letters(t)
             /\ p.source \in t.node[old].incoming \cup {new}
       /\ \A c \in Letters(t) : Awaits(Range(added), new, c)
       /\ \A n \in Nodes(t) \cap t.node[old].incoming : \A c \in Letters(t) :
             t.node[n].transitions[c] = old => Awaits(Range(added), n, c)
  BY <1>s, SplitTasksFacts DEF added
<1>14. ASSUME NEW p \in Range(added) PROVE TransitionFine(L, u, over2, p)
  <2>1. p.source \in LeavesOf(u)
    BY <1>0, <1>4, <1>13 DEF LeavesFine, LeafFine
  <2>2. t.root \in Nodes(u) /\ \A w : OnPath(L, u, over2, t.root, w)
    BY <1>1, <1>7, AtRoot
  <2> QED BY <1>4, <1>13, <2>1, <2>2 DEF TransitionFine
<1>15. ASSUME NEW n \in LeavesOf(t), NEW c \in Letters(t)
       PROVE  Awaits(Range(added), n, c) \/ Leads(L, u, over2, n, c)
  <2> DEFINE y == t.node[n].transitions[c]
  <2>1. y \in LeavesOf(t) /\ n \in t.node[y].incoming /\ OnPath(L, t, over, y, Append(t.node[n].label, c))
    BY <1>0 DEF Complete, Leads
  <2>2. u.node[n].transitions[c] = y /\ u.node[n].label = t.node[n].label
    BY <1>5, <1>8
  <2>3. CASE y = old
    BY <1>8, <1>13, <2>1, <2>3
  <2>4. CASE y # old
    <3> HIDE DEF y
    <3>1. n \in u.node[y].incoming /\ OnPath(L, u, over2, y, Append(t.node[n].label, c))
      BY <1>5, <1>6, <1>8, <2>1, <2>4
    <3> QED BY <1>4, <2>1, <2>2, <3>1 DEF Leads
  <2> QED BY <2>3, <2>4
<1>16. Computing(L, u, over2, Range(added))
  BY <1>4, <1>13, <1>14, <1>15 DEF Computing, TransitionsFine
<1>17. SplitDone(m, t, u, over2)
  BY <1>1, <1>12, <1>13, <1>16 DEF SplitDone, L
<1> QED BY <1>17 DEF u, old, new, inner

-----------------------------------------------------------------------------
(* Searches and splits.                                                      *)

\* What a search or a split leaves: it is to go on, or other tasks are there instead.
Resumed(m, t, r, f) ==
    /\ Truthful(m, r.kb)
    /\ \E over : /\ Sound(m, r.alg, over)
                 /\ \/ /\ ~r.done /\ r.alg.tasks = t.tasks
                       /\ Searching(Language(m), r.alg, over, r.task) /\ f <= r.alg.leaf_node_count
                    \/ /\ r.done
                       /\ \E added : /\ r.alg.tasks = t.tasks \o added
                                     /\ Waits(Language(m), r.alg, over, added, f)

(***************************************************************************)
(* A split that is performed leaves the transitions that are to be         *)
(* computed.                                                               *)
(***************************************************************************)
LEMMA SplitPerformed ==
    ASSUME NEW m, NEW t, NEW over, Sound(m, t, over), NEW k, Truthful(m, k),
           NEW task, Searching(Language(m), t, over, task), SplitFine(Language(m), t, over, task),
           NEW f \in Nat, f <= t.leaf_node_count
    PROVE  Resumed(m, t, perform(t, k, task), f)
<1> DEFINE q == task.leaf_label \o task.inner_label
           l == resolve_or_add_query(k, q)
           r == perform(t, k, task)
           u == SplitAt(t, task, l.node[q].ans, task.node, Len(t.node) + 1, Len(t.node) + 2)
<1>1. r = Split(t, l, task, q)
  BY DEF perform, SplitFine
<1>2. Truthful(m, l)
  BY AskedIsTruthful DEF Sound, TreeOf
<1> HIDE DEF l, r
<1>3. CASE ~is_answered(l, q)
  <2>1. r.kb = l /\ r.alg = t /\ r.task = task /\ r.done = FALSE
    BY <1>1, <1>3 DEF Split, Outcome
  <2> QED BY <1>2, <2>1 DEF Resumed, r
<1>4. CASE is_answered(l, q)
  <2>1. r.kb = l /\ r.alg = u /\ r.done = TRUE
    BY <1>1, <1>4 DEF Split, Outcome
  <2>2. q \in Queries(m)
    <3>1. task.leaf_label \in Words(t) /\ task.inner_label \in Words(t)
      BY DEF SplitFine
    <3>2. q \in Words(t)
      BY <3>1, WordFacts DEF Words
    <3> QED BY <3>2 DEF Words, Letters, Queries, Sound, TreeOf
  <2>3. l.node[q].ans = Accept <=> q \in Language(m)
    BY <1>2, <1>4, <2>2, AnswerTells
  <2>4. PICK over2 : SplitDone(m, t, u, over2)
    BY <2>3, SplitAtFine
  <2> HIDE DEF u
  <2>5. PICK added : /\ Sequence(added) /\ u.tasks = t.tasks \o added
                     /\ Computing(Language(m), u, over2, Range(added))
    BY <2>4 DEF SplitDone
  <2>6. f < u.leaf_node_count
    BY <2>4 DEF SplitDone, Sound, IdsFine
  <2>7. Waits(Language(m), u, over2, added, f)
    BY <2>5, <2>6 DEF Waits
  <2> QED BY <1>2, <2>1, <2>4, <2>5, <2>7 DEF Resumed, SplitDone, r
<1> QED BY <1>3, <1>4

\* A letter belongs to the word before it as to the one after it.
Between(W, u, a, v) == <<a>> \o v \in Seq(W) /\ u \o (<<a>> \o v) = Append(u, a) \o v

\* The word between two cuts of a counterexample that lie one letter apart is
\* that letter.
LEMMA LetterBetween ==
    ASSUME NEW W, NEW u \in Seq(W), NEW a \in W, NEW v \in Seq(W)
    PROVE  Between(W, u, a, v)
<1>1. <<a>> \in Seq(W) /\ <<a>> \o v \in Seq(W)
  BY ConcatProperties
<1>2. u \o <<a>> = Append(u, a)
  BY AppendIsConcat
<1>3. (u \o <<a>>) \o v = u \o (<<a>> \o v)
  BY <1>1, ConcatAssociative
<1> QED BY <1>1, <1>2, <1>3 DEF Between

\* The letter after a prefix makes the next prefix, whatever follows.
LEMMA NextPrefix ==
    ASSUME NEW W, NEW w \in Seq(W), NEW i \in 1..Len(w), NEW v \in Seq(W)
    PROVE  /\ SubSeq(w, 1, i) = Append(SubSeq(w, 1, i - 1), w[i]) /\ w[i] \in W
           /\ SubSeq(w, 1, i) \in Seq(W) /\ SubSeq(w, 1, i - 1) \in Seq(W)
           /\ <<w[i]>> \o v \in Seq(W)
           /\ SubSeq(w, 1, i - 1) \o (<<w[i]>> \o v) = SubSeq(w, 1, i) \o v
<1> DEFINE u == SubSeq(w, 1, i - 1)
           z == SubSeq(w, 1, i)
           a == w[i]
<1>1. Len(w) \in Nat /\ \A j \in 1..Len(w) : w[j] \in W
  BY LenProperties, ElementOfSeq
<1>2. i \in Nat /\ i - 1 \in Nat /\ 1 \in Int /\ i \in Int /\ i - 1 \in Int
  BY <1>1
<1>3. u \in Seq(W) /\ Len(u) = i - 1 /\ \A j \in 1..(i - 1) : u[j] = w[j]
  <2>1. \A j \in 1..(i - 1) : w[j] \in W
    BY <1>1
  <2>2. u \in Seq(W) /\ Len(u) = (IF 1 <= i - 1 THEN (i - 1) - 1 + 1 ELSE 0)
        /\ \A j \in 1..((i - 1) - 1 + 1) : u[j] = w[1 + j - 1]
    BY <1>2, <2>1, SubSeqProperties
  <2> HIDE DEF u
  <2> QED BY <1>2, <2>2
<1>4. z \in Seq(W) /\ Len(z) = i /\ \A j \in 1..i : z[j] = w[j]
  <2>1. \A j \in 1..i : w[j] \in W
    BY <1>1
  <2>2. z \in Seq(W) /\ Len(z) = (IF 1 <= i THEN i - 1 + 1 ELSE 0)
        /\ \A j \in 1..(i - 1 + 1) : z[j] = w[1 + j - 1]
    BY <1>2, <2>1, SubSeqProperties
  <2> HIDE DEF z
  <2> QED BY <1>2, <2>2
<1>5. a \in W
  BY <1>1
<1> HIDE DEF u, z, a
<1>6. Append(u, a) \in Seq(W) /\ Len(Append(u, a)) = i /\ \A j \in 1..i : Append(u, a)[j] = z[j]
  <2>1. /\ Append(u, a) \in Seq(W) /\ Len(Append(u, a)) = Len(u) + 1
        /\ \A j \in 1..Len(u) : Append(u, a)[j] = u[j] /\ Append(u, a)[Len(u) + 1] = a
    BY <1>3, <1>5, AppendProperties
  <2>2. Append(u, a)[i] = a /\ Len(Append(u, a)) = i
    BY <1>2, <1>3, <2>1, AppendProperties, <1>5
  <2>3. \A j \in 1..i : j = i \/ j \in 1..(i - 1)
    BY <1>2
  <2> QED BY <1>2, <1>3, <1>4, <2>1, <2>2, <2>3 DEF a
<1>7. Append(u, a) = z
  BY <1>4, <1>6, SeqEqual
<1>8. <<a>> \o v \in Seq(W) /\ u \o (<<a>> \o v) = Append(u, a) \o v
  <2>1. u \in Seq(W) /\ v \in Seq(W)
    BY <1>3
  <2>2. Between(W, u, a, v)
    BY ONLY <1>5, <2>1, LetterBetween
  <2> QED BY ONLY <2>2 DEF Between
<1> QED BY <1>3, <1>4, <1>5, <1>7, <1>8 DEF u, z, a

(***************************************************************************)
(* A leaf is to be split where the conjecture takes a prefix to its leaf   *)
(* and the next letter elsewhere than to the leaf of the longer prefix:    *)
(* the letter and the word that tells these two apart tell the prefix and  *)
(* the word of its leaf apart.                                             *)
(***************************************************************************)
LEMMA PlannedSplit ==
    ASSUME NEW m, NEW t, NEW over, Sound(m, t, over), NEW L, L = Language(m), Complete(L, t, over),
           NEW w \in Words(t), NEW i \in 1..Len(w), Good(L, t, over, w, i - 1),
           NEW z \in LeavesOf(t), OnPath(L, t, over, z, SubSeq(w, 1, i)),
           z # simulate_run(t, SubSeq(w, 1, i))
    PROVE  SplitFine(L, t, over,
              split_node_task(t, simulate_run(t, SubSeq(w, 1, i - 1)), SubSeq(w, 1, i - 1), w[i],
                              simulate_run(t, SubSeq(w, 1, i)), z))
<1> DEFINE before == SubSeq(w, 1, i - 1)
           now == SubSeq(w, 1, i)
           x == simulate_run(t, before)
           y == simulate_run(t, now)
           a == w[i]
           c == least_commont_ancestor(t, y, z)
           s == t.node[c].label
           p == split_node_task(t, x, before, a, y, z)
<1>1. before \in Words(t) /\ now \in Words(t) /\ a \in Letters(t) /\ now = Append(before, a)
  BY NextPrefix, WordFacts DEF Words
<1>2. x \in LeavesOf(t) /\ y = t.node[x].transitions[a] /\ OnPath(L, t, over, x, before)
  <2>1. x \in LeavesOf(t)
    BY <1>1, RunFine
  <2>2. y = t.node[x].transitions[a]
    BY RunStep
  <2> QED BY <2>1, <2>2 DEF Good
<1> HIDE DEF x, y
<1>3. y \in LeavesOf(t) /\ OnPath(L, t, over, y, Append(t.node[x].label, a))
  BY <1>1, <1>2 DEF Complete, Leads
<1>4. y # z
  BY DEF y
<1>5. TreeFine(t, over)
  BY DEF Sound, TreeOf
<1>6. Apart(L, t, c, Append(t.node[x].label, a), now)
  BY <1>3, <1>4, <1>5, ToldApart
<1>7. c \in Nodes(t)
  <2>1. c \in over[y] /\ y \in Nodes(t)
    BY <1>3, <1>4, <1>5, AncestorFacts DEF LeavesOf
  <2> HIDE DEF c
  <2> QED BY <1>5, <2>1 DEF TreeFine, Chain, InnerOf
<1> HIDE DEF c
<1>8. s \in Words(t) /\ t.node[x].label \in Words(t)
  BY <1>2, <1>5, <1>7 DEF TreeFine, NodeFine, LeavesOf
<1> HIDE DEF s
<1>9. /\ before \in Seq(Letters(t)) /\ t.node[x].label \in Seq(Letters(t)) /\ s \in Seq(Letters(t))
      /\ a \in Letters(t) /\ now = Append(before, a)
  BY <1>1, <1>8 DEF Words
<1> DEFINE label == t.node[x].label
<1>x. label \in Seq(Letters(t)) /\ label = t.node[x].label
  BY <1>9
<1> HIDE DEF before, now, a, label
<1>10. /\ <<a>> \o s \in Seq(Letters(t)) /\ before \o (<<a>> \o s) = Append(before, a) \o s
       /\ label \o (<<a>> \o s) = Append(label, a) \o s
  <2>1. Between(Letters(t), before, a, s) /\ Between(Letters(t), label, a, s)
    BY ONLY <1>9, <1>x, LetterBetween
  <2> QED BY <2>1 DEF Between
<1>11. p = [kind |-> "split", node |-> x, leaf_label |-> before, inner_label |-> <<a>> \o s]
  <2>1. split_node_task(t, x, before, a, y, z)
           = [kind |-> "split", node |-> x, leaf_label |-> before, inner_label |-> <<a>> \o s]
    BY ONLY DEF split_node_task, c, s
  <2> QED BY <2>1
<1> HIDE DEF p
<1>12. ~(before \o (<<a>> \o s) \in L <=> t.node[x].label \o (<<a>> \o s) \in L)
  BY <1>6, <1>9, <1>10, <1>x DEF Apart, s
<1>13. SplitFine(L, t, over, p)
  BY <1>1, <1>2, <1>10, <1>11, <1>12 DEF SplitFine, Words
<1> QED BY <1>13 DEF p, x, y, a, before, now

\* A task is added, and the tree stays as it is.
LEMMA AddedLast ==
    ASSUME NEW t, TreeRecord(t), Sequence(t.tasks), NEW p
    PROVE  /\ SameTree(t, add_last(t, p)) /\ add_last(t, p).tasks = t.tasks \o <<p>>
           /\ Sequence(<<p>>) /\ Len(<<p>>) = 1 /\ <<p>>[1] = p /\ Range(<<p>>) = {p}
           /\ TreeRecord(add_last(t, p))
<1>1. /\ SameTree(t, add_last(t, p)) /\ TreeRecord(add_last(t, p))
      /\ add_last(t, p).tasks = Append(t.tasks, p)
  BY DEF add_last, SameTree, TreeRecord
<1>2. Append(t.tasks, p) = t.tasks \o <<p>>
  <2>1. t.tasks \in Seq(Range(t.tasks) \cup {p})
    BY SequenceWithin
  <2> QED BY <2>1, AppendIsConcat
<1>3. Sequence(<<p>>) /\ Len(<<p>>) = 1 /\ <<p>>[1] = p /\ Range(<<p>>) = {p}
  <2>1. <<p>> = [i \in 1..1 |-> <<p>>[i]]
    OBVIOUS
  <2>2. Sequence(<<p>>) /\ Len(<<p>>) = 1 /\ Range(<<p>>) = {<<p>>[i] : i \in 1..1}
    BY <2>1, FunctionToSequence
  <2> QED BY <2>2
<1> QED BY <1>1, <1>2, <1>3

\* A search ends with the split that it found.
LEMMA SplitAdded ==
    ASSUME NEW m, NEW t, NEW over, Sound(m, t, over), Sequence(t.tasks),
           Complete(Language(m), t, over), NEW p, SplitFine(Language(m), t, over, p),
           NEW k, Truthful(m, k), NEW task, NEW f, f <= t.leaf_node_count
    PROVE  Resumed(m, t, Outcome(add_last(t, p), k, task, TRUE), f)
<1> DEFINE u == add_last(t, p)
           r == Outcome(u, k, task, TRUE)
<1>1. TreeRecord(t)
  BY DEF Sound, TreeOf, TreeFine
<1>2. /\ SameTree(t, u) /\ u.tasks = t.tasks \o <<p>>
      /\ Sequence(<<p>>) /\ Len(<<p>>) = 1 /\ <<p>>[1] = p
  BY <1>1, AddedLast
<1> HIDE DEF u
<1>3. Sound(m, u, over)
  BY <1>2, SameTreeSound
<1>4. Searching(Language(m), t, over, p)
  BY DEF Searching, SearchFine
<1>5. Searching(Language(m), u, over, p)
  BY <1>2, <1>4, SameTreeWaits
<1>6. Waits(Language(m), u, over, <<p>>, f)
  BY <1>2, <1>5 DEF Waits, SameTree
<1>7. r.kb = k /\ r.alg = u /\ r.done = TRUE
  BY DEF Outcome
<1> HIDE DEF r
<1>8. Resumed(m, t, r, f)
  BY <1>2, <1>3, <1>6, <1>7 DEF Resumed
<1> QED BY <1>8 DEF r, u

\* A search that goes on with the tree as it is.
LEMMA SearchLeft ==
    ASSUME NEW m, NEW t, NEW over, Sound(m, t, over),
           Complete(Language(m), t, over), NEW task, SearchFine(Language(m), t, over, task),
           NEW r, Truthful(m, r.kb), r.alg = t, r.done = FALSE, r.task = task,
           NEW f, f <= t.leaf_node_count
    PROVE  Resumed(m, t, r, f)
BY DEF Resumed, Searching

\* Where a linear search is.
LinearSearched(m, t, over, f, r) ==
    /\ Resumed(m, t, r, f)
    /\ r.again => r.alg = t /\ Truthful(m, r.kb) /\ LinearFine(Language(m), t, over, r.task)

(***************************************************************************)
(* One prefix of the linear search.  The search cannot come to the end of  *)
(* the counterexample without a prefix that the conjecture takes elsewhere.*)
(***************************************************************************)
LEMMA LinearStepFine ==
    ASSUME NEW m, NEW t, NEW over, Sound(m, t, over), Sequence(t.tasks),
           Complete(Language(m), t, over), NEW task, LinearFine(Language(m), t, over, task),
           NEW s, Sifted(m, t, over, task.prefix, s), NEW f, f <= t.leaf_node_count
    PROVE  LinearSearched(m, t, over, f, LinearStep(t, task, s))
<1> DEFINE L == Language(m)
           r == LinearStep(t, task, s)
           w == task.counterexample
           i == task.position
           now == SubSeq(w, 1, i)
           x == simulate_run(t, now)
<1>1. /\ {"kind", "counterexample", "position", "prefix", "at"} \subseteq DOMAIN task
      /\ task.kind = "linear" /\ w \in Words(t) /\ i \in 1..Len(w) /\ task.prefix = now
      /\ Good(L, t, over, w, i - 1) /\ ~Good(L, t, over, w, Len(w))
  BY DEF LinearFine
<1>2. Truthful(m, s.kb) /\ s.at \in Nodes(t) /\ OnPath(L, t, over, s.at, now)
  BY <1>1 DEF Sifted
<1>3. Len(w) \in Nat /\ i \in Nat /\ now \in Words(t)
  BY <1>1, WordFacts DEF Words
<1> HIDE DEF r
<1>4. CASE ~is_leaf(t, s.at)
  <2> DEFINE task2 == [task EXCEPT !.at = s.at]
  <2>1. r.kb = s.kb /\ r.alg = t /\ r.done = FALSE /\ r.again = FALSE /\ r.task = task2
    BY <1>4 DEF r, LinearStep, Outcome
  <2>2. /\ DOMAIN task2 = DOMAIN task /\ task2.kind = task.kind /\ task2.counterexample = w
        /\ task2.position = i /\ task2.prefix = task.prefix /\ task2.at = s.at
    BY <1>1
  <2> HIDE DEF task2
  <2>3. LinearFine(L, t, over, task2)
    BY <1>1, <1>2, <2>2 DEF LinearFine
  <2>4. Resumed(m, t, r, f)
    BY <1>2, <2>1, <2>3, SearchLeft DEF SearchFine
  <2> QED BY <2>1, <2>4 DEF LinearSearched, r
<1>5. CASE is_leaf(t, s.at) /\ x # s.at
  <2> DEFINE before == SubSeq(w, 1, i - 1)
             p == split_node_task(t, simulate_run(t, before), before, w[i], x, s.at)
  <2>1. r = Outcome(add_last(t, p), s.kb, task, TRUE)
    BY <1>1, <1>5 DEF r, LinearStep
  <2>2. SplitFine(L, t, over, p)
    BY <1>1, <1>2, <1>5, PlannedSplit DEF is_leaf, LeavesOf
  <2> HIDE DEF p
  <2>3. Resumed(m, t, r, f)
    BY <1>2, <2>1, <2>2, SplitAdded
  <2>4. r.again = FALSE
    BY <2>1 DEF Outcome
  <2> QED BY <2>3, <2>4 DEF LinearSearched, r
<1>6. CASE is_leaf(t, s.at) /\ x = s.at
  <2> DEFINE next == [task EXCEPT !.position = @ + 1, !.at = t.root,
                                  !.prefix = SubSeq(w, 1, i + 1)]
  <2>1. Good(L, t, over, w, i)
    BY <1>2, <1>6 DEF Good
  <2>2. i # Len(w) /\ i + 1 \in 1..Len(w) /\ (i + 1) - 1 = i
    BY <1>1, <1>3, <2>1
  <2>3. r = Again(t, s.kb, next)
    BY <1>1, <1>6, <2>2 DEF r, LinearStep
  <2>4. r.kb = s.kb /\ r.alg = t /\ r.done = FALSE /\ r.again = TRUE /\ r.task = next
    BY <2>3 DEF Again, Outcome
  <2>5. /\ DOMAIN next = DOMAIN task /\ next.kind = task.kind /\ next.counterexample = w
        /\ next.position = i + 1 /\ next.prefix = SubSeq(w, 1, i + 1) /\ next.at = t.root
    BY <1>1
  <2> HIDE DEF next
  <2>6. t.root \in Nodes(t) /\ OnPath(L, t, over, t.root, SubSeq(w, 1, i + 1))
    BY AtRoot DEF Sound, TreeOf
  <2>7. LinearFine(L, t, over, next)
    BY <1>1, <2>1, <2>2, <2>5, <2>6 DEF LinearFine
  <2>8. Resumed(m, t, r, f)
    BY <1>2, <2>4, <2>7, SearchLeft DEF SearchFine
  <2> QED BY <1>2, <2>4, <2>7, <2>8 DEF LinearSearched, r
<1> QED BY <1>4, <1>5, <1>6 DEF r

LinearBody(c, r, i) == LinearRound(r)
LinearInv(c, r) == LinearSearched(c[1], c[2], c[3], c[4], r)
Linear == INSTANCE LoopRules WITH Body <- LinearBody, Inv <- LinearInv

(***************************************************************************)
(* The linear search, as long as answers are known.                        *)
(***************************************************************************)
LEMMA LinearSearchFine ==
    ASSUME NEW m, NEW t, NEW over, Sound(m, t, over), Sequence(t.tasks),
           Complete(Language(m), t, over), NEW task, LinearFine(Language(m), t, over, task),
           NEW k, Truthful(m, k), NEW f, f <= t.leaf_node_count
    PROVE  Resumed(m, t, LinearSearch(t, k, task), f)
<1> DEFINE p == <<m, t, over, f>>
           base == Again(t, k, task)
           z == Len(task.counterexample)
<1>1. p[1] = m /\ p[2] = t /\ p[3] = over /\ p[4] = f
  OBVIOUS
<1> HIDE DEF p
<1>2. LinearSearch(t, k, task) = Linear!Rounds(0, base, z)
  BY DEF LinearSearch, Repeated, Linear!Rounds, LinearBody
<1>3. z \in Nat
  BY WordFacts DEF LinearFine, Words
<1>4. LinearInv(p, base)
  <2>1. base.kb = k /\ base.alg = t /\ base.done = FALSE /\ base.task = task
    BY DEF Again, Outcome
  <2> HIDE DEF base
  <2>2. Resumed(m, t, base, f)
    BY <2>1, SearchLeft DEF SearchFine
  <2> QED BY <1>1, <2>1, <2>2 DEF LinearInv, LinearSearched
<1>5. ASSUME NEW i \in 1..z, NEW r, LinearInv(p, r) PROVE LinearInv(p, LinearBody(0, r, i))
  <2>1. LinearSearched(m, t, over, f, r)
    BY <1>1, <1>5 DEF LinearInv
  <2>2. CASE ~r.again
    BY <1>5, <2>2 DEF LinearBody, LinearRound
  <2>3. CASE r.again
    <3>1. r.alg = t /\ Truthful(m, r.kb) /\ LinearFine(Language(m), t, over, r.task)
      BY <2>1, <2>3 DEF LinearSearched
    <3>2. /\ r.task.prefix \in Words(t) /\ r.task.at \in Nodes(t)
          /\ OnPath(Language(m), t, over, r.task.at, r.task.prefix)
      BY <3>1, WordFacts DEF LinearFine, Words
    <3> DEFINE s == Sift(t, r.kb, r.task.prefix, r.task.at)
    <3>3. Sifted(m, t, over, r.task.prefix, s)
      BY <3>1, <3>2, SiftFine DEF Sound
    <3>4. LinearBody(0, r, i) = LinearStep(t, r.task, s)
      BY <2>3, <3>1 DEF LinearBody, LinearRound
    <3> HIDE DEF s
    <3>5. LinearSearched(m, t, over, f, LinearStep(t, r.task, s))
      BY <3>1, <3>3, LinearStepFine
    <3> QED BY <1>1, <3>4, <3>5 DEF LinearInv
  <2> QED BY <2>2, <2>3
<1> HIDE DEF base, z
<1>6. LinearInv(p, Linear!Rounds(0, base, z))
  BY <1>3, <1>4, <1>5, Linear!RoundsRule
<1>7. LinearSearched(m, t, over, f, Linear!Rounds(0, base, z))
  BY <1>1, <1>6 DEF LinearInv
<1> QED BY <1>2, <1>7 DEF LinearSearched, base, z

\* A position of the binary search is sifted further.
SameSearch(L, t, over, task, task2) ==
    /\ BinaryFine(L, t, over, task2)
    /\ task2.counterexample = task.counterexample /\ task2.position = task.position

\* A binary search that records the node one of its prefixes sifts to is still
\* the same search.
LEMMA SiftKept ==
    ASSUME NEW L, NEW t, NEW over, NEW task, BinaryFine(L, t, over, task),
           NEW j \in 0..Len(task.counterexample), NEW n \in Nodes(t),
           OnPath(L, t, over, n, Prefix(task, j))
    PROVE  SameSearch(L, t, over, task, [task EXCEPT !.sift[j] = n])
<1> DEFINE w == task.counterexample
           task2 == [task EXCEPT !.sift[j] = n]
<1>1. /\ {"kind", "counterexample", "position", "left", "right", "sift"} \subseteq DOMAIN task
      /\ DOMAIN task.sift = 0..Len(w)
      /\ \A i \in 0..Len(w) : task.sift[i] \in Nodes(t) /\ OnPath(L, t, over, task.sift[i], SubSeq(w, 1, i))
  BY DEF BinaryFine
<1>2. /\ DOMAIN task2 = DOMAIN task /\ task2.kind = task.kind /\ task2.counterexample = w
      /\ task2.position = task.position /\ task2.left = task.left /\ task2.right = task.right
      /\ task2.sift = [task.sift EXCEPT ![j] = n]
  BY <1>1
<1> HIDE DEF task2
<1>3. DOMAIN task2.sift = 0..Len(w) /\ \A i \in 0..Len(w) : task2.sift[i] = IF i = j THEN n ELSE task.sift[i]
  BY <1>1, <1>2
<1>4. \A i \in 0..Len(w) : task2.sift[i] \in Nodes(t) /\ OnPath(L, t, over, task2.sift[i], SubSeq(w, 1, i))
  BY <1>1, <1>3 DEF Prefix
<1>5. BinaryFine(L, t, over, task2)
  BY <1>2, <1>3, <1>4 DEF BinaryFine
<1> QED BY <1>2, <1>5 DEF task2, SameSearch

\* At a leaf the conjecture agrees with sifting where it takes the prefix to its leaf.
LEMMA AgreeIsGood ==
    ASSUME NEW m, NEW t, NEW over, Sound(m, t, over), Complete(Language(m), t, over),
           NEW task, BinaryFine(Language(m), t, over, task),
           NEW j \in 0..Len(task.counterexample), is_leaf(t, task.sift[j])
    PROVE  /\ Agree(t, task, j) <=> Good(Language(m), t, over, task.counterexample, j)
           /\ task.sift[j] \in LeavesOf(t)
           /\ OnPath(Language(m), t, over, task.sift[j], Prefix(task, j))
           /\ Agree(t, task, j) <=> simulate_run(t, Prefix(task, j)) = task.sift[j]
<1> DEFINE L == Language(m)
           u == SubSeq(task.counterexample, 1, j)
<1>1. task.sift[j] \in LeavesOf(t) /\ OnPath(L, t, over, task.sift[j], u)
  BY DEF BinaryFine, is_leaf, LeavesOf
<1>2. u \in Words(t)
  BY WordFacts DEF BinaryFine, Words
<1>3. simulate_run(t, u) \in LeavesOf(t)
  BY <1>2, RunFine
<1>4. TreeFine(t, over)
  BY DEF Sound, TreeOf
<1>5. Agree(t, task, j) <=> simulate_run(t, u) = task.sift[j]
  BY DEF Agree, Prefix
<1>6. Good(L, t, over, task.counterexample, j) <=> OnPath(L, t, over, simulate_run(t, u), u)
  BY DEF Good
<1>7. OnPath(L, t, over, simulate_run(t, u), u) => simulate_run(t, u) = task.sift[j]
  <2> HIDE DEF u, L
  <2> QED BY <1>1, <1>3, <1>4, OneLeaf
<1>8. Agree(t, task, j) <=> Good(L, t, over, task.counterexample, j)
  <2> HIDE DEF u, L
  <2> QED BY <1>1, <1>5, <1>6, <1>7
<1> QED BY <1>1, <1>5, <1>8 DEF Prefix

\* Where a binary search is.
BinarySearched(m, t, over, f, r) ==
    /\ Resumed(m, t, r, f)
    /\ r.again => r.alg = t /\ Truthful(m, r.kb) /\ BinaryFine(Language(m), t, over, r.task)

(***************************************************************************)
(* One step of the binary search.  The prefix before the left end is good  *)
(* and the one at the right end is not, so the ends do not meet without a  *)
(* bad letter between them.                                                *)
(***************************************************************************)
LEMMA BinaryStepFine ==
    ASSUME NEW m, NEW t, NEW over, Sound(m, t, over), Sequence(t.tasks),
           Complete(Language(m), t, over), NEW task, BinaryFine(Language(m), t, over, task),
           NEW k, Truthful(m, k), NEW f, f <= t.leaf_node_count
    PROVE  BinarySearched(m, t, over, f, BinaryStep(t, k, task, task.position))
<1> DEFINE L == Language(m)
           w == task.counterexample
           i == task.position
           r == BinaryStep(t, k, task, i)
<1>1. /\ {"kind", "counterexample", "position", "left", "right", "sift"} \subseteq DOMAIN task
      /\ task.kind = "binary" /\ w \in Words(t)
      /\ task.left \in 1..Len(w) /\ task.right \in 1..Len(w) /\ i \in task.left..task.right
      /\ Good(L, t, over, w, task.left - 1) /\ ~Good(L, t, over, w, task.right)
  BY DEF BinaryFine
<1>2. Len(w) \in Nat /\ i \in 1..Len(w) /\ i \in 0..Len(w) /\ i - 1 \in 0..Len(w)
      /\ task.left \in Nat /\ task.right \in Nat /\ i \in Nat
  <2>1. Len(w) \in Nat
    BY <1>1, WordFacts DEF Words
  <2> QED BY <1>1, <2>1
<1> HIDE DEF r
<1>3. CASE ~(is_leaf(t, task.sift[i]) /\ is_leaf(t, task.sift[i - 1]))
  <2>1. r = Outcome(t, k, task, FALSE)
    BY <1>3 DEF r, BinaryStep
  <2>2. r.kb = k /\ r.alg = t /\ r.done = FALSE /\ r.again = FALSE /\ r.task = task
    BY <2>1 DEF Outcome
  <2>3. Resumed(m, t, r, f)
    BY <2>2, SearchLeft DEF SearchFine
  <2> QED BY <2>2, <2>3 DEF BinarySearched, r
<1>4. CASE is_leaf(t, task.sift[i]) /\ is_leaf(t, task.sift[i - 1])
  <2>1. /\ Agree(t, task, i) <=> Good(L, t, over, w, i)
        /\ task.sift[i] \in LeavesOf(t) /\ OnPath(L, t, over, task.sift[i], SubSeq(w, 1, i))
        /\ Agree(t, task, i) <=> simulate_run(t, SubSeq(w, 1, i)) = task.sift[i]
    BY <1>2, <1>4, AgreeIsGood DEF Prefix
  <2>2. /\ Agree(t, task, i - 1) <=> Good(L, t, over, w, i - 1)
        /\ Agree(t, task, i - 1) <=> simulate_run(t, SubSeq(w, 1, i - 1)) = task.sift[i - 1]
    BY <1>2, <1>4, AgreeIsGood DEF Prefix
  <2>3. CASE Agree(t, task, i - 1) /\ ~Agree(t, task, i)
    <3> DEFINE p == split_node_task(t, task.sift[i - 1], Prefix(task, i - 1), w[i],
                                    simulate_run(t, Prefix(task, i)), task.sift[i])
    <3>1. r = Outcome(add_last(t, p), k, task, TRUE)
      BY <1>4, <2>3 DEF r, BinaryStep
    <3>2. SplitFine(L, t, over,
              split_node_task(t, simulate_run(t, SubSeq(w, 1, i - 1)), SubSeq(w, 1, i - 1), w[i],
                              simulate_run(t, SubSeq(w, 1, i)), task.sift[i]))
      BY <1>1, <1>2, <2>1, <2>2, <2>3, PlannedSplit
    <3>3. SplitFine(L, t, over, p)
      BY <2>2, <2>3, <3>2 DEF Prefix
    <3> HIDE DEF p
    <3>4. Resumed(m, t, r, f)
      BY <3>1, <3>3, SplitAdded
    <3>5. r.again = FALSE
      BY <3>1 DEF Outcome
    <3> QED BY <3>4, <3>5 DEF BinarySearched, r
  <2>4. CASE ~(Agree(t, task, i - 1) /\ ~Agree(t, task, i))
    <3>1. task.left < task.right
      <4> SUFFICES ASSUME ~(task.left < task.right) PROVE FALSE
        OBVIOUS
      <4>1. i = task.left /\ i = task.right
        BY <1>1, <1>2
      <4> QED BY <1>1, <2>1, <2>2, <2>4, <4>1
    <3> DEFINE next == Halved(t, task)
    <3>2. r = Again(t, k, next)
      BY <1>4, <2>4, <3>1 DEF r, BinaryStep
    <3>3. r.kb = k /\ r.alg = t /\ r.done = FALSE /\ r.again = TRUE /\ r.task = next
      BY <3>2 DEF Again, Outcome
    <3>4. /\ DOMAIN next = DOMAIN task /\ next.kind = task.kind /\ next.counterexample = w
          /\ next.sift = task.sift
          /\ next.left = (IF Agree(t, task, i) THEN i + 1 ELSE task.left)
          /\ next.right = (IF Agree(t, task, i) THEN task.right ELSE i - 1)
          /\ next.position = (next.left + next.right) \div 2
      <4> HIDE DEF BinaryFine
      <4> QED BY <1>1 DEF Halved
    <3> HIDE DEF next
    <3>7. /\ next.left \in 1..Len(w) /\ next.right \in 1..Len(w) /\ next.left <= next.right
          /\ Good(L, t, over, w, next.left - 1) /\ ~Good(L, t, over, w, next.right)
      <4>1. CASE Agree(t, task, i)
        <5>1. i # task.right
          BY <1>1, <2>1, <4>1
        <5>2. next.left = i + 1 /\ next.right = task.right
          BY <3>4, <4>1
        <5>3. /\ i \in task.left..task.right /\ task.left \in 1..Len(w) /\ task.right \in 1..Len(w)
              /\ Len(w) \in Nat
          BY <1>1, <1>2
        <5>4. /\ next.left \in 1..Len(w) /\ next.right \in 1..Len(w) /\ next.left <= next.right
              /\ next.left - 1 = i
          BY ONLY <5>1, <5>2, <5>3
        <5> QED BY <1>1, <2>1, <4>1, <5>2, <5>4
      <4>2. CASE ~Agree(t, task, i)
        <5>1. ~Good(L, t, over, w, i - 1)
          BY <2>2, <2>4, <4>2
        <5>2. i # task.left
          BY <1>1, <5>1
        <5>3. next.left = task.left /\ next.right = i - 1
          BY <3>4, <4>2
        <5>4. /\ i \in task.left..task.right /\ task.left \in 1..Len(w) /\ task.right \in 1..Len(w)
              /\ Len(w) \in Nat
          BY <1>1, <1>2
        <5>5. next.left \in 1..Len(w) /\ next.right \in 1..Len(w) /\ next.left <= next.right
          BY ONLY <5>2, <5>3, <5>4
        <5> QED BY <1>1, <5>1, <5>3, <5>5
      <4> QED BY <4>1, <4>2
    <3>8. next.position \in next.left..next.right
      <4>1. next.left \in Nat /\ next.right \in Nat /\ next.left <= next.right
        BY <1>2, <3>7
      <4> QED BY <3>4, <4>1
    <3>9. BinaryFine(L, t, over, next)
      BY <1>1, <3>4, <3>7, <3>8 DEF BinaryFine
    <3>10. Resumed(m, t, r, f)
      BY <3>3, <3>9, SearchLeft DEF SearchFine
    <3> QED BY <3>3, <3>9, <3>10 DEF BinarySearched, r
  <2> QED BY <2>3, <2>4
<1> QED BY <1>3, <1>4 DEF r

BinaryBody(c, r, i) == BinaryRound(r)
BinaryInv(c, r) == BinarySearched(c[1], c[2], c[3], c[4], r)
Binary == INSTANCE LoopRules WITH Body <- BinaryBody, Inv <- BinaryInv

\* Both positions are sifted before the step.
LEMMA BinaryRoundFine ==
    ASSUME NEW m, NEW t, NEW over, Sound(m, t, over), Sequence(t.tasks),
           Complete(Language(m), t, over), NEW f, f <= t.leaf_node_count,
           NEW r, BinarySearched(m, t, over, f, r)
    PROVE  BinarySearched(m, t, over, f, BinaryRound(r))
<1>1. CASE ~r.again
  BY <1>1 DEF BinaryRound
<1>2. CASE r.again
  <2> DEFINE L == Language(m)
             task == r.task
             i == task.position
             s1 == Sift(t, r.kb, Prefix(task, i), task.sift[i])
             task1 == [task EXCEPT !.sift[i] = s1.at]
             s2 == Sift(t, s1.kb, Prefix(task, i - 1), task.sift[i - 1])
             task2 == [task1 EXCEPT !.sift[i - 1] = s2.at]
  <2>1. r.alg = t /\ Truthful(m, r.kb) /\ BinaryFine(L, t, over, task)
    BY <1>2 DEF BinarySearched
  <2>2. BinaryRound(r) = BinaryStep(t, s2.kb, task2, i)
    BY <1>2, <2>1 DEF BinaryRound, SiftedAt, SiftedBefore
  <2>3. /\ task.counterexample \in Words(t) /\ i \in 0..Len(task.counterexample)
        /\ i - 1 \in 0..Len(task.counterexample)
    <3>1. task.counterexample \in Words(t) /\ Len(task.counterexample) \in Nat
      BY <2>1, WordFacts DEF BinaryFine, Words
    <3> QED BY <2>1, <3>1 DEF BinaryFine
  <2>4. /\ Prefix(task, i) \in Words(t) /\ Prefix(task, i - 1) \in Words(t)
        /\ task.sift[i] \in Nodes(t) /\ OnPath(L, t, over, task.sift[i], Prefix(task, i))
        /\ task.sift[i - 1] \in Nodes(t) /\ OnPath(L, t, over, task.sift[i - 1], Prefix(task, i - 1))
    <3>1. /\ task.counterexample \in Seq(Letters(t))
          /\ \A j \in 0..Len(task.counterexample) :
                task.sift[j] \in Nodes(t) /\ OnPath(L, t, over, task.sift[j], SubSeq(task.counterexample, 1, j))
      BY <2>1 DEF BinaryFine, Words
    <3>2. \A j \in 0..Len(task.counterexample) : SubSeq(task.counterexample, 1, j) \in Seq(Letters(t))
      BY ONLY <3>1, WordFacts
    <3> QED BY ONLY <2>3, <3>1, <3>2 DEF Prefix, Words
  <2>5. Sifted(m, t, over, Prefix(task, i), s1)
    BY <2>1, <2>4, SiftFine DEF Sound
  <2> HIDE DEF s1
  <2>6. Sifted(m, t, over, Prefix(task, i - 1), s2)
    BY <2>4, <2>5, SiftFine DEF Sound, Sifted
  <2> HIDE DEF s2
  <2>7. /\ BinaryFine(L, t, over, task1) /\ task1.counterexample = task.counterexample
        /\ task1.position = i
    <3>1. SameSearch(L, t, over, task, task1)
      BY <2>1, <2>3, <2>5, SiftKept DEF Sifted
    <3> HIDE DEF task1
    <3> QED BY <3>1 DEF SameSearch
  <2> HIDE DEF task1
  <2>8. /\ BinaryFine(L, t, over, task2) /\ task2.position = i
    <3>1. OnPath(L, t, over, s2.at, Prefix(task1, i - 1)) /\ s2.at \in Nodes(t)
      BY <2>6, <2>7 DEF Sifted, Prefix
    <3>2. SameSearch(L, t, over, task1, task2)
      BY <2>3, <2>7, <3>1, SiftKept
    <3> HIDE DEF task2
    <3> QED BY <2>7, <3>2 DEF SameSearch
  <2> HIDE DEF task2
  <2>9. Truthful(m, s2.kb)
    BY <2>6 DEF Sifted
  <2>10. BinarySearched(m, t, over, f, BinaryStep(t, s2.kb, task2, task2.position))
    BY <2>8, <2>9, BinaryStepFine
  <2> QED BY <2>2, <2>8, <2>10
<1> QED BY <1>1, <1>2

(***************************************************************************)
(* The binary search, as long as answers are known.                        *)
(***************************************************************************)
LEMMA BinarySearchFine ==
    ASSUME NEW m, NEW t, NEW over, Sound(m, t, over), Sequence(t.tasks),
           Complete(Language(m), t, over), NEW task, BinaryFine(Language(m), t, over, task),
           NEW k, Truthful(m, k), NEW f, f <= t.leaf_node_count
    PROVE  Resumed(m, t, BinarySearch(t, k, task), f)
<1> DEFINE p == <<m, t, over, f>>
           base == Again(t, k, task)
           z == Len(task.counterexample)
<1>1. p[1] = m /\ p[2] = t /\ p[3] = over /\ p[4] = f
  OBVIOUS
<1> HIDE DEF p
<1>2. BinarySearch(t, k, task) = Binary!Rounds(0, base, z)
  BY DEF BinarySearch, Repeated, Binary!Rounds, BinaryBody
<1>3. z \in Nat
  BY WordFacts DEF BinaryFine, Words
<1>4. BinaryInv(p, base)
  <2>1. base.kb = k /\ base.alg = t /\ base.done = FALSE /\ base.task = task
    BY DEF Again, Outcome
  <2> HIDE DEF base
  <2>2. Resumed(m, t, base, f)
    BY <2>1, SearchLeft DEF SearchFine
  <2> QED BY <1>1, <2>1, <2>2 DEF BinaryInv, BinarySearched
<1>5. \A i \in 1..z : \A r : BinaryInv(p, r) => BinaryInv(p, BinaryBody(0, r, i))
  BY <1>1, BinaryRoundFine DEF BinaryInv, BinaryBody
<1> HIDE DEF base, z
<1>6. BinaryInv(p, Binary!Rounds(0, base, z))
  BY <1>3, <1>4, <1>5, Binary!RoundsRule
<1>7. BinarySearched(m, t, over, f, Binary!Rounds(0, base, z))
  BY <1>1, <1>6 DEF BinaryInv
<1> QED BY <1>2, <1>7 DEF BinarySearched, base, z

(***************************************************************************)
(* Performing a search or a split.                                         *)
(***************************************************************************)
LEMMA SearchPerformed ==
    ASSUME NEW m, NEW t, NEW over, Sound(m, t, over), Sequence(t.tasks),
           NEW task, Searching(Language(m), t, over, task),
           NEW k, Truthful(m, k), NEW f \in Nat, f <= t.leaf_node_count
    PROVE  Resumed(m, t, perform(t, k, task), f)
<1>1. CASE SplitFine(Language(m), t, over, task)
  BY <1>1, SplitPerformed
<1>2. CASE LinearFine(Language(m), t, over, task)
  <2>1. perform(t, k, task) = LinearSearch(t, k, task)
    BY <1>2 DEF perform, LinearFine
  <2> QED BY <1>2, <2>1, LinearSearchFine DEF Searching
<1>3. CASE BinaryFine(Language(m), t, over, task)
  <2>1. perform(t, k, task) = BinarySearch(t, k, task)
    BY <1>3 DEF perform, BinaryFine
  <2> QED BY <1>3, <2>1, BinarySearchFine DEF Searching
<1> QED BY <1>1, <1>2, <1>3 DEF Searching, SearchFine

-----------------------------------------------------------------------------
(* The list of tasks.                                                        *)

\* z is s with x at i.
Put(s, i, x, z) ==
    /\ Sequence(z) /\ Len(z) = Len(s) /\ z[i] = x
    /\ x \in Range(z) /\ Range(z) \subseteq Range(s) \cup {x}
    /\ \A j \in 1..Len(s) : j # i => s[j] \in Range(z)

\* Replacing one element of a sequence.
LEMMA PutFacts ==
    ASSUME NEW s, Sequence(s), NEW i \in 1..Len(s), NEW x
    PROVE  Put(s, i, x, [s EXCEPT ![i] = x])
<1> DEFINE z == [s EXCEPT ![i] = x]
<1>1. Len(s) \in Nat /\ DOMAIN s = 1..Len(s) /\ Range(s) = {s[j] : j \in 1..Len(s)}
  BY SequenceFacts
<1>2. /\ z = [j \in 1..Len(s) |-> z[j]]
      /\ \A j \in 1..Len(s) : z[j] = IF j = i THEN x ELSE s[j]
  BY <1>1
<1> HIDE DEF z
<1>3. Sequence(z) /\ Len(z) = Len(s) /\ Range(z) = {z[j] : j \in 1..Len(s)}
  BY <1>1, <1>2, FunctionToSequence
<1>4. Put(s, i, x, z)
  BY <1>1, <1>2, <1>3 DEF Put
<1> QED BY <1>4 DEF z

\* The only task is taken away from those that were added to it.
LEMMA FirstRemoved ==
    ASSUME NEW s, Sequence(s), Len(s) = 1, NEW added, Sequence(added)
    PROVE  RemoveAt(s \o added, 1) = added
<1> DEFINE both == s \o added
           a == SubSeq(both, 1, 1 - 1)
           b == SubSeq(both, 1 + 1, Len(both))
           W == Range(both) \cup Range(added)
<1>1. /\ Sequence(both) /\ Len(both) = 1 + Len(added) /\ Len(added) \in Nat
      /\ \A i \in 1..Len(added) : both[1 + i] = added[i]
  <2>1. /\ Sequence(both) /\ Len(both) = Len(s) + Len(added)
        /\ \A i \in (Len(s) + 1)..(Len(s) + Len(added)) : both[i] = added[i - Len(s)]
    BY ConcatFacts
  <2>2. Len(added) \in Nat
    BY SequenceFacts
  <2>3. \A i \in 1..Len(added) : 1 + i \in (Len(s) + 1)..(Len(s) + Len(added)) /\ (1 + i) - Len(s) = i
    BY <2>2
  <2> HIDE DEF both
  <2> QED BY <2>1, <2>2, <2>3
<1> HIDE DEF both
<1>2. a = <<>>
  BY SubSeqEmpty
<1>3. Sequence(b) /\ Range(b) \subseteq Range(both) /\ Len(b) = Len(added) /\ \A i \in 1..Len(added) : b[i] = added[i]
  <2>1. 1 + 1 \in Nat /\ 1 + 1 > 0 /\ Len(both) \in Int /\ Len(both) <= Len(both)
    BY <1>1
  <2>2. /\ Sequence(b) /\ Range(b) \subseteq Range(both)
        /\ Len(b) = IF 1 + 1 <= Len(both) THEN Len(both) - (1 + 1) + 1 ELSE 0
        /\ \A i \in 1..(Len(both) - (1 + 1) + 1) : b[i] = both[(1 + 1) + i - 1]
    BY <1>1, <2>1, PartFacts
  <2>3. Len(both) - (1 + 1) + 1 = Len(added) /\ \A i \in 1..Len(added) : (1 + 1) + i - 1 = 1 + i
    BY <1>1
  <2> HIDE DEF b
  <2> QED BY <1>1, <2>2, <2>3
<1> HIDE DEF a, b
<1>4. b \in Seq(W) /\ added \in Seq(W)
  BY <1>3, SequenceWithin
<1>5. b = added
  BY <1>3, <1>4, SeqEqual
<1>6. <<>> \o b = b
  BY <1>4, ConcatEmptySeq
<1>7. RemoveAt(both, 1) = a \o b
  BY DEF RemoveAt, a, b
<1> QED BY <1>2, <1>5, <1>6, <1>7 DEF both

\* The learner between two tasks.
Working(m, f, k, t) ==
    /\ Truthful(m, k)
    /\ \E over : Sound(m, t, over) /\ Waits(Language(m), t, over, t.tasks, f)

\* Other tasks for the same tree.
LEMMA OtherTasks ==
    ASSUME NEW m, NEW k, Truthful(m, k), NEW t, NEW over, Sound(m, t, over),
           NEW list, NEW f, Waits(Language(m), t, over, list, f),
           NEW u, u = [t EXCEPT !.tasks = list]
    PROVE  Working(m, f, k, u)
<1>1. TreeRecord(t)
  BY DEF Sound, TreeOf, TreeFine
<1>2. SameTree(t, u) /\ u.tasks = list
  BY <1>1 DEF SameTree, TreeRecord
<1>3. Sound(m, u, over) /\ Waits(Language(m), u, over, list, f)
  BY <1>2, SameTreeSound, SameTreeWaits
<1> QED BY <1>2, <1>3 DEF Working

(***************************************************************************)
(* A task of the list is performed: removed if it is done, else kept as it *)
(* is now.                                                                 *)
(***************************************************************************)
LEMMA WorkOnFine ==
    ASSUME NEW m, NEW f \in Nat, NEW k, NEW t, Working(m, f, k, t), NEW i \in 1..Len(t.tasks),
           NEW s, s = WorkOn(perform(t, k, t.tasks[i]), i)
    PROVE  Working(m, f, s.kb, s.alg) /\ s.next \in {i, i + 1}
<1> DEFINE L == Language(m)
           task == t.tasks[i]
           r == perform(t, k, task)
           gone == RemoveAt(r.alg.tasks, i)
           kept == [r.alg.tasks EXCEPT ![i] = r.task]
<1>1. Truthful(m, k)
  BY DEF Working
<1>2. PICK over : Sound(m, t, over) /\ Waits(L, t, over, t.tasks, f)
  BY DEF Working
<1>3. Sequence(t.tasks) /\ Range(t.tasks) = {t.tasks[j] : j \in 1..Len(t.tasks)}
      /\ task \in Range(t.tasks)
  BY <1>2, SequenceFacts DEF Waits
<1> HIDE DEF r
<1>4. ASSUME NEW over2, Sound(m, r.alg, over2)
      PROVE  /\ r.done => s.alg = [r.alg EXCEPT !.tasks = gone] /\ s.kb = r.kb /\ s.next = i
             /\ ~r.done => s.alg = [r.alg EXCEPT !.tasks = kept] /\ s.kb = r.kb /\ s.next = i + 1
  <2>1. "tasks" \in DOMAIN r.alg
    BY <1>4 DEF Sound, TreeOf, TreeFine, TreeRecord
  <2> QED BY <2>1 DEF WorkOn, r
<1>5. CASE Computing(L, t, over, Range(t.tasks)) /\ f < t.leaf_node_count
  <2>1. Computed(m, t, over, Range(t.tasks), task, r)
    BY <1>1, <1>2, <1>3, <1>5, ComputeFine DEF r
  <2>2. /\ Truthful(m, r.kb) /\ Sound(m, r.alg, over)
        /\ r.alg.tasks = t.tasks /\ r.alg.leaf_node_count = t.leaf_node_count
        /\ \A Q : /\ Range(t.tasks) \ {task} \subseteq Q /\ Q \subseteq Range(t.tasks) \cup {r.task}
                  /\ r.done \/ r.task \in Q
                  => Computing(L, r.alg, over, Q)
    BY <2>1 DEF Computed
  <2> HIDE DEF task
  <2>3. CASE r.done
    <3>1. /\ Sequence(gone) /\ Range(gone) \subseteq Range(t.tasks)
          /\ \A j \in 1..Len(t.tasks) : j # i => t.tasks[j] \in Range(gone)
      BY <1>3, <2>2, RemoveAtFacts
    <3> HIDE DEF gone
    <3>2. Range(t.tasks) \ {task} \subseteq Range(gone)
      BY <1>3, <3>1 DEF task
    <3>3. Computing(L, r.alg, over, Range(gone))
      BY <2>2, <2>3, <3>1, <3>2
    <3>4. Waits(L, r.alg, over, gone, f)
      BY <1>5, <2>2, <3>1, <3>3 DEF Waits
    <3>5. s.alg = [r.alg EXCEPT !.tasks = gone] /\ s.kb = r.kb /\ s.next = i
      BY <1>4, <2>2, <2>3
    <3> QED BY <2>2, <3>4, <3>5, OtherTasks
  <2>4. CASE ~r.done
    <3>1. Put(t.tasks, i, r.task, kept)
      BY <1>3, <2>2, PutFacts
    <3> HIDE DEF kept
    <3>2. /\ Sequence(kept) /\ Range(kept) \subseteq Range(t.tasks) \cup {r.task}
          /\ r.task \in Range(kept) /\ Range(t.tasks) \ {task} \subseteq Range(kept)
      BY <1>3, <3>1 DEF Put, task
    <3>3. Computing(L, r.alg, over, Range(kept))
      BY <2>2, <3>2
    <3>4. Waits(L, r.alg, over, kept, f)
      BY <1>5, <2>2, <3>2, <3>3 DEF Waits
    <3>5. s.alg = [r.alg EXCEPT !.tasks = kept] /\ s.kb = r.kb /\ s.next = i + 1
      BY <1>4, <2>2, <2>4
    <3> QED BY <2>2, <3>4, <3>5, OtherTasks
  <2> QED BY <2>3, <2>4
<1>6. CASE Len(t.tasks) = 1 /\ Searching(L, t, over, t.tasks[1]) /\ f <= t.leaf_node_count
  <2>1. i = 1
    BY <1>6
  <2>2. Resumed(m, t, r, f)
    BY <1>1, <1>2, <1>3, <1>6, <2>1, SearchPerformed DEF r
  <2>3. PICK over2 : /\ Sound(m, r.alg, over2)
                     /\ \/ /\ ~r.done /\ r.alg.tasks = t.tasks
                           /\ Searching(L, r.alg, over2, r.task) /\ f <= r.alg.leaf_node_count
                        \/ /\ r.done
                           /\ \E added : /\ r.alg.tasks = t.tasks \o added
                                         /\ Waits(L, r.alg, over2, added, f)
    BY <2>2 DEF Resumed
  <2>4. Truthful(m, r.kb)
    BY <2>2 DEF Resumed
  <2>5. CASE r.done
    <3>1. PICK added : r.alg.tasks = t.tasks \o added /\ Waits(L, r.alg, over2, added, f)
      BY <2>3, <2>5
    <3>2. gone = added
      BY <1>3, <1>6, <2>1, <3>1, FirstRemoved DEF Waits
    <3> HIDE DEF gone
    <3>3. s.alg = [r.alg EXCEPT !.tasks = gone] /\ s.kb = r.kb /\ s.next = i
      BY <1>4, <2>3, <2>5
    <3> QED BY <2>3, <2>4, <3>1, <3>2, <3>3, OtherTasks
  <2>6. CASE ~r.done
    <3>1. r.alg.tasks = t.tasks /\ Searching(L, r.alg, over2, r.task) /\ f <= r.alg.leaf_node_count
      BY <2>3, <2>6
    <3>2. Put(t.tasks, i, r.task, kept)
      BY <1>3, <3>1, PutFacts
    <3> HIDE DEF kept
    <3>3. Waits(L, r.alg, over2, kept, f)
      BY <1>6, <2>1, <3>1, <3>2 DEF Waits, Put
    <3>4. s.alg = [r.alg EXCEPT !.tasks = kept] /\ s.kb = r.kb /\ s.next = i + 1
      BY <1>4, <2>3, <2>6
    <3> QED BY <2>3, <2>4, <3>3, <3>4, OtherTasks
  <2> QED BY <2>5, <2>6
<1> QED BY <1>2, <1>5, <1>6 DEF Waits

WorkBody(c, s, i) == WorkRound(s)
WorkInv(c, s) == s.next \in Nat \ {0} /\ Working(c[1], c[2], s.kb, s.alg)
Toil == INSTANCE LoopRules WITH Body <- WorkBody, Inv <- WorkInv

\* How many rounds there are, whatever the list, is a number.
RoundsOfWork(t) == Len(t.tasks) + 2 + (Len(t.node) + 1) * t.alphabet_size

(***************************************************************************)
(* One call of advance() works through the list.                           *)
(***************************************************************************)
LEMMA WorkFine ==
    ASSUME NEW m, NEW f \in Nat, NEW k, NEW t, Working(m, f, k, t)
    PROVE  Working(m, f, Work(t, k).kb, Work(t, k).alg)
<1> DEFINE p == <<m, f>>
           base == [alg |-> t, kb |-> k, next |-> 1]
           z == RoundsOfWork(t)
<1>1. p[1] = m /\ p[2] = f
  OBVIOUS
<1> HIDE DEF p
<1>2. Work(t, k) = Toil!Rounds(0, base, z)
  BY DEF Work, Repeated, Toil!Rounds, WorkBody, RoundsOfWork
<1>3. z \in Nat
  <2>1. PICK over : Sound(m, t, over) /\ Waits(Language(m), t, over, t.tasks, f)
    BY DEF Working
  <2>2. Len(t.tasks) \in Nat /\ Len(t.node) \in Nat /\ t.alphabet_size \in Nat
    BY <2>1, SequenceFacts DEF Waits, Sound, TreeOf, TreeFine, TreeRecord
  <2>3. (Len(t.node) + 1) * t.alphabet_size \in Nat
    BY <2>2
  <2> QED BY <2>2, <2>3 DEF RoundsOfWork
<1>4. WorkInv(p, base)
  BY <1>1 DEF WorkInv
<1>5. ASSUME NEW i \in 1..z, NEW s, WorkInv(p, s) PROVE WorkInv(p, WorkBody(0, s, i))
  <2>1. s.next \in Nat /\ s.next # 0 /\ Working(m, f, s.kb, s.alg)
    BY <1>1, <1>5 DEF WorkInv
  <2>2. CASE s.next > Len(s.alg.tasks)
    BY <1>5, <2>2 DEF WorkBody, WorkRound
  <2>3. CASE ~(s.next > Len(s.alg.tasks))
    <3> DEFINE u == WorkOn(perform(s.alg, s.kb, s.alg.tasks[s.next]), s.next)
    <3>1. s.next \in 1..Len(s.alg.tasks)
      <4>1. PICK over : Waits(Language(m), s.alg, over, s.alg.tasks, f)
        BY <2>1 DEF Working
      <4>2. Len(s.alg.tasks) \in Nat
        BY <4>1, SequenceFacts DEF Waits
      <4> QED BY <2>1, <2>3, <4>2
    <3>2. WorkBody(0, s, i) = u
      BY <2>3 DEF WorkBody, WorkRound
    <3> HIDE DEF u
    <3>3. Working(m, f, u.kb, u.alg) /\ u.next \in {s.next, s.next + 1}
      <4> DEFINE h == s.alg
                 l == s.kb
                 j == s.next
      <4>1. u = WorkOn(perform(h, l, h.tasks[j]), j)
        BY DEF u
      <4>2. Working(m, f, l, h) /\ j \in 1..Len(h.tasks)
        BY <2>1, <3>1
      <4> HIDE DEF h, l, j
      <4>3. Working(m, f, u.kb, u.alg) /\ u.next \in {j, j + 1}
        BY <4>1, <4>2, WorkOnFine
      <4> QED BY <4>3 DEF j
    <3>4. u.next \in Nat \ {0}
      BY <2>1, <3>3
    <3> QED BY <1>1, <3>2, <3>3, <3>4 DEF WorkInv
  <2> QED BY <2>2, <2>3
<1> HIDE DEF base, z
<1>6. WorkInv(p, Toil!Rounds(0, base, z))
  BY <1>3, <1>4, <1>5, Toil!RoundsRule
<1> QED BY <1>1, <1>2, <1>6 DEF WorkInv

-----------------------------------------------------------------------------
(* New tasks.                                                                *)

\* Those that were not tried yet, after i of them.
Untried(list, i) == {list[j] : j \in (i + 1)..Len(list)}

\* The learner when i of the transitions in list were tried.
Trying(m, f, list, i, s) ==
    /\ Truthful(m, s.kb)
    /\ \E over : /\ Sound(m, s.alg, over) /\ Sequence(s.alg.tasks)
                 /\ Computing(Language(m), s.alg, over, Range(s.alg.tasks) \cup Untried(list, i))
                 /\ f < s.alg.leaf_node_count

TryBody(c, s, task) == Tried(perform(s.alg, s.kb, task))
TryInv(c, x) == Trying(c[1], c[2], c[3], x[1], x[2])
Trial == INSTANCE LoopRules WITH Body <- TryBody, Inv <- TryInv

\* The loop over the waiting tasks is a loop of LoopRules ...
LEMMA TryIsLoop ==
    ASSUME NEW t, NEW k, NEW list
    PROVE  TryAll(t, k, list) = Trial!Loop(0, [alg |-> t, kb |-> k], list)
BY DEF TryAll, Trial!Loop, Trial!FoldLeft, Trial!MapThenFoldSet, Trial!Max,
   FoldLeft, MapThenFoldSet, Max, TryBody

\* ... and every round of it keeps the tree and the tasks tried so far in
\* order.
LEMMA TriedFine ==
    ASSUME NEW m, NEW f, NEW list, Sequence(list), NEW i \in 1..Len(list),
           NEW s, Trying(m, f, list, i - 1, s)
    PROVE  Trying(m, f, list, i, TryBody(0, s, list[i]))
<1> DEFINE L == Language(m)
           t == s.alg
           task == list[i]
           P == Range(t.tasks) \cup Untried(list, i - 1)
           r == perform(t, s.kb, task)
           longer == add_last(r.alg, r.task)
           z == TryBody(0, s, list[i])
<1>1. PICK over : /\ Sound(m, t, over) /\ Sequence(t.tasks)
                  /\ Computing(L, t, over, P)
                  /\ f < t.leaf_node_count
  BY DEF Trying
<1>2. Truthful(m, s.kb)
  BY DEF Trying
<1>3. task \in P /\ Untried(list, i - 1) = Untried(list, i) \cup {task}
  <2>1. Len(list) \in Nat
    BY SequenceFacts
  <2>2. ((i - 1) + 1)..Len(list) = ((i + 1)..Len(list)) \cup {i}
    BY <2>1
  <2> QED BY <2>2 DEF Untried
<1> HIDE DEF P
<1>4. Computed(m, t, over, P, task, r)
  BY <1>1, <1>2, <1>3, ComputeFine
<1> HIDE DEF r, task
<1>5. /\ Truthful(m, r.kb) /\ Sound(m, r.alg, over)
      /\ r.alg.tasks = t.tasks /\ r.alg.leaf_node_count = t.leaf_node_count
      /\ \A Q : /\ P \ {task} \subseteq Q /\ Q \subseteq P \cup {r.task}
                /\ r.done \/ r.task \in Q
                => Computing(L, r.alg, over, Q)
  BY <1>4 DEF Computed
<1>6. CASE r.done
  <2>1. z.alg = r.alg /\ z.kb = r.kb
    BY <1>6 DEF TryBody, Tried, r, task
  <2>2. Computing(L, r.alg, over, Range(t.tasks) \cup Untried(list, i))
    BY <1>3, <1>5, <1>6 DEF P
  <2> HIDE DEF z
  <2>3. Trying(m, f, list, i, z)
    BY <1>1, <1>5, <2>1, <2>2 DEF Trying
  <2> QED BY <2>3 DEF z
<1>7. CASE ~r.done
  <2>1. z.alg = longer /\ z.kb = r.kb
    BY <1>7 DEF TryBody, Tried, r, task
  <2>2. TreeRecord(r.alg) /\ Sequence(r.alg.tasks)
    BY <1>1, <1>5 DEF Sound, TreeOf, TreeFine
  <2>3. /\ SameTree(r.alg, longer) /\ longer.tasks = r.alg.tasks \o <<r.task>>
        /\ Sequence(<<r.task>>) /\ Range(<<r.task>>) = {r.task}
    BY <2>2, AddedLast
  <2> HIDE DEF longer
  <2>4. Sequence(longer.tasks) /\ Range(longer.tasks) = Range(t.tasks) \cup {r.task}
    BY <1>5, <2>2, <2>3, ConcatFacts
  <2>5. Computing(L, r.alg, over, Range(longer.tasks) \cup Untried(list, i))
    BY <1>3, <1>5, <2>4 DEF P
  <2>6. Sound(m, longer, over) /\ Computing(L, longer, over, Range(longer.tasks) \cup Untried(list, i))
    BY <1>5, <2>3, <2>5, SameTreeSound, SameTreeWaits
  <2>7. f < longer.leaf_node_count
    BY <1>1, <1>5, <2>3 DEF SameTree
  <2> HIDE DEF z
  <2>8. Trying(m, f, list, i, z)
    BY <1>5, <2>1, <2>4, <2>6, <2>7 DEF Trying
  <2> QED BY <2>8 DEF z
<1> QED BY <1>6, <1>7

(***************************************************************************)
(* Transitions that are tried in turn are set or wait.                     *)
(***************************************************************************)
LEMMA TryAllFine ==
    ASSUME NEW m, NEW f, NEW list, Sequence(list), NEW t, NEW k, Truthful(m, k),
           NEW over, Sound(m, t, over), t.tasks = <<>>, f < t.leaf_node_count,
           Computing(Language(m), t, over, Range(list))
    PROVE  Working(m, f, TryAll(t, k, list).kb, TryAll(t, k, list).alg)
<1> DEFINE p == <<m, f, list>>
           base == [alg |-> t, kb |-> k]
           s == TryAll(t, k, list)
<1>1. p[1] = m /\ p[2] = f /\ p[3] = list
  OBVIOUS
<1> HIDE DEF p
<1>2. Len(list) \in Nat /\ DOMAIN list = 1..Len(list) /\ Range(list) = {list[j] : j \in 1..Len(list)}
  BY SequenceFacts
<1>3. Sequence(t.tasks) /\ Range(t.tasks) = {} /\ Untried(list, 0) = Range(list) /\ Untried(list, Len(list)) = {}
  BY <1>2, EmptySequence DEF Untried
<1>4. Trying(m, f, list, 0, base)
  <2>1. Range(t.tasks) \cup Untried(list, 0) = Range(list)
    BY <1>3
  <2> QED BY <1>3, <2>1 DEF Trying
<1> HIDE DEF base
<1>5. TryInv(p, <<0, base>>)
  BY <1>1, <1>4 DEF TryInv
<1>6. \A i \in 1..Len(list) : \A x : TryInv(p, <<i - 1, x>>) => TryInv(p, <<i, TryBody(0, x, list[i])>>)
  BY <1>1, TriedFine DEF TryInv
<1>7. TryInv(p, <<Len(list), Trial!Loop(0, base, list)>>)
  BY <1>2, <1>5, <1>6, Trial!CountedFoldRule
<1>8. s = Trial!Loop(0, base, list)
  BY TryIsLoop DEF base
<1> HIDE DEF s
<1>9. Trying(m, f, list, Len(list), s)
  BY <1>1, <1>7, <1>8 DEF TryInv
<1>10. PICK over2 : /\ Sound(m, s.alg, over2) /\ Sequence(s.alg.tasks)
                    /\ Computing(Language(m), s.alg, over2, Range(s.alg.tasks) \cup Untried(list, Len(list)))
                    /\ f < s.alg.leaf_node_count
  BY <1>9 DEF Trying
<1>11. Range(s.alg.tasks) \cup Untried(list, Len(list)) = Range(s.alg.tasks)
  BY <1>3
<1>12. Waits(Language(m), s.alg, over2, s.alg.tasks, f)
  BY <1>10, <1>11 DEF Waits
<1>13. Working(m, f, s.kb, s.alg)
  BY <1>9, <1>10, <1>12 DEF Working, Trying
<1> QED BY <1>13 DEF s

(***************************************************************************)
(* The search for a bad prefix starts at once.                             *)
(***************************************************************************)
LEMMA TrySearchFine ==
    ASSUME NEW m, NEW f \in Nat, NEW t, NEW k, Truthful(m, k), NEW over, Sound(m, t, over),
           t.tasks = <<>>, f <= t.leaf_node_count, NEW task, Searching(Language(m), t, over, task)
    PROVE  Working(m, f, TryAll(t, k, <<task>>).kb, TryAll(t, k, <<task>>).alg)
<1> DEFINE L == Language(m)
           base == [alg |-> t, kb |-> k]
           list == <<task>>
           s == TryAll(t, k, list)
           r == perform(t, k, task)
           longer == add_last(r.alg, r.task)
<1>1. s = Tried(r)
  <2>1. 1 \in Nat /\ DOMAIN list = 1..1 /\ list[1] = task
    OBVIOUS
  <2> HIDE DEF list, base
  <2>a. PICK n \in Nat : n = 1
    OBVIOUS
  <2>b. DOMAIN list = 1..n
    BY <2>1, <2>a
  <2>c. \E g : Trial!Turns(g, 0, base, list, n) /\ Trial!Loop(0, base, list) = g[n]
    BY ONLY <2>b, Trial!FoldSteps
  <2>2. PICK g : Trial!Turns(g, 0, base, list, 1) /\ Trial!Loop(0, base, list) = g[1]
    BY <2>a, <2>c
  <2>3. g[0] = base /\ g[1] = TryBody(0, g[1 - 1], list[1])
    BY <2>2 DEF Trial!Turns
  <2>4. g[1] = TryBody(0, base, task)
    BY <2>1, <2>3
  <2> QED BY <2>2, <2>4, TryIsLoop DEF TryBody, base
<1>2. Sequence(t.tasks)
  BY EmptySequence
<1> HIDE DEF r, s
<1>3. Resumed(m, t, r, f)
  BY <1>2, SearchPerformed DEF r
<1>4. PICK over2 : /\ Sound(m, r.alg, over2)
                   /\ \/ /\ ~r.done /\ r.alg.tasks = t.tasks
                         /\ Searching(L, r.alg, over2, r.task) /\ f <= r.alg.leaf_node_count
                      \/ /\ r.done
                         /\ \E added : /\ r.alg.tasks = t.tasks \o added
                                       /\ Waits(L, r.alg, over2, added, f)
  BY <1>3 DEF Resumed
<1>5. Truthful(m, r.kb)
  BY <1>3 DEF Resumed
<1>6. CASE r.done
  <2>1. PICK added : r.alg.tasks = t.tasks \o added /\ Waits(L, r.alg, over2, added, f)
    BY <1>4, <1>6
  <2>2. added \in Seq(Range(added))
    BY <2>1, SequenceWithin DEF Waits
  <2>3. r.alg.tasks = added
    BY <2>1, <2>2, ConcatEmptySeq
  <2>4. s.alg = r.alg /\ s.kb = r.kb
    BY <1>1, <1>6 DEF Tried
  <2> QED BY <1>4, <1>5, <2>1, <2>3, <2>4 DEF Working, s
<1>7. CASE ~r.done
  <2>1. r.alg.tasks = <<>> /\ Searching(L, r.alg, over2, r.task) /\ f <= r.alg.leaf_node_count
    BY <1>4, <1>7
  <2>2. s.alg = longer /\ s.kb = r.kb
    BY <1>1, <1>7 DEF Tried
  <2>3. TreeRecord(r.alg) /\ Sequence(r.alg.tasks)
    BY <1>4, <2>1, EmptySequence DEF Sound, TreeOf, TreeFine
  <2>4. /\ SameTree(r.alg, longer) /\ longer.tasks = r.alg.tasks \o <<r.task>>
        /\ Sequence(<<r.task>>) /\ Len(<<r.task>>) = 1 /\ <<r.task>>[1] = r.task
    BY <2>3, AddedLast
  <2> HIDE DEF longer
  <2>5. <<>> \o <<r.task>> = <<r.task>>
    <3> DEFINE one == <<r.task>>
    <3>1. one \in Seq(Range(one))
      BY <2>4, SequenceWithin
    <3> HIDE DEF one
    <3>2. <<>> \o one = one
      BY <3>1, ConcatEmptySeq
    <3> QED BY <3>2 DEF one
  <2>6. Sound(m, longer, over2) /\ Searching(L, longer, over2, r.task)
    BY <1>4, <2>1, <2>4, SameTreeSound, SameTreeWaits
  <2>7. Waits(L, longer, over2, longer.tasks, f)
    BY <2>1, <2>4, <2>5, <2>6 DEF Waits, SameTree
  <2> QED BY <1>5, <2>2, <2>6, <2>7 DEF Working, s
<1> QED BY <1>6, <1>7

-----------------------------------------------------------------------------
(* The first counterexample.                                                 *)

\* What is above the nodes of the first tree.
FirstOver == [n \in 1..3 |-> IF n = 3 THEN {} ELSE {3}]

\* Grown, node by node.
IsGrown(t, u, low, high, first) ==
    /\ TreeRecord(u) /\ u.tasks = t.tasks /\ u.alphabet_size = t.alphabet_size
    /\ u.root = 3 /\ u.initial_state = first /\ u.leaf_node_count = 2 /\ u.initial_phase = FALSE
    /\ Sequence(u.node) /\ Len(u.node) = 3
    /\ \E i, j : /\ {i, j} = {0, 1}
                 /\ u.node[1] = leaf_node(low, 1, 3, i, FALSE, t.alphabet_size)
                 /\ u.node[2] = leaf_node(high, 1, 3, j, TRUE, t.alphabet_size)
    /\ u.node[3] = inner_node(<<>>, 0, NULL, 1, 2)

\* The tree made of the first counterexample, node by node: it tells that word
\* from the empty one.
LEMMA GrownNodes ==
    ASSUME NEW t, TreeRecord(t), NEW w, w # <<>>, NEW a
    PROVE  IsGrown(t, Grown(t, w, a), IF a = Accept THEN w ELSE <<>>, IF a = Accept THEN <<>> ELSE w,
                   IF a = Accept THEN 2 ELSE 1)
<1> DEFINE low == IF a = Accept THEN w ELSE <<>>
           high == IF a = Accept THEN <<>> ELSE w
           i == IF low = <<>> THEN 0 ELSE 1
           j == IF high = <<>> THEN 0 ELSE 1
           nodes == <<leaf_node(low, 1, 3, i, FALSE, t.alphabet_size),
                      leaf_node(high, 1, 3, j, TRUE, t.alphabet_size),
                      inner_node(<<>>, 0, NULL, 1, 2)>>
           u == Grown(t, w, a)
<1>1. u = [t EXCEPT !.node = nodes, !.root = 3, !.initial_state = IF a = Accept THEN 2 ELSE 1,
                    !.initial_phase = FALSE, !.leaf_node_count = 2, !.inner_node_count = 1]
  BY DEF Grown
<1>2. {i, j} = {0, 1}
  OBVIOUS
<1>3. /\ Sequence(nodes) /\ Len(nodes) = 3
      /\ nodes[1] = leaf_node(low, 1, 3, i, FALSE, t.alphabet_size)
      /\ nodes[2] = leaf_node(high, 1, 3, j, TRUE, t.alphabet_size)
      /\ nodes[3] = inner_node(<<>>, 0, NULL, 1, 2)
  <2>1. nodes = [n \in 1..3 |-> nodes[n]]
    OBVIOUS
  <2> QED BY <2>1, FunctionToSequence
<1> HIDE DEF nodes, u
<1>4. /\ DOMAIN u = DOMAIN t /\ u.tasks = t.tasks /\ u.alphabet_size = t.alphabet_size
      /\ u.root = 3 /\ u.initial_state = (IF a = Accept THEN 2 ELSE 1) /\ u.leaf_node_count = 2
      /\ u.initial_phase = FALSE /\ u.node = nodes
  BY <1>1 DEF TreeRecord
<1>5. TreeRecord(u)
  BY <1>4 DEF TreeRecord
<1>6. IsGrown(t, u, low, high, IF a = Accept THEN 2 ELSE 1)
  <2> HIDE DEF i, j, low, high
  <2> QED BY <1>2, <1>3, <1>4, <1>5 DEF IsGrown
<1> QED BY <1>6 DEF u

\* A leaf that leaf_node just made has the fields of a leaf, whatever it is given.
LEMMA NewLeafIsLeaf ==
    ASSUME NEW t, NEW label, NEW level, NEW parent, NEW id \in Nat, NEW accepting, accepting \in BOOLEAN,
           NEW x, x = leaf_node(label, level, parent, id, accepting, t.alphabet_size)
    PROVE  LeafNode(t, x)
  BY DEF LeafNode, leaf_node, Letters

\* The first tree tells the two words apart.
LEMMA GrownFine ==
    ASSUME NEW m \in Targets, NEW t, t.alphabet_size = m.input_alphabet_size, NEW u, NEW low, NEW high,
           NEW first, IsGrown(t, u, low, high, first), low \in Words(t), high \in Words(t),
           low \notin Language(m), high \in Language(m),
           \/ first = 1 /\ low = <<>>
           \/ first = 2 /\ high = <<>>
    PROVE  Sound(m, u, FirstOver)
<1> DEFINE L == Language(m)
           over == FirstOver
<1>1. /\ TreeRecord(u) /\ u.tasks = t.tasks /\ u.alphabet_size = t.alphabet_size
      /\ u.root = 3 /\ u.initial_state = first /\ u.leaf_node_count = 2
      /\ u.initial_phase = FALSE /\ Sequence(u.node) /\ Len(u.node) = 3
      /\ u.node[3] = inner_node(<<>>, 0, NULL, 1, 2)
  BY DEF IsGrown
<1>2. PICK i, j : /\ {i, j} = {0, 1}
                  /\ u.node[1] = leaf_node(low, 1, 3, i, FALSE, t.alphabet_size)
                  /\ u.node[2] = leaf_node(high, 1, 3, j, TRUE, t.alphabet_size)
  BY DEF IsGrown
<1>3. Nodes(u) = {1, 2, 3} /\ Letters(u) = Letters(t) /\ Words(u) = Words(t)
  <2>1. 1..3 = {1, 2, 3}
    OBVIOUS
  <2> QED BY <1>1, <2>1 DEF Nodes, Letters, Words
<1>4. /\ u.node[1].leaf = TRUE /\ u.node[1].label = low /\ u.node[1].level = 1 /\ u.node[1].parent = 3
      /\ u.node[1].id = i /\ u.node[1].accepting = FALSE /\ u.node[1].incoming = {}
      /\ u.node[2].leaf = TRUE /\ u.node[2].label = high /\ u.node[2].level = 1 /\ u.node[2].parent = 3
      /\ u.node[2].id = j /\ u.node[2].accepting = TRUE /\ u.node[2].incoming = {}
      /\ u.node[3].leaf = FALSE /\ u.node[3].label = <<>> /\ u.node[3].level = 0
      /\ u.node[3].left = 1 /\ u.node[3].right = 2
  BY <1>1, <1>2 DEF leaf_node, inner_node
<1>5. LeavesOf(u) = {1, 2} /\ InnerOf(u) = {3}
  BY <1>3, <1>4 DEF LeavesOf, InnerOf
<1>6. over[1] = {3} /\ over[2] = {3} /\ over[3] = {}
  BY DEF FirstOver
<1> HIDE DEF over
<1>7. TreeFine(u, over)
  <2>1. ASSUME NEW n \in Nodes(u) PROVE NodeFine(u, u.node[n])
    <3>1. LeafNode(u, u.node[1]) /\ LeafNode(u, u.node[2])
      <4>1. i \in Nat /\ j \in Nat
        <5>1. i \in {0, 1} /\ j \in {0, 1}
          BY <1>2
        <5> QED BY ONLY <5>1
      <4>2. LeafNode(u, u.node[1])
        <5>1. u.node[1] = leaf_node(low, 1, 3, i, FALSE, u.alphabet_size)
          BY <1>1, <1>2
        <5>2. PICK accepting : accepting = FALSE
          OBVIOUS
        <5>3. accepting \in BOOLEAN /\ u.node[1] = leaf_node(low, 1, 3, i, accepting, u.alphabet_size)
          BY <5>1, <5>2
        <5> QED BY ONLY <4>1, <5>3, NewLeafIsLeaf
      <4>3. LeafNode(u, u.node[2])
        <5>1. u.node[2] = leaf_node(high, 1, 3, j, TRUE, u.alphabet_size)
          BY <1>1, <1>2
        <5>2. PICK accepting : accepting = TRUE
          OBVIOUS
        <5>3. accepting \in BOOLEAN /\ u.node[2] = leaf_node(high, 1, 3, j, accepting, u.alphabet_size)
          BY <5>1, <5>2
        <5> QED BY ONLY <4>1, <5>3, NewLeafIsLeaf
      <4> QED BY <4>2, <4>3
    <3>2. InnerNode(u.node[3])
      BY <1>1 DEF InnerNode, inner_node
    <3>3. <<>> \in Words(t)
      BY EmptySeq DEF Words
    <3> QED BY <1>3, <1>4, <3>1, <3>2, <3>3 DEF NodeFine
  <2>2. ASSUME NEW n \in Nodes(u) \ {u.root} PROVE Hangs(u, over, n)
    BY <1>1, <1>3, <1>4, <1>5, <1>6 DEF Hangs
  <2>3. ASSUME NEW n \in InnerOf(u) PROVE Parent(u, n)
    BY <1>1, <1>3, <1>4, <1>5 DEF Parent
  <2>4. ASSUME NEW n \in Nodes(u) PROVE Chain(u, over, n)
    BY <1>1, <1>3, <1>4, <1>5, <1>6 DEF Chain, Line
  <2> QED BY <1>1, <1>4, <1>5, <1>6, <2>1, <2>2, <2>3, <2>4 DEF TreeFine
<1>8. TreeOf(m, u, over)
  BY <1>1, <1>7 DEF TreeOf
<1>9. IdsFine(u)
  <2>1. {u.node[n].id : n \in LeavesOf(u)} = 0..(2 - 1)
    <3>1. {u.node[n].id : n \in LeavesOf(u)} = {u.node[1].id, u.node[2].id}
      BY <1>5
    <3>2. 0..(2 - 1) = {0, 1}
      OBVIOUS
    <3> QED BY <1>2, <1>4, <3>1, <3>2
  <2>2. Cardinality({1, 2}) = 2
    <3>1. IsFiniteSet({1}) /\ Cardinality({1}) = 1
      BY FS_Singleton
    <3>2. Cardinality({1} \cup {2}) = Cardinality({1}) + 1
      <4>1. 2 \notin {1}
        OBVIOUS
      <4> QED BY <3>1, <4>1, FS_AddElement
    <3>3. {1} \cup {2} = {1, 2}
      OBVIOUS
    <3>4. Cardinality({1, 2}) = Cardinality({1}) + 1
      BY ONLY <3>2, <3>3, Zenon
    <3> QED BY ONLY <3>1, <3>4
  <2>3. u.leaf_node_count = 2 /\ LeavesOf(u) = {1, 2}
    BY <1>1, <1>5
  <2> QED BY ONLY <2>1, <2>2, <2>3 DEF IdsFine
<1>10. LeavesFine(L, u, over)
  <2>1. low \o <<>> = low /\ high \o <<>> = high
    BY WordFacts DEF Words
  <2>2. Child(L, u, 3, low) = 1 /\ Child(L, u, 3, high) = 2
    BY <1>4, <2>1 DEF Child
  <2>3. OnPath(L, u, over, 1, low) /\ OnPath(L, u, over, 2, high)
    BY <1>6, <2>2 DEF OnPath, Line
  <2>4. LeafFine(L, u, over, 1) /\ LeafFine(L, u, over, 2)
    <3>1. u.node[1].accepting = (low \in L) /\ u.node[2].accepting = (high \in L)
      <4>1. (low \in L) = FALSE /\ (high \in L) = TRUE
        <5>1. ~(low \in L) /\ high \in L
          OBVIOUS
        <5> HIDE DEF L
        <5> QED BY ONLY <5>1
      <4> HIDE DEF L
      <4> QED BY ONLY <1>4, <4>1
    <3> HIDE DEF L
    <3>2. LeafFine(L, u, over, 1)
      BY <1>4, <2>3, <3>1 DEF LeafFine
    <3>3. LeafFine(L, u, over, 2)
      BY <1>4, <2>3, <3>1 DEF LeafFine
    <3> QED BY <3>2, <3>3
  <2> QED BY <1>1, <1>4, <1>5, <2>4 DEF LeavesFine
<1> QED BY <1>1, <1>8, <1>9, <1>10 DEF Sound, over

\* The first tasks are those of all transitions.
LEMMA FirstTasksFine ==
    ASSUME NEW L, NEW u, NEW over, TreeFine(u, over), LeavesOf(u) = {1, 2}
    PROVE  /\ Sequence(FirstTasks(u))
           /\ Computing(L, u, over, Range(FirstTasks(u)))
<1> DEFINE k == u.alphabet_size
           list == FirstTasks(u)
<1>1. k \in Nat /\ 2 * k \in Nat
  BY DEF TreeFine, TreeRecord
<1>2. list = [i \in 1..(2 * k) |-> compute_transition_task(u, 2 - (i % 2), (i - 1) \div 2)]
  BY DEF FirstTasks
<1> HIDE DEF list
<1>3. Sequence(list) /\ Range(list) = {list[i] : i \in 1..(2 * k)}
  <2>1. list = [i \in 1..(2 * k) |-> list[i]]
    BY <1>2
  <2> QED BY <1>1, <2>1, FunctionToSequence
<1>4. \A i \in 1..(2 * k) : list[i] = compute_transition_task(u, 2 - (i % 2), (i - 1) \div 2)
  BY <1>2
<1>5. ASSUME NEW p \in Range(list) PROVE TransitionFine(L, u, over, p)
  <2>1. PICK i \in 1..(2 * k) : p = list[i]
    BY <1>3
  <2>2. 2 - (i % 2) \in {1, 2} /\ (i - 1) \div 2 \in 0..(k - 1)
    BY <1>1
  <2>3. p = [kind |-> "transition", source |-> 2 - (i % 2), symbol |-> (i - 1) \div 2, at |-> u.root]
    BY <1>4, <2>1 DEF compute_transition_task
  <2>4. u.root \in Nodes(u) /\ \A w : OnPath(L, u, over, u.root, w)
    BY AtRoot
  <2> QED BY <2>2, <2>3, <2>4 DEF TransitionFine, Letters
<1>6. ASSUME NEW n \in LeavesOf(u), NEW a \in Letters(u) PROVE Awaits(Range(list), n, a)
  <2> DEFINE i == 2 * a + n
  <2>1. n \in {1, 2} /\ a \in 0..(k - 1)
    BY DEF Letters
  <2>2. i \in 1..(2 * k) /\ 2 - (i % 2) = n /\ (i - 1) \div 2 = a
    BY <1>1, <2>1
  <2> HIDE DEF i
  <2>3. list[i] = [kind |-> "transition", source |-> n, symbol |-> a, at |-> u.root] /\ list[i] \in Range(list)
    BY <1>3, <1>4, <2>2 DEF compute_transition_task
  <2> QED BY <2>3 DEF Awaits
<1> QED BY <1>3, <1>5, <1>6 DEF Computing, TransitionsFine, list

(***************************************************************************)
(* The first counterexample, if the answer to the empty word is known,     *)
(* makes a tree of two leaves whose transitions are tried.                 *)
(***************************************************************************)
LEMMA StartedFine ==
    ASSUME NEW m \in Targets, NEW t, TreeRecord(t), t.alphabet_size = m.input_alphabet_size,
           t.tasks = <<>>, NEW k, Truthful(m, k), NEW w \in Words(t), w # <<>>,
           ~(w \in Language(m) <=> <<>> \in Language(m)), NEW r, r = Started(t, k, w)
    PROVE  /\ Truthful(m, r.kb)
           /\ r.alg = t \/ Working(m, 1, r.kb, r.alg)
<1> DEFINE a == k.node[<<>>].ans
           u == Grown(t, w, a)
<1>1. CASE ~is_answered(k, <<>>)
  BY <1>1 DEF Started
<1>2. CASE is_answered(k, <<>>)
  <2>1. r = TryAll(u, k, FirstTasks(u))
    BY <1>2 DEF Started
  <2>2. <<>> \in Queries(m) /\ <<>> \in Words(t)
    BY EmptySeq DEF Queries, Words
  <2>3. a = Accept <=> <<>> \in Language(m)
    BY <1>2, <2>2, AnswerTells
  <2>4. IsGrown(t, u, IF a = Accept THEN w ELSE <<>>, IF a = Accept THEN <<>> ELSE w,
                IF a = Accept THEN 2 ELSE 1)
    BY GrownNodes
  <2> HIDE DEF u, a
  <2>5. Sound(m, u, FirstOver) /\ u.tasks = <<>> /\ u.leaf_node_count = 2
    <3>1. CASE a = Accept
      <4>1. IsGrown(t, u, w, <<>>, 2)
        BY <2>4, <3>1
      <4>2. Sound(m, u, FirstOver)
        BY <2>2, <2>3, <3>1, <4>1, GrownFine
      <4> QED BY <4>1, <4>2 DEF IsGrown
    <3>2. CASE a # Accept
      <4>1. IsGrown(t, u, <<>>, w, 1)
        BY <2>4, <3>2
      <4>2. Sound(m, u, FirstOver)
        BY <2>2, <2>3, <3>2, <4>1, GrownFine
      <4> QED BY <4>1, <4>2 DEF IsGrown
    <3> QED BY <3>1, <3>2
  <2>6. TreeFine(u, FirstOver)
    BY <2>5 DEF Sound, TreeOf
  <2>7. LeavesOf(u) = {1, 2}
    <3>1. Len(u.node) = 3 /\ u.node[1].leaf = TRUE /\ u.node[2].leaf = TRUE /\ u.node[3].leaf = FALSE
      BY <2>4 DEF IsGrown, leaf_node, inner_node
    <3>2. 1..3 = {1, 2, 3}
      OBVIOUS
    <3> QED BY <3>1, <3>2 DEF LeavesOf, Nodes
  <2>8. Sequence(FirstTasks(u)) /\ Computing(Language(m), u, FirstOver, Range(FirstTasks(u)))
    BY <2>6, <2>7, FirstTasksFine
  <2>9. Working(m, 1, r.kb, r.alg)
    <3>1. 1 < u.leaf_node_count
      BY <2>5
    <3> QED BY <2>1, <2>5, <2>8, <3>1, TryAllFine
  <2> QED BY <2>9 DEF Working
<1> QED BY <1>1, <1>2

\* A word before which nothing was read.
LEMMA NoPrefix ==
    ASSUME NEW W, NEW w \in Seq(W)
    PROVE  SubSeq(w, 1, 0) = <<>>
<1>1. Sequence(w)
  BY SequenceOf
<1>2. Sequence(SubSeq(w, 1, 0)) /\ Len(SubSeq(w, 1, 0)) = 0
  <2>1. Len(w) \in Nat /\ 0 \in Int /\ 1 \in Nat /\ 1 > 0 /\ 0 <= Len(w)
    BY <1>1, SequenceFacts
  <2>2. Len(SubSeq(w, 1, 0)) = IF 1 <= 0 THEN 0 - 1 + 1 ELSE 0
    BY <1>1, <2>1, PartFacts
  <2> QED BY <1>1, <2>1, <2>2, PartFacts
<1> QED BY <1>2, EmptySeq DEF Sequence

(***************************************************************************)
(* A buffer in which nothing is sifted yet.                                *)
(***************************************************************************)
LEMMA FreshFine ==
    ASSUME NEW m, NEW t, NEW over, Sound(m, t, over), NEW w \in Words(t)
    PROVE  /\ DOMAIN FreshBuffer(t, w) = 0..Len(w)
           /\ \A i \in 0..Len(w) : /\ FreshBuffer(t, w)[i] \in Nodes(t)
                                   /\ OnPath(Language(m), t, over, FreshBuffer(t, w)[i], SubSeq(w, 1, i))
<1> DEFINE L == Language(m)
<1>1. TreeFine(t, over) /\ t.initial_state \in LeavesOf(t) /\ t.node[t.initial_state].label = <<>>
      /\ LeafFine(L, t, over, t.initial_state)
  BY DEF Sound, TreeOf, LeavesFine
<1> HIDE DEF L
<1>2. t.initial_state \in Nodes(t) /\ OnPath(L, t, over, t.initial_state, <<>>)
  BY <1>1 DEF LeafFine, LeavesOf
<1>3. SubSeq(w, 1, 0) = <<>>
  BY NoPrefix DEF Words
<1>4. ASSUME NEW i \in 0..Len(w)
      PROVE  /\ FreshBuffer(t, w)[i] \in Nodes(t)
             /\ OnPath(L, t, over, FreshBuffer(t, w)[i], SubSeq(w, 1, i))
  <2>1. CASE i = 0
    <3>1. FreshBuffer(t, w)[i] = t.initial_state
      BY <2>1 DEF FreshBuffer
    <3> QED BY <1>2, <1>3, <2>1, <3>1
  <2>2. CASE i # 0
    <3>1. FreshBuffer(t, w)[i] = t.root
      BY <2>2 DEF FreshBuffer
    <3> QED BY <1>1, <3>1, AtRoot
  <2> QED BY <2>1, <2>2
<1> QED BY <1>4 DEF FreshBuffer, L

(***************************************************************************)
(* The conjecture takes the empty word where it belongs, so a search for a *)
(* prefix that it takes elsewhere can begin.                               *)
(***************************************************************************)
LEMMA FreshSearchFine ==
    ASSUME NEW m, NEW t, NEW over, Sound(m, t, over), Complete(Language(m), t, over),
           NEW w \in Words(t), w # <<>>, ~Good(Language(m), t, over, w, Len(w))
    PROVE  /\ Searching(Language(m), t, over, linearsearch_task(t, w))
           /\ Searching(Language(m), t, over, binarysearch_task(t, w))
<1> DEFINE L == Language(m)
<1>1. TreeFine(t, over) /\ t.initial_state \in LeavesOf(t) /\ t.node[t.initial_state].label = <<>>
      /\ LeafFine(L, t, over, t.initial_state)
  BY DEF Sound, TreeOf, LeavesFine
<1>2. Len(w) \in Nat \ {0}
  BY LenProperties, EmptySeq DEF Words
<1>3. /\ DOMAIN FreshBuffer(t, w) = 0..Len(w)
      /\ \A i \in 0..Len(w) : /\ FreshBuffer(t, w)[i] \in Nodes(t)
                              /\ OnPath(L, t, over, FreshBuffer(t, w)[i], SubSeq(w, 1, i))
  BY FreshFine
<1>4. t.root \in Nodes(t) /\ OnPath(L, t, over, t.root, SubSeq(w, 1, 1))
  BY <1>1, AtRoot
<1> HIDE DEF L
<1>5. Good(L, t, over, w, 0)
  <2>1. SubSeq(w, 1, 0) = <<>> /\ simulate_run(t, <<>>) = t.initial_state
    BY NoPrefix, EmptyRun DEF Words
  <2> QED BY <1>1, <2>1 DEF Good, LeafFine
<1>6. ~Good(L, t, over, w, Len(w))
  BY DEF L
<1>7. LinearFine(L, t, over, linearsearch_task(t, w))
  <2>1. 1 - 1 = 0 /\ 1 \in 1..Len(w)
    BY <1>2
  <2> QED BY <1>4, <1>5, <1>6, <2>1 DEF LinearFine, linearsearch_task
<1>8. BinaryFine(L, t, over, binarysearch_task(t, w))
  <2>1. 1 - 1 = 0 /\ 1 \in 1..Len(w) /\ Len(w) \in 1..Len(w) /\ (1 + Len(w)) \div 2 \in 1..Len(w)
    BY <1>2
  <2> DEFINE p == binarysearch_task(t, w)
  <2>2. /\ p.kind = "binary" /\ p.counterexample = w /\ p.position = (1 + Len(w)) \div 2
        /\ p.left = 1 /\ p.right = Len(w) /\ p.sift = FreshBuffer(t, w)
        /\ {"kind", "counterexample", "position", "left", "right", "sift"} \subseteq DOMAIN p
    BY DEF binarysearch_task
  <2> HIDE DEF p
  <2> DEFINE q == p.position
             l == p.left
             r == p.right
  <2>3. q = (1 + Len(w)) \div 2 /\ l = 1 /\ r = Len(w)
    BY <2>2
  <2>4. q \in l..r /\ l \in 1..Len(w) /\ r \in 1..Len(w) /\ l - 1 = 0
    <3> HIDE DEF q, l, r
    <3> QED BY <1>2, <2>1, <2>3
  <2>5. Good(L, t, over, w, l - 1) /\ ~Good(L, t, over, w, r)
    BY <1>5, <1>6, <2>3, <2>4
  <2>6. /\ DOMAIN p.sift = 0..Len(w)
        /\ \A i \in 0..Len(w) : p.sift[i] \in Nodes(t) /\ OnPath(L, t, over, p.sift[i], SubSeq(w, 1, i))
    BY <1>3, <2>2
  <2>7. /\ p.counterexample \in Words(t) /\ DOMAIN p.sift = 0..Len(p.counterexample)
        /\ p.left \in 1..Len(p.counterexample) /\ p.right \in 1..Len(p.counterexample)
        /\ p.position \in p.left..p.right
        /\ \A i \in 0..Len(p.counterexample) :
              p.sift[i] \in Nodes(t) /\ OnPath(L, t, over, p.sift[i], SubSeq(p.counterexample, 1, i))
        /\ Good(L, t, over, p.counterexample, p.left - 1) /\ ~Good(L, t, over, p.counterexample, p.right)
    <3>1. p.counterexample = w
      BY <2>2
    <3> QED BY <2>4, <2>5, <2>6, <3>1
  <2>8. p.kind = "binary" /\ {"kind", "counterexample", "position", "left", "right", "sift"} \subseteq DOMAIN p
    BY <2>2
  <2>9. BinaryFine(L, t, over, p)
    BY ONLY <2>7, <2>8 DEF BinaryFine
  <2> QED BY <2>9 DEF p
<1> QED BY <1>7, <1>8 DEF Searching, SearchFine, L

-----------------------------------------------------------------------------
(* What a machine says. *)

\* A loop that follows the transitions of a machine.
SomeStates(ids, states) == states \subseteq ids
FollowStep(m, states, a) ==
    UNION {IF a \in DOMAIN m.transitions[q] THEN m.transitions[q][a] ELSE {} : q \in states}
Track == INSTANCE LoopRules WITH Body <- FollowStep, Inv <- SomeStates

\* Running an automaton on a word is a loop of LoopRules.
LEMMA MachineRun ==
    ASSUME NEW m, NEW states, NEW w
    PROVE  run(m, states, w) = Track!Loop(m, states, w)
BY DEF run, Track!Loop, Track!FoldLeft, Track!MapThenFoldSet, Track!Max,
   FoldLeft, MapThenFoldSet, Max, FollowStep

(***************************************************************************)
(* What a machine says of the states that a run leads to is an answer.     *)
(***************************************************************************)
LEMMA OutputIsAnswer ==
    ASSUME NEW m, NEW states, \A q \in states : m.output_mapping[q] \in Answers
    PROVE  output_of(m, states, Reject) \in Answers
<1> DEFINE outputs == {m.output_mapping[q] : q \in states}
<1>1. outputs \subseteq Answers
  OBVIOUS
<1>2. output_of(m, states, Reject)
        = IF outputs \subseteq {Reject} THEN Reject ELSE CHOOSE o \in outputs \ {Reject} : TRUE
  BY DEF output_of
<1> HIDE DEF outputs
<1>3. CASE outputs \subseteq {Reject}
  BY <1>2, <1>3, RejectAssumption
<1>4. CASE ~(outputs \subseteq {Reject})
  <2>1. (CHOOSE o \in outputs \ {Reject} : TRUE) \in outputs
    BY <1>4
  <2> QED BY <1>1, <1>2, <1>4, <2>1
<1> QED BY <1>3, <1>4

\* The teacher always answers yes or no.
LEMMA TargetAnswers ==
    ASSUME NEW m \in Targets, NEW w \in Queries(m)
    PROVE  classify(m, w, Reject) \in Answers
<1> DEFINE ids == 0..(m.state_count - 1)
<1>1. /\ m.initial_states \subseteq ids
      /\ m.output_mapping \in [ids -> Answers]
      /\ \A q \in ids : \A a \in DOMAIN m.transitions[q] : m.transitions[q][a] \subseteq ids
  BY TargetsAssumption DEF Teachable
<1> HIDE DEF ids
<1>2. DOMAIN w = 1..Len(w) /\ Len(w) \in Nat
  BY LenProperties DEF Queries
<1>3. \A i \in 1..Len(w) : \A x : SomeStates(ids, x) => SomeStates(ids, FollowStep(m, x, w[i]))
  <2> SUFFICES ASSUME NEW x, x \subseteq ids, NEW a PROVE FollowStep(m, x, a) \subseteq ids
    BY DEF SomeStates
  <2>1. \A q \in x : (IF a \in DOMAIN m.transitions[q] THEN m.transitions[q][a] ELSE {}) \subseteq ids
    BY <1>1
  <2> QED BY <2>1 DEF FollowStep
<1>4. SomeStates(ids, m.initial_states)
  BY <1>1 DEF SomeStates
<1>5. SomeStates(ids, Track!Loop(m, m.initial_states, w))
  BY <1>2, <1>3, <1>4, Track!FoldRule
<1>6. \A q \in run(m, m.initial_states, w) : m.output_mapping[q] \in Answers
  BY <1>1, <1>5, MachineRun DEF SomeStates
<1> QED BY <1>6, OutputIsAnswer DEF classify

(***************************************************************************)
(* There are two answers.                                                  *)
(***************************************************************************)
LEMMA BoolFacts ==
    /\ Bool(TRUE) = Accept /\ Accept \in Answers
    /\ Bool(FALSE) \in Answers /\ Bool(FALSE) # Accept
    /\ \A a, b \in Answers : (a = Accept <=> b = Accept) => a = b
<1>1. PICK other \in Answers \ {Accept} : Answers = {Accept, other}
  BY BoolAssumption
<1>2. Bool(TRUE) = Accept
  <2>1. Bool(TRUE) = CHOOSE a \in Answers : (a = Accept) = TRUE
    BY DEF Bool
  <2>2. \E a \in Answers : (a = Accept) = TRUE
    BY BoolAssumption
  <2> QED BY <2>1, <2>2
<1>3. Bool(FALSE) \in Answers /\ Bool(FALSE) # Accept
  <2>1. Bool(FALSE) = CHOOSE a \in Answers : (a = Accept) = FALSE
    BY DEF Bool
  <2>2. \E a \in Answers : (a = Accept) = FALSE
    <3>1. (other = Accept) = FALSE
      BY <1>1
    <3> QED BY <1>1, <3>1
  <2> QED BY <2>1, <2>2
<1>4. \A a, b \in Answers : (a = Accept <=> b = Accept) => a = b
  BY <1>1
<1> QED BY <1>2, <1>3, <1>4, BoolAssumption

-----------------------------------------------------------------------------
(* Counterexamples. *)

\* A word up to its end is the word.
LEMMA WholeWord ==
    ASSUME NEW W, NEW w \in Seq(W)
    PROVE  SubSeq(w, 1, Len(w)) = w
<1> DEFINE v == SubSeq(w, 1, Len(w))
<1>1. Sequence(w) /\ Len(w) \in Nat /\ w = [i \in 1..Len(w) |-> w[i]]
  BY SequenceOf, LenProperties
<1>2. Sequence(v) /\ Len(v) = Len(w) /\ \A i \in 1..Len(w) : v[i] = w[i]
  <2>1. /\ Sequence(v) /\ Len(v) = (IF 1 <= Len(w) THEN Len(w) - 1 + 1 ELSE 0)
        /\ \A j \in 1..(Len(w) - 1 + 1) : v[j] = w[1 + j - 1]
    BY <1>1, PartFacts
  <2> HIDE DEF v
  <2> QED BY <1>1, <2>1
<1>3. v = [i \in 1..Len(w) |-> v[i]]
  <2> HIDE DEF v
  <2>1. v = [i \in 1..Len(v) |-> v[i]]
    BY <1>2, LenProperties DEF Sequence
  <2> QED BY <1>2, <2>1
<1> HIDE DEF v
<1>4. [i \in 1..Len(w) |-> v[i]] = [i \in 1..Len(w) |-> w[i]]
  BY <1>2
<1> QED BY <1>1, <1>3, <1>4 DEF v

(***************************************************************************)
(* Where the conjecture takes a word where it belongs, it says the truth.  *)
(***************************************************************************)
LEMMA GoodIsRight ==
    ASSUME NEW m, NEW t, NEW over, Sound(m, t, over), NEW w \in Words(t),
           simulate_run(t, w) \in LeavesOf(t), Good(Language(m), t, over, w, Len(w))
    PROVE  t.node[simulate_run(t, w)].accepting <=> w \in Language(m)
<1> DEFINE L == Language(m)
           n == simulate_run(t, w)
           label == t.node[n].label
<1>1. TreeFine(t, over) /\ LeafFine(L, t, over, n) /\ n \in LeavesOf(t)
  BY DEF Sound, TreeOf, LeavesFine
<1>2. OnPath(L, t, over, n, w)
  BY WholeWord DEF Good, Words
<1> HIDE DEF L, n
<1>3. n \in Nodes(t) /\ n # t.root /\ t.root \in Nodes(t)
  BY <1>1 DEF LeavesOf, TreeFine, InnerOf
<1>4. t.root \in over[n] /\ t.node[t.root].label = <<>>
  BY <1>1, <1>3 DEF TreeFine, Hangs
<1>5. label \in Words(t)
  BY <1>1, <1>3 DEF TreeFine, NodeFine
<1>6. OnPath(L, t, over, n, label) /\ t.node[n].accepting = (label \in L)
  BY <1>1 DEF LeafFine
<1> HIDE DEF label
<1>7. w \o t.node[t.root].label \in L <=> label \o t.node[t.root].label \in L
  BY <1>1, <1>2, <1>3, <1>4, <1>6, SameSide
<1>8. w \o <<>> = w /\ label \o <<>> = label
  BY <1>5, WordFacts DEF Words
<1>9. w \in L <=> label \in L
  BY <1>4, <1>7, <1>8
<1> QED BY <1>6, <1>9 DEF L, n, label

(***************************************************************************)
(* The conjecture of the learner t says of every word what the leaf says   *)
(* that the word leads to, or at first what is known of the empty word.    *)
(***************************************************************************)
Judges(m, t, c) ==
    \A w \in Words(t) :
        /\ t.initial_phase = TRUE => classify(c, w, Reject) = classify(m, <<>>, Reject)
        /\ t.initial_phase = FALSE =>
              classify(c, w, Reject) = Bool(t.node[simulate_run(t, w)].accepting)

(***************************************************************************)
(* A word of which the conjecture is wrong is taken elsewhere than it      *)
(* belongs.                                                                *)
(***************************************************************************)
LEMMA WrongIsNotGood ==
    ASSUME NEW m \in Targets, NEW t, NEW over, Sound(m, t, over), Complete(Language(m), t, over),
           NEW c, Judges(m, t, c), NEW w \in Words(t),
           classify(c, w, Reject) # classify(m, w, Reject)
    PROVE  ~Good(Language(m), t, over, w, Len(w))
<1> SUFFICES ASSUME Good(Language(m), t, over, w, Len(w)) PROVE FALSE
  OBVIOUS
<1> DEFINE n == simulate_run(t, w)
           b == t.node[n].accepting
<1>1. n \in LeavesOf(t)
  BY RunFine
<1>2. b <=> w \in Language(m)
  BY <1>1, GoodIsRight
<1>3. b \in BOOLEAN
  BY <1>1 DEF Sound, TreeOf, TreeFine, NodeFine, LeafNode, InnerNode, LeavesOf
<1>4. classify(c, w, Reject) = Bool(b)
  BY DEF Judges, Sound
<1>5. w \in Queries(m)
  BY DEF Sound, TreeOf, Words, Letters, Queries
<1>6. classify(m, w, Reject) \in Answers
  BY <1>5, TargetAnswers
<1>7. w \in Language(m) <=> classify(m, w, Reject) = Accept
  BY <1>5 DEF Language, Queries
<1> HIDE DEF b
<1>8. CASE b = TRUE
  BY <1>2, <1>4, <1>7, <1>8, BoolFacts
<1>9. CASE b = FALSE
  <2>1. classify(m, w, Reject) # Accept
    BY <1>2, <1>7, <1>9
  <2>2. Bool(b) \in Answers /\ Bool(b) # Accept
    BY <1>9, BoolFacts
  <2>3. Bool(b) = classify(m, w, Reject)
    BY <1>6, <2>1, <2>2, BoolFacts
  <2> QED BY <1>4, <2>3
<1> QED BY <1>3, <1>8, <1>9

(***************************************************************************)
(* What a counterexample to a finished tree makes of the learner.          *)
(***************************************************************************)
LEMMA SearchBegun ==
    ASSUME NEW m \in Targets, NEW f \in Nat, NEW k, NEW t, Working(m, f, k, t), t.tasks = <<>>,
           NEW c, Judges(m, t, c), NEW w \in Words(t),
           classify(c, w, Reject) # classify(m, w, Reject), NEW r, r = add_counterexample(t, k, w)
    PROVE  \/ r.alg = t /\ r.kb = k
           \/ t.leaf_node_count \in Nat /\ Working(m, t.leaf_node_count, r.kb, r.alg)
<1>1. PICK over : Sound(m, t, over) /\ Waits(Language(m), t, over, t.tasks, f)
  BY DEF Working
<1>2. Truthful(m, k) /\ t.initial_phase = FALSE /\ t.leaf_node_count \in Nat
  BY <1>1 DEF Working, Sound, IdsFine
<1>3. Complete(Language(m), t, over)
  <2>1. Len(t.tasks) = 0 /\ Range(t.tasks) = {}
    BY EmptySequence
  <2>2. Computing(Language(m), t, over, {})
    <3>1. Computing(Language(m), t, over, Range(t.tasks)) \/ Len(t.tasks) = 1
      BY <1>1 DEF Waits
    <3> QED BY <2>1, <3>1
  <2> QED BY <1>1, <2>2 DEF Computing, TransitionsFine, Awaits, Complete, Sound, LeavesFine
<1>4. CASE r = [alg |-> t, kb |-> k]
  BY <1>4
<1>5. CASE /\ w # <<>>
           /\ r = TryAll(t, k, <<IF t.use_binary_search THEN binarysearch_task(t, w)
                                 ELSE linearsearch_task(t, w)>>)
  <2> DEFINE task == IF t.use_binary_search THEN binarysearch_task(t, w) ELSE linearsearch_task(t, w)
  <2>1. ~Good(Language(m), t, over, w, Len(w))
    BY <1>1, <1>3, WrongIsNotGood
  <2>2. Searching(Language(m), t, over, task)
    <3>1. /\ Searching(Language(m), t, over, linearsearch_task(t, w))
          /\ Searching(Language(m), t, over, binarysearch_task(t, w))
      BY <1>1, <1>3, <1>5, <2>1, FreshSearchFine
    <3> QED BY <3>1
  <2> HIDE DEF task
  <2>3. r = TryAll(t, k, <<task>>)
    BY <1>5 DEF task
  <2>4. PICK g \in Nat : g = t.leaf_node_count
    BY <1>2
  <2>5. g <= t.leaf_node_count
    BY <2>4
  <2>6. Working(m, g, TryAll(t, k, <<task>>).kb, TryAll(t, k, <<task>>).alg)
    BY <1>1, <1>2, <2>2, <2>5, TrySearchFine
  <2> QED BY <1>2, <2>3, <2>4, <2>6
<1> QED BY <1>2, <1>4, <1>5 DEF add_counterexample

\* The first counterexample was refused, or the learner begins to work with one leaf refuted.
Begun(m, t, r) == Truthful(m, r.kb) /\ (r.alg = t \/ Working(m, 1, r.kb, r.alg))

(***************************************************************************)
(* What the first counterexample makes of it.                              *)
(***************************************************************************)
LEMMA TreeBegun ==
    ASSUME NEW m \in Targets, NEW k, NEW t, Truthful(m, k), TreeRecord(t), t.initial_phase = TRUE,
           t.alphabet_size = m.input_alphabet_size, t.tasks = <<>>,
           NEW c, Judges(m, t, c), NEW w \in Words(t),
           classify(c, w, Reject) # classify(m, w, Reject), NEW r, r = add_counterexample(t, k, w)
    PROVE  Begun(m, t, r)
<1>1. CASE r = [alg |-> t, kb |-> k]
  BY <1>1 DEF Begun
<1>2. CASE w # <<>> /\ r = Started(t, resolve_or_add_query(k, <<>>), w)
  <2> DEFINE l == resolve_or_add_query(k, <<>>)
  <2>1. Truthful(m, l)
    BY AskedIsTruthful
  <2>2. ~(w \in Language(m) <=> <<>> \in Language(m))
    <3>1. classify(c, w, Reject) = classify(m, <<>>, Reject)
      BY DEF Judges
    <3>2. w \in Queries(m) /\ <<>> \in Queries(m)
      BY EmptySeq DEF Queries, Words, Letters
    <3>3. /\ w \in Language(m) <=> classify(m, w, Reject) = Accept
          /\ <<>> \in Language(m) <=> classify(m, <<>>, Reject) = Accept
      BY <3>2 DEF Language, Queries
    <3>4. classify(m, w, Reject) \in Answers /\ classify(m, <<>>, Reject) \in Answers
      BY <3>2, TargetAnswers
    <3> QED BY <3>1, <3>3, <3>4, BoolFacts
  <2> HIDE DEF l
  <2>3. r = Started(t, l, w)
    BY <1>2 DEF l
  <2>4. /\ Truthful(m, r.kb)
        /\ r.alg = t \/ Working(m, 1, r.kb, r.alg)
    BY <1>2, <2>1, <2>2, <2>3, StartedFine
  <2> QED BY <2>4 DEF Begun
<1> QED BY <1>1, <1>2 DEF add_counterexample

-----------------------------------------------------------------------------
(* Saving, loading and switching. *)

\* The learner, with f leaves refuted, before and after the first counterexample.
Learning(m, f, k, t) ==
    /\ Truthful(m, k) /\ TreeRecord(t) /\ t.alphabet_size = m.input_alphabet_size
    /\ \/ /\ t.initial_phase = TRUE /\ t.tasks = <<>> /\ f = 0
          /\ t.node = <<>> /\ t.leaf_node_count = 0
       \/ t.initial_phase = FALSE /\ Working(m, f, k, t)

\* It learns on as u, which differs in nothing that a conjecture depends on.
Kept(m, f, k, t, u) ==
    Learning(m, f, k, u) /\ SameTree(t, u) /\ (t.tasks = <<>> => u.tasks = <<>>)

\* A conjecture that speaks for a tree speaks for every tree of the same
\* shape.
LEMMA SameTreeJudges ==
    ASSUME NEW m, NEW t, NEW u, SameTree(t, u), NEW c, Judges(m, t, c)
    PROVE  Judges(m, u, c)
<1>1. /\ u.node = t.node /\ u.initial_state = t.initial_state /\ u.initial_phase = t.initial_phase
      /\ Words(u) = Words(t)
  BY SameTreeFacts DEF SameTree
<1>2. \A w : simulate_run(u, w) = simulate_run(t, w)
  BY <1>1, SameRun
<1> QED BY <1>1, <1>2 DEF Judges

(***************************************************************************)
(* Other tasks that are as good will do.                                   *)
(***************************************************************************)
LEMMA TasksReplaced ==
    ASSUME NEW m, NEW f, NEW k, NEW t, Learning(m, f, k, t), NEW list,
           t.tasks = <<>> => list = <<>>,
           \A over : Sound(m, t, over) /\ Waits(Language(m), t, over, t.tasks, f)
                     => Waits(Language(m), t, over, list, f),
           NEW u, u = [t EXCEPT !.tasks = list]
    PROVE  Kept(m, f, k, t, u)
<1>1. TreeRecord(t) /\ Truthful(m, k) /\ t.alphabet_size = m.input_alphabet_size
  BY DEF Learning
<1>2. SameTree(t, u) /\ u.tasks = list
  BY <1>1 DEF SameTree, TreeRecord
<1>3. TreeRecord(u) /\ u.alphabet_size = m.input_alphabet_size /\ u.initial_phase = t.initial_phase
      /\ u.node = t.node /\ u.leaf_node_count = t.leaf_node_count
  BY <1>1, <1>2 DEF SameTree
<1>4. CASE t.initial_phase = TRUE
  <2>1. t.tasks = <<>> /\ f = 0 /\ t.node = <<>> /\ t.leaf_node_count = 0
    BY <1>4 DEF Learning
  <2> QED BY <1>1, <1>2, <1>3, <1>4, <2>1 DEF Kept, Learning
<1>5. CASE t.initial_phase = FALSE
  <2>1. PICK over : Sound(m, t, over) /\ Waits(Language(m), t, over, t.tasks, f)
    BY <1>5 DEF Learning, Working
  <2>2. Waits(Language(m), t, over, list, f)
    BY <2>1
  <2>3. Working(m, f, k, u)
    BY <1>1, <2>1, <2>2, OtherTasks
  <2> QED BY <1>1, <1>2, <1>3, <1>5, <2>3 DEF Kept, Learning
<1> QED BY <1>4, <1>5 DEF Learning

\* The waiting tasks of a learner are a sequence.
LEMMA TasksSequence ==
    ASSUME NEW m, NEW f, NEW k, NEW t, Learning(m, f, k, t)
    PROVE  Sequence(t.tasks) /\ Len(t.tasks) \in Nat /\ DOMAIN t.tasks = 1..Len(t.tasks)
<1>1. Sequence(t.tasks)
  BY EmptySequence DEF Learning, Working, Waits
<1> QED BY <1>1, SequenceFacts

\* A list that is made of another one.
LEMMA EachReplaced ==
    ASSUME NEW s, Sequence(s), NEW list, list = [i \in DOMAIN s |-> list[i]]
    PROVE  /\ s = <<>> => list = <<>>
           /\ (\A i \in DOMAIN s : list[i] = s[i]) => list = s
           /\ Sequence(list) /\ Len(list) = Len(s)
<1>1. DOMAIN s = 1..Len(s) /\ Len(s) \in Nat /\ s = [i \in 1..Len(s) |-> s[i]]
  BY SequenceFacts, LenProperties DEF Sequence
<1>2. list = [i \in 1..Len(s) |-> list[i]]
  BY <1>1
<1>3. Sequence(list) /\ Len(list) = Len(s)
  BY <1>1, <1>2, FunctionToSequence
<1>4. ASSUME \A i \in DOMAIN s : list[i] = s[i] PROVE list = s
  <2>1. [i \in 1..Len(s) |-> list[i]] = [i \in 1..Len(s) |-> s[i]]
    BY <1>1, <1>4
  <2> QED BY <1>1, <1>2, <2>1
<1>5. ASSUME s = <<>> PROVE list = <<>>
  <2>1. DOMAIN s = {}
    BY <1>5
  <2> QED BY <1>4, <1>5, <2>1
<1> QED BY <1>3, <1>4, <1>5

(***************************************************************************)
(* Without a linear search, saving changes nothing.                        *)
(***************************************************************************)
LEMMA SavedFine ==
    ASSUME NEW m, NEW f, NEW k, NEW t, Learning(m, f, k, t),
           \A i \in DOMAIN t.tasks : t.tasks[i].kind # "linear"
    PROVE  Kept(m, f, k, t, serialized(t))
<1> DEFINE list == [i \in DOMAIN t.tasks |-> Written(t.tasks[i])]
<1>1. Sequence(t.tasks)
  BY TasksSequence
<1>2. \A i \in DOMAIN t.tasks : list[i] = t.tasks[i]
  BY DEF Written
<1>3. list = [i \in DOMAIN t.tasks |-> list[i]]
  OBVIOUS
<1>4. serialized(t) = [t EXCEPT !.tasks = list]
  <2>1. TreeRecord(t)
    BY DEF Learning
  <2> QED BY <2>1 DEF serialized, TreeRecord
<1> HIDE DEF list
<1>5. list = t.tasks
  BY <1>1, <1>2, <1>3, EachReplaced
<1>6. /\ t.tasks = <<>> => list = <<>>
      /\ \A over : Sound(m, t, over) /\ Waits(Language(m), t, over, t.tasks, f)
                   => Waits(Language(m), t, over, list, f)
  BY <1>5
<1> QED BY <1>4, <1>6, TasksReplaced

(***************************************************************************)
(* A task that is loaded: a binary search sifts from the root again.       *)
(***************************************************************************)
LEMMA LoadedFine ==
    ASSUME NEW m, NEW t, NEW over, Sound(m, t, over), NEW p, Searching(Language(m), t, over, p),
           p.kind # "linear"
    PROVE  Searching(Language(m), t, over, Loaded(t, p))
<1> DEFINE L == Language(m)
           w == p.counterexample
           q == Loaded(t, p)
<1>1. CASE p.kind # "binary"
  BY <1>1 DEF Loaded
<1>2. CASE p.kind = "binary"
  <2>1. BinaryFine(L, t, over, p)
    BY <1>2 DEF Searching, SearchFine, SplitFine, LinearFine
  <2>2. w \in Words(t)
    BY <2>1 DEF BinaryFine
  <2>3. /\ DOMAIN FreshBuffer(t, w) = 0..Len(w)
        /\ \A i \in 0..Len(w) : /\ FreshBuffer(t, w)[i] \in Nodes(t)
                                /\ OnPath(L, t, over, FreshBuffer(t, w)[i], SubSeq(w, 1, i))
    BY <2>2, FreshFine
  <2>4. q = [p EXCEPT !.sift = FreshBuffer(t, w)]
    BY <1>2 DEF Loaded
  <2>5. /\ DOMAIN q = DOMAIN p /\ q.kind = p.kind /\ q.counterexample = w
        /\ q.position = p.position /\ q.left = p.left /\ q.right = p.right
        /\ q.sift = FreshBuffer(t, w)
    BY <2>1, <2>4 DEF BinaryFine
  <2> HIDE DEF q
  <2>6. BinaryFine(L, t, over, q)
    BY <2>1, <2>3, <2>5 DEF BinaryFine
  <2> QED BY <2>6 DEF Searching, SearchFine, q
<1> QED BY <1>1, <1>2

(***************************************************************************)
(* Loading a learner keeps all that it needs.                              *)
(***************************************************************************)
LEMMA ReloadedFine ==
    ASSUME NEW m, NEW f, NEW k, NEW t, Learning(m, f, k, t),
           \A i \in DOMAIN t.tasks : t.tasks[i].kind # "linear"
    PROVE  Kept(m, f, k, t, tree_reload(t))
<1> DEFINE list == [i \in DOMAIN t.tasks |-> Loaded(t, t.tasks[i])]
<1>1. Sequence(t.tasks) /\ DOMAIN t.tasks = 1..Len(t.tasks)
  BY TasksSequence
<1>2. \A i \in DOMAIN t.tasks : list[i] = Loaded(t, t.tasks[i])
  OBVIOUS
<1>3. list = [i \in DOMAIN t.tasks |-> list[i]]
  OBVIOUS
<1>4. tree_reload(t) = [t EXCEPT !.tasks = list]
  <2>1. TreeRecord(t)
    BY DEF Learning
  <2> QED BY <2>1 DEF tree_reload, TreeRecord
<1> HIDE DEF list
<1>5. /\ t.tasks = <<>> => list = <<>>
      /\ (\A i \in DOMAIN t.tasks : list[i] = t.tasks[i]) => list = t.tasks
      /\ Sequence(list) /\ Len(list) = Len(t.tasks)
  BY <1>1, <1>3, EachReplaced
<1>6. ASSUME NEW over, Sound(m, t, over), Waits(Language(m), t, over, t.tasks, f)
      PROVE  Waits(Language(m), t, over, list, f)
  <2>1. CASE Computing(Language(m), t, over, Range(t.tasks)) /\ f < t.leaf_node_count
    <3>1. \A i \in DOMAIN t.tasks : t.tasks[i].kind = "transition"
      <4>1. \A i \in DOMAIN t.tasks : t.tasks[i] \in Range(t.tasks)
        BY DEF Range
      <4> QED BY <2>1, <4>1 DEF Computing, TransitionFine
    <3>2. \A i \in DOMAIN t.tasks : list[i] = t.tasks[i]
      BY <1>2, <3>1 DEF Loaded
    <3> QED BY <1>5, <1>6, <3>2
  <2>2. CASE /\ Len(t.tasks) = 1 /\ Searching(Language(m), t, over, t.tasks[1])
             /\ f <= t.leaf_node_count
    <3>1. 1 \in DOMAIN t.tasks
      BY <1>1, <2>2
    <3>2. Searching(Language(m), t, over, list[1])
      BY <1>2, <1>6, <2>2, <3>1, LoadedFine
    <3> QED BY <1>5, <2>2, <3>2 DEF Waits
  <2> QED BY <1>6, <2>1, <2>2 DEF Waits
<1> QED BY <1>4, <1>5, <1>6, TasksReplaced

(***************************************************************************)
(* The kind of search matters for the searches to come only.               *)
(***************************************************************************)
LEMMA SwitchedFine ==
    ASSUME NEW m, NEW f, NEW k, NEW t, Learning(m, f, k, t), NEW b,
           NEW u, u = [t EXCEPT !.use_binary_search = b]
    PROVE  Kept(m, f, k, t, u)
<1>1. TreeRecord(t) /\ Truthful(m, k) /\ t.alphabet_size = m.input_alphabet_size
  BY DEF Learning
<1>2. SameTree(t, u) /\ u.tasks = t.tasks
  BY <1>1 DEF SameTree, TreeRecord
<1>3. TreeRecord(u) /\ u.alphabet_size = m.input_alphabet_size /\ u.initial_phase = t.initial_phase
      /\ u.node = t.node /\ u.leaf_node_count = t.leaf_node_count
  BY <1>1, <1>2 DEF SameTree
<1>4. CASE t.initial_phase = TRUE
  <2>1. t.tasks = <<>> /\ f = 0 /\ t.node = <<>> /\ t.leaf_node_count = 0
    BY <1>4 DEF Learning
  <2> QED BY <1>1, <1>2, <1>3, <1>4, <2>1 DEF Kept, Learning
<1>5. CASE t.initial_phase = FALSE
  <2>1. PICK over : Sound(m, t, over) /\ Waits(Language(m), t, over, t.tasks, f)
    BY <1>5 DEF Learning, Working
  <2>2. Sound(m, u, over)
    BY <1>2, <2>1, SameTreeSound
  <2>3. Waits(Language(m), u, over, u.tasks, f)
    BY <1>2, <2>1, SameTreeWaits
  <2>4. Working(m, f, k, u)
    BY <1>1, <2>2, <2>3 DEF Working
  <2> QED BY <1>1, <1>2, <1>3, <1>5, <2>4 DEF Kept, Learning
<1> QED BY <1>4, <1>5 DEF Learning

-----------------------------------------------------------------------------
(* Conjectures. *)

\* A sequence of one.
LEMMA OneElement ==
    ASSUME NEW p
    PROVE  Sequence(<<p>>) /\ Len(<<p>>) = 1 /\ <<p>>[1] = p /\ Range(<<p>>) = {p}
<1>1. <<p>> = [i \in 1..1 |-> <<p>>[i]]
  OBVIOUS
<1>2. Sequence(<<p>>) /\ Len(<<p>>) = 1 /\ Range(<<p>>) = {<<p>>[i] : i \in 1..1}
  BY <1>1, FunctionToSequence
<1> QED BY <1>2

\* Leaves in the order in which they are met.
Opened(t, order) ==
    /\ Sequence(order) /\ Range(order) \subseteq LeavesOf(t)
    /\ \A i, j \in 1..Len(order) : order[i] = order[j] => i = j
    /\ Len(order) > 0 /\ order[1] = t.initial_state

\* The order o when i transitions of n were looked at; it was old before.
Meeting(t, old, n, i, o) ==
    /\ Opened(t, o) /\ Len(old) <= Len(o) /\ \A j \in 1..Len(old) : o[j] = old[j]
    /\ \A a \in 0..(i - 1) : t.node[n].transitions[a] \in Range(o)

MeetBody(c, o, a) == Met(c[1], c[2], o, a)
MeetInv(c, x) == Meeting(c[1], c[3], c[2], x[1], x[2])
Meet == INSTANCE LoopRules WITH Body <- MeetBody, Inv <- MeetInv

\* Meeting the next successor keeps the order of discovery free of
\* repetitions.
LEMMA MetFine ==
    ASSUME NEW L, NEW t, NEW over, Complete(L, t, over), t.alphabet_size \in Nat,
           NEW n \in LeavesOf(t), NEW old, Sequence(old),
           NEW i \in 1..t.alphabet_size, NEW o, Meeting(t, old, n, i - 1, o)
    PROVE  Meeting(t, old, n, i, Met(t, n, o, i - 1))
<1> DEFINE x == t.node[n].transitions[i - 1]
           z == Met(t, n, o, i - 1)
<1>0. i \in Nat /\ i - 1 \in 0..(t.alphabet_size - 1) /\ 0..(i - 1) = 0..(i - 1 - 1) \cup {i - 1}
  OBVIOUS
<1>1. x \in LeavesOf(t)
  BY <1>0 DEF Complete, Leads, Letters
<1>2. z = IF x \in Range(o) THEN o ELSE Append(o, x)
  BY DEF Met
<1> HIDE DEF x, z
<1>3. Sequence(o) /\ Len(o) \in Nat /\ DOMAIN o = 1..Len(o) /\ Len(old) \in Nat
      /\ Range(o) = {o[j] : j \in 1..Len(o)}
  BY SequenceFacts DEF Meeting, Opened
<1>4. Opened(t, z) /\ Len(old) <= Len(z) /\ (\A j \in 1..Len(old) : z[j] = old[j])
      /\ Range(z) = Range(o) \cup {x}
  <2>1. CASE x \in Range(o)
    BY <1>2, <2>1 DEF Meeting
  <2>2. CASE x \notin Range(o)
    <3>1. /\ Sequence(z) /\ Range(z) = Range(o) \cup {x} /\ Len(z) = Len(o) + 1
          /\ z[Len(o) + 1] = x /\ \A j \in 1..Len(o) : z[j] = o[j]
      BY <1>2, <1>3, <2>2, AppendFacts
    <3>2. \A j, k \in 1..Len(z) : z[j] = z[k] => j = k
      <4>1. \A j \in 1..Len(o) : z[j] # x
        BY <1>3, <2>2, <3>1
      <4>2. \A j, k \in 1..Len(o) : z[j] = z[k] => j = k
        BY <3>1 DEF Meeting, Opened
      <4>3. \A j \in 1..Len(z) : j \in 1..Len(o) \/ j = Len(o) + 1
        BY <1>3, <3>1
      <4> QED BY <3>1, <4>1, <4>2, <4>3
    <3>3. Opened(t, z)
      BY <1>1, <1>3, <3>1, <3>2 DEF Meeting, Opened
    <3> QED BY <1>3, <3>1, <3>3 DEF Meeting
  <2> QED BY <2>1, <2>2
<1>5. \A a \in 0..(i - 1) : t.node[n].transitions[a] \in Range(z)
  <2>1. \A a \in 0..(i - 1 - 1) : t.node[n].transitions[a] \in Range(o)
    BY DEF Meeting
  <2> QED BY <1>0, <1>4, <2>1 DEF x
<1> QED BY <1>4, <1>5 DEF Meeting, z

\* The search when i leaves were processed.
Discovering(t, i, s) ==
    /\ Opened(t, s.order) /\ s.next \in 1..(Len(s.order) + 1)
    /\ \A j \in 1..(s.next - 1) : \A a \in Letters(t) :
          t.node[s.order[j]].transitions[a] \in Range(s.order)
    /\ s.next > Len(s.order) \/ s.next > i

DiscoverBody(t, s, i) == Processed(t, s)
DiscoverInv(t, x) == Discovering(t, x[1], x[2])
Discovery == INSTANCE LoopRules WITH Body <- DiscoverBody, Inv <- DiscoverInv

(***************************************************************************)
(* A leaf is processed: all that its transitions lead to is met.           *)
(***************************************************************************)
LEMMA ProcessedFine ==
    ASSUME NEW L, NEW t, NEW over, Complete(L, t, over), t.alphabet_size \in Nat,
           NEW i \in Nat, NEW s, Discovering(t, i, s)
    PROVE  Discovering(t, i + 1, Processed(t, s))
<1> DEFINE old == s.order
           l == s.next
<1>1. Sequence(old) /\ Len(old) \in Nat /\ l \in Nat /\ Range(old) = {old[j] : j \in 1..Len(old)}
  <2>1. Sequence(old) /\ l \in Nat
    BY DEF Discovering, Opened
  <2> HIDE DEF old, l
  <2> QED BY ONLY <2>1, SequenceFacts
<1>2. CASE l > Len(old)
  BY <1>2 DEF Processed, Discovering
<1>3. CASE ~(l > Len(old))
  <2> DEFINE n == old[l]
             letters == [a \in 1..t.alphabet_size |-> a - 1]
             c == <<t, n, old>>
             o == FoldLeft(LAMBDA p, a : Met(t, n, p, a), old, letters)
  <2>1. Processed(t, s) = [order |-> o, next |-> l + 1]
    BY <1>3 DEF Processed
  <2>2. o = Meet!Loop(c, old, letters)
    BY DEF Meet!Loop, Meet!FoldLeft, Meet!MapThenFoldSet, Meet!Max, FoldLeft, MapThenFoldSet, Max, MeetBody
  <2>3. l \in 1..Len(old) /\ n \in LeavesOf(t) /\ l > i
    BY <1>1, <1>3 DEF Discovering, Opened
  <2>4. DOMAIN letters = 1..t.alphabet_size /\ \A j \in 1..t.alphabet_size : letters[j] = j - 1
    OBVIOUS
  <2> HIDE DEF o, letters, n, old
  <2>a. /\ \A j, x : MeetInv(c, <<j, x>>) <=> Meeting(t, old, n, j, x)
        /\ \A x, a : MeetBody(c, x, a) = Met(t, n, x, a)
    BY DEF MeetInv, MeetBody
  <2> HIDE DEF c
  <2>5. MeetInv(c, <<0, old>>)
    <3>1. Meeting(t, old, n, 0, old)
      BY <1>1 DEF Meeting, Discovering, old
    <3> QED BY <2>a, <3>1
  <2>6. \A j \in 1..t.alphabet_size : \A x : MeetInv(c, <<j - 1, x>>) => MeetInv(c, <<j, MeetBody(c, x, letters[j])>>)
    BY <1>1, <2>3, <2>4, <2>a, MetFine
  <2>7. MeetInv(c, <<t.alphabet_size, o>>)
    BY <2>2, <2>4, <2>5, <2>6, Meet!CountedFoldRule
  <2>8. Meeting(t, old, n, t.alphabet_size, o)
    BY <2>7, <2>a
  <2>9. Sequence(o) /\ Len(o) \in Nat /\ Range(o) = {o[j] : j \in 1..Len(o)} /\ Len(old) <= Len(o)
        /\ (\A j \in 1..Len(old) : o[j] = old[j]) /\ Opened(t, o)
    BY <2>8, SequenceFacts DEF Meeting, Opened
  <2>10. Range(old) \subseteq Range(o)
    BY <1>1, <2>9
  <2>11. ASSUME NEW j \in 1..l, NEW a \in Letters(t)
         PROVE  t.node[o[j]].transitions[a] \in Range(o)
    <3>1. j \in 1..Len(old) /\ o[j] = old[j]
      BY <1>1, <2>3, <2>9
    <3>2. CASE j = l
      BY <2>8, <3>1, <3>2 DEF Meeting, Letters, n
    <3>3. CASE j # l
      <4>1. j \in 1..(l - 1)
        BY <1>1, <3>3
      <4> QED BY <2>10, <3>1, <4>1 DEF Discovering, old
    <3> QED BY <3>2, <3>3
  <2>12. l + 1 \in 1..(Len(o) + 1) /\ (l + 1) - 1 = l /\ l + 1 > i + 1
    BY <1>1, <2>3, <2>9
  <2> DEFINE z == Processed(t, s)
  <2>13. z.order = o /\ z.next = l + 1
    BY <2>1
  <2> HIDE DEF z, old, l
  <2>14. Discovering(t, i + 1, z)
    BY <2>9, <2>11, <2>12, <2>13 DEF Discovering
  <2> QED BY <2>14 DEF z
<1> QED BY <1>2, <1>3

\* All leaves that can be reached, and nowhere to go from them but among them.
Closed(t, order) ==
    /\ Opened(t, order)
    /\ \A j \in 1..Len(order) : \A a \in Letters(t) : t.node[order[j]].transitions[a] \in Range(order)

\* There are no more leaves than nodes.
LEMMA FewerThanNodes ==
    ASSUME NEW t, Len(t.node) \in Nat, NEW order, Opened(t, order)
    PROVE  Len(order) <= Len(t.node)
<1>1. Len(order) \in Nat /\ DOMAIN order = 1..Len(order) /\ Range(order) = {order[j] : j \in 1..Len(order)}
      /\ order = [i \in 1..Len(order) |-> order[i]]
  BY SequenceFacts DEF Opened
<1>2. \A j \in 1..Len(order) : order[j] \in 1..Len(t.node)
  BY <1>1 DEF Opened, LeavesOf, Nodes
<1>3. order \in Injection(1..Len(order), 1..Len(t.node))
  <2>1. order \in [1..Len(order) -> 1..Len(t.node)]
    BY <1>1, <1>2
  <2> QED BY <2>1 DEF Injection, IsInjective, Opened
<1>4. /\ IsFiniteSet(1..Len(t.node)) /\ Cardinality(1..Len(t.node)) = Len(t.node)
      /\ Cardinality(1..Len(order)) = Len(order)
  <2>1. \A n \in Nat : IsFiniteSet(1..n) /\ Cardinality(1..n) = n
    BY ONLY FS_Interval
  <2> QED BY ONLY <1>1, <2>1, Len(t.node) \in Nat
<1>5. Cardinality(1..Len(order)) <= Cardinality(1..Len(t.node))
  BY <1>3, <1>4, FS_Injection
<1> QED BY <1>4, <1>5

(***************************************************************************)
(* The search ends with all leaves that can be reached.                    *)
(***************************************************************************)
LEMMA DiscoverFine ==
    ASSUME NEW m, NEW t, NEW over, Sound(m, t, over), Complete(Language(m), t, over)
    PROVE  Closed(t, Discover(t))
<1> DEFINE start == [order |-> <<t.initial_state>>, next |-> 1]
           rounds == Len(t.node)
           s == Discovery!Rounds(t, start, rounds)
<1>1. rounds \in Nat /\ t.alphabet_size \in Nat /\ t.initial_state \in LeavesOf(t)
  BY SequenceFacts DEF Sound, TreeOf, TreeFine, TreeRecord, LeavesFine
<1>2. Discover(t) = s.order
  BY DEF Discover, Repeated, Discovery!Rounds, DiscoverBody
<1>3. DiscoverInv(t, <<0, start>>)
  <2> DEFINE first == <<t.initial_state>>
  <2>2. Sequence(first) /\ Len(first) = 1 /\ first[1] = t.initial_state /\ Range(first) = {t.initial_state}
    BY OneElement
  <2> HIDE DEF first
  <2>3. Opened(t, first)
    BY <1>1, <2>2 DEF Opened
  <2>4. start.order = first /\ start.next = 1
    BY DEF first
  <2> HIDE DEF start
  <2>5. Discovering(t, 0, start)
    BY <2>2, <2>3, <2>4 DEF Discovering
  <2> QED BY <2>5 DEF DiscoverInv
<1> HIDE DEF start, rounds
<1>4. \A i \in 1..rounds : \A x : DiscoverInv(t, <<i - 1, x>>) => DiscoverInv(t, <<i, DiscoverBody(t, x, i)>>)
  <2> SUFFICES ASSUME NEW i \in 1..rounds, NEW x, Discovering(t, i - 1, x)
               PROVE  Discovering(t, i, Processed(t, x))
    BY DEF DiscoverInv, DiscoverBody
  <2>1. i - 1 \in Nat /\ (i - 1) + 1 = i
    OBVIOUS
  <2>2. Discovering(t, (i - 1) + 1, Processed(t, x))
    BY <1>1, <2>1, ProcessedFine
  <2> QED BY <2>1, <2>2
<1>5. DiscoverInv(t, <<rounds, s>>)
  BY <1>1, <1>3, <1>4, Discovery!CountedRoundsRule
<1> HIDE DEF s
<1>6. Discovering(t, rounds, s)
  BY <1>5 DEF DiscoverInv
<1>7. Len(s.order) <= rounds /\ Len(s.order) \in Nat
  BY <1>1, <1>6, FewerThanNodes, SequenceFacts DEF Discovering, Opened, rounds
<1>8. s.next - 1 = Len(s.order)
  BY <1>1, <1>6, <1>7 DEF Discovering
<1> QED BY <1>2, <1>6, <1>8 DEF Discovering, Closed

\* What is said of one state.
LEMMA OutputOfOne ==
    ASSUME NEW m, NEW q, NEW states, states = {q}
    PROVE  output_of(m, states, Reject) = m.output_mapping[q]
<1> DEFINE outputs == {m.output_mapping[p] : p \in states}
           out == m.output_mapping[q]
<1>1. outputs = {out}
  OBVIOUS
<1>2. output_of(m, states, Reject)
        = IF outputs \subseteq {Reject} THEN Reject ELSE CHOOSE o \in outputs \ {Reject} : TRUE
  BY DEF output_of
<1> HIDE DEF outputs, out
<1>3. ASSUME out = Reject PROVE output_of(m, states, Reject) = out
  BY <1>1, <1>2, <1>3
<1>4. ASSUME out # Reject PROVE output_of(m, states, Reject) = out
  <2>1. outputs \ {Reject} = {out}
    BY <1>1, <1>4
  <2>2. (CHOOSE o \in outputs \ {Reject} : TRUE) \in outputs \ {Reject}
    BY <2>1
  <2>3. ~(outputs \subseteq {Reject})
    BY <1>1, <1>4
  <2> QED BY <1>2, <2>1, <2>2, <2>3
<1> QED BY <1>3, <1>4 DEF out

\* The machine and the tree are at the same leaf.
Level(order, x) == \E i \in 1..Len(order) : x[1] = {i - 1} /\ x[2] = order[i]
Couple == INSTANCE LoopRules WITH Body <- FollowStep, Inv <- Level

\* The machine that has the leaves as states.
MachineOf(t, order, c) ==
    /\ c.initial_states = {0}
    /\ \A i \in 1..Len(order) :
          /\ c.output_mapping[i - 1] = Bool(t.node[order[i]].accepting)
          /\ DOMAIN c.transitions[i - 1] = Letters(t)
          /\ \A a \in Letters(t) : \E j \in 1..Len(order) :
                order[j] = t.node[order[i]].transitions[a] /\ c.transitions[i - 1][a] = {j - 1}

\* The automaton built in the order of discovery has a state for every leaf,
\* and its transitions are those of the tree.
LEMMA MachineFacts ==
    ASSUME NEW t, NEW order, Closed(t, order)
    PROVE  MachineOf(t, order, Machine(t, order))
<1> DEFINE n == Len(order)
           c == Machine(t, order)
           state(x) == (CHOOSE i \in DOMAIN order : order[i] = x) - 1
           delta == [q \in 0..(n - 1) |-> [a \in 0..(t.alphabet_size - 1) |->
                        state(t.node[order[q + 1]].transitions[a])]]
           out == [q \in 0..(n - 1) |-> Bool(t.node[order[q + 1]].accepting)]
<1>1. Sequence(order) /\ n \in Nat /\ DOMAIN order = 1..n /\ Range(order) = {order[i] : i \in 1..n}
  BY SequenceFacts DEF Closed, Opened
<1>2. c = Deterministic(n, t.alphabet_size, delta, out)
  BY DEF Machine
<1>3. ASSUME NEW i \in 1..n
      PROVE  /\ i - 1 \in 0..(n - 1) /\ (i - 1) + 1 = i
             /\ out[i - 1] = Bool(t.node[order[i]].accepting)
             /\ \A a \in Letters(t) : delta[i - 1][a] = state(t.node[order[i]].transitions[a])
  <2>1. i - 1 \in 0..(n - 1) /\ (i - 1) + 1 = i
    BY <1>1
  <2>2. out[i - 1] = Bool(t.node[order[(i - 1) + 1]].accepting)
    BY <2>1
  <2>3. \A a \in Letters(t) : delta[i - 1][a] = state(t.node[order[(i - 1) + 1]].transitions[a])
    BY <2>1 DEF Letters
  <2> HIDE DEF out, delta, state
  <2> QED BY <2>1, <2>2, <2>3
<1>4. ASSUME NEW x \in Range(order) PROVE \E j \in 1..n : order[j] = x /\ state(x) = j - 1
  <2>1. \E j \in DOMAIN order : order[j] = x
    BY <1>1
  <2>2. /\ (CHOOSE j \in DOMAIN order : order[j] = x) \in DOMAIN order
        /\ order[CHOOSE j \in DOMAIN order : order[j] = x] = x
    BY <2>1
  <2> QED BY <1>1, <2>2
<1> HIDE DEF state, delta, out, c
<1>5. /\ c.initial_states = {0} /\ c.output_mapping = out
      /\ \A q \in 0..(n - 1) : /\ DOMAIN c.transitions[q] = Letters(t)
                               /\ \A a \in Letters(t) : c.transitions[q][a] = {delta[q][a]}
  BY <1>2 DEF Deterministic, Letters
<1>6. ASSUME NEW i \in 1..n, NEW a \in Letters(t)
      PROVE  \E j \in 1..n : order[j] = t.node[order[i]].transitions[a] /\ c.transitions[i - 1][a] = {j - 1}
  <2>1. t.node[order[i]].transitions[a] \in Range(order)
    BY DEF Closed
  <2>2. PICK j \in 1..n : /\ order[j] = t.node[order[i]].transitions[a]
                          /\ state(t.node[order[i]].transitions[a]) = j - 1
    BY <1>4, <2>1
  <2>3. delta[i - 1][a] = j - 1
    BY <1>3, <2>2
  <2>4. c.transitions[i - 1][a] = {j - 1}
    <3>1. i - 1 \in 0..(n - 1)
      BY <1>3
    <3> QED BY <1>5, <2>3, <3>1
  <2> QED BY <2>2, <2>4
<1>7. MachineOf(t, order, c)
  <2>1. \A i \in 1..n : c.output_mapping[i - 1] = Bool(t.node[order[i]].accepting)
    BY <1>3, <1>5
  <2>2. \A i \in 1..n : DOMAIN c.transitions[i - 1] = Letters(t)
    BY <1>3, <1>5
  <2> QED BY <1>5, <1>6, <2>1, <2>2 DEF MachineOf
<1> QED BY <1>7 DEF c

\* One letter.
LEMMA CoupledStep ==
    ASSUME NEW t, NEW order, NEW c, MachineOf(t, order, c), NEW a \in Letters(t),
           NEW x, NEW y, Level(order, <<x, y>>)
    PROVE  Level(order, <<FollowStep(c, x, a), RunBody(t.node, y, a)>>)
<1>1. PICK i \in 1..Len(order) : x = {i - 1} /\ y = order[i]
  BY DEF Level
<1>2. PICK j \in 1..Len(order) : order[j] = t.node[order[i]].transitions[a] /\ c.transitions[i - 1][a] = {j - 1}
  BY DEF MachineOf
<1>3. FollowStep(c, x, a) = {j - 1}
  <2> DEFINE q == i - 1
             next(p) == IF a \in DOMAIN c.transitions[p] THEN c.transitions[p][a] ELSE {}
  <2>1. next(q) = {j - 1}
    BY <1>2 DEF MachineOf
  <2>2. FollowStep(c, x, a) = UNION {next(p) : p \in x}
    BY DEF FollowStep
  <2>3. x = {q}
    BY <1>1
  <2> HIDE DEF next, q
  <2>4. UNION {next(p) : p \in {q}} = next(q)
    OBVIOUS
  <2> QED BY <2>1, <2>2, <2>3, <2>4
<1>4. RunBody(t.node, y, a) = order[j]
  BY <1>1, <1>2 DEF RunBody
<1> QED BY <1>3, <1>4 DEF Level

(***************************************************************************)
(* The machine says of every word what the leaf says that it leads to.     *)
(***************************************************************************)
LEMMA MachineJudges ==
    ASSUME NEW m, NEW t, t.initial_phase = FALSE, NEW order, Closed(t, order)
    PROVE  Judges(m, t, Machine(t, order))
<1> DEFINE c == Machine(t, order)
<1>1. MachineOf(t, order, c)
  BY MachineFacts
<1> HIDE DEF c
<1> SUFFICES ASSUME NEW w \in Words(t)
             PROVE  classify(c, w, Reject) = Bool(t.node[simulate_run(t, w)].accepting)
  BY DEF Judges, c
<1> DEFINE n == Len(w)
<1>2. n \in Nat /\ DOMAIN w = 1..n /\ \A j \in 1..n : w[j] \in Letters(t)
  BY LenProperties, ElementOfSeq DEF Words
<1> HIDE DEF n
<1>3. PICK g : Track!Turns(g, c, c.initial_states, w, n) /\ Track!Loop(c, c.initial_states, w) = g[n]
  BY <1>2, Track!FoldSteps
<1>4. PICK h : Walk!Turns(h, t.node, t.initial_state, w, n) /\ Walk!Loop(t.node, t.initial_state, w) = h[n]
  BY <1>2, Walk!FoldSteps
<1> DEFINE both == [j \in 0..n |-> <<g[j], h[j]>>]
<1>5. Level(order, both[0])
  <2>1. g[0] = {0} /\ h[0] = order[1] /\ Len(order) > 0
    BY <1>1, <1>3, <1>4 DEF Track!Turns, Walk!Turns, MachineOf, Closed, Opened
  <2>2. Len(order) \in Nat
    BY SequenceFacts DEF Closed, Opened
  <2>3. both[0] = <<g[0], h[0]>>
    BY <1>2
  <2>4. 1 \in 1..Len(order) /\ 1 - 1 = 0
    BY <2>1, <2>2
  <2> HIDE DEF both
  <2> QED BY <2>1, <2>3, <2>4 DEF Level
<1>6. \A j \in (0 + 1)..n : Level(order, both[j - 1]) => Level(order, both[j])
  <2>0. (0 + 1)..n = 1..n
    OBVIOUS
  <2> SUFFICES ASSUME NEW j \in 1..n, Level(order, both[j - 1]) PROVE Level(order, both[j])
    <3> HIDE DEF both
    <3> QED BY <2>0
  <2>1. j - 1 \in 0..n /\ j \in 0..n
    BY <1>2
  <2>2. both[j - 1] = <<g[j - 1], h[j - 1]>> /\ both[j] = <<g[j], h[j]>>
    BY <2>1
  <2>3. g[j] = FollowStep(c, g[j - 1], w[j]) /\ h[j] = RunBody(t.node, h[j - 1], w[j])
    BY <1>3, <1>4 DEF Track!Turns, Walk!Turns
  <2> HIDE DEF both
  <2>4. w[j] \in Letters(t)
    BY <1>2
  <2> QED BY <1>1, <2>2, <2>3, <2>4, CoupledStep
<1>7. Level(order, both[n])
  <2>1. 0 \in 0..n
    BY <1>2
  <2> HIDE DEF both
  <2> QED BY <1>2, <1>5, <1>6, <2>1, Couple!FoldFrom
<1>8. PICK i \in 1..Len(order) : g[n] = {i - 1} /\ h[n] = order[i]
  <2>1. both[n] = <<g[n], h[n]>>
    BY <1>2
  <2> HIDE DEF both
  <2> QED BY <1>7, <2>1 DEF Level
<1>9. run(c, c.initial_states, w) = {i - 1} /\ simulate_run(t, w) = order[i]
  BY <1>3, <1>4, <1>8, MachineRun, RunIsLoop
<1>10. classify(c, w, Reject) = c.output_mapping[i - 1]
  BY <1>9, OutputOfOne DEF classify
<1> QED BY <1>1, <1>9, <1>10 DEF MachineOf

\* A machine that stays where it is.
OnlyState(ids, states) == states = ids
Stay == INSTANCE LoopRules WITH Body <- FollowStep, Inv <- OnlyState

(***************************************************************************)
(* The first conjecture says of every word what is known of the empty one. *)
(***************************************************************************)
LEMMA FirstJudges ==
    ASSUME NEW m \in Targets, NEW t, t.initial_phase = TRUE, NEW k, Truthful(m, k), is_answered(k, <<>>)
    PROVE  Judges(m, t, derive_conjecture(t, k))
<1> DEFINE c == derive_conjecture(t, k)
<1>1. /\ c.initial_states = {0} /\ c.output_mapping[0] = k.node[<<>>].ans
      /\ DOMAIN c.transitions[0] = Letters(t) /\ \A a \in Letters(t) : c.transitions[0][a] = {0}
  <2>1. 0 \in 0..(1 - 1)
    OBVIOUS
  <2> QED BY <2>1 DEF derive_conjecture, Deterministic, Letters
<1> HIDE DEF c
<1>2. k.node[<<>>].ans = classify(m, <<>>, Reject)
  BY EmptySeq DEF Truthful, Queries
<1> SUFFICES ASSUME NEW w \in Words(t)
             PROVE  classify(c, w, Reject) = classify(m, <<>>, Reject)
  BY DEF Judges, c
<1>3. Len(w) \in Nat /\ DOMAIN w = 1..Len(w) /\ \A j \in 1..Len(w) : w[j] \in Letters(t)
  BY LenProperties, ElementOfSeq DEF Words
<1>4. OnlyState({0}, c.initial_states)
  BY <1>1 DEF OnlyState
<1>5. \A j \in 1..Len(w) : \A x : OnlyState({0}, x) => OnlyState({0}, FollowStep(c, x, w[j]))
  <2> SUFFICES ASSUME NEW a \in Letters(t) PROVE FollowStep(c, {0}, a) = {0}
    BY <1>3 DEF OnlyState
  <2> DEFINE next(p) == IF a \in DOMAIN c.transitions[p] THEN c.transitions[p][a] ELSE {}
  <2>1. next(0) = {0}
    BY <1>1
  <2>2. FollowStep(c, {0}, a) = UNION {next(p) : p \in {0}}
    BY DEF FollowStep
  <2> HIDE DEF next
  <2> QED BY <2>1, <2>2
<1>6. OnlyState({0}, Stay!Loop(c, c.initial_states, w))
  BY <1>3, <1>4, <1>5, Stay!FoldRule
<1>7. run(c, c.initial_states, w) = {0}
  <2>1. run(c, c.initial_states, w) = Stay!Loop(c, c.initial_states, w)
    BY DEF run, Stay!Loop, Stay!FoldLeft, Stay!MapThenFoldSet, Stay!Max,
       FoldLeft, MapThenFoldSet, Max, FollowStep
  <2> QED BY <1>6, <2>1 DEF OnlyState
<1>8. classify(c, w, Reject) = c.output_mapping[0]
  BY <1>7, OutputOfOne DEF classify
<1> QED BY <1>1, <1>2, <1>8

-----------------------------------------------------------------------------
(* The inductive invariant. *)

\* Other answers that are true will do.
LEMMA OtherAnswers ==
    ASSUME NEW m, NEW f, NEW k, NEW t, Learning(m, f, k, t), NEW l, Truthful(m, l)
    PROVE  Learning(m, f, l, t)
BY DEF Learning, Working

\* A learner with its tree at work is past its first phase.
LEMMA WorkingIsLearning ==
    ASSUME NEW m, NEW f, NEW k, NEW t, Working(m, f, k, t)
    PROVE  Learning(m, f, k, t) /\ t.initial_phase = FALSE
BY DEF Learning, Working, Sound, TreeOf, TreeFine

\* When no task is left, every transition is in place.
LEMMA NothingToDo ==
    ASSUME NEW m, NEW t, NEW over, Sound(m, t, over), NEW f, Waits(Language(m), t, over, t.tasks, f),
           t.tasks = <<>>
    PROVE  Complete(Language(m), t, over)
<1>1. Len(t.tasks) = 0 /\ Range(t.tasks) = {}
  BY EmptySequence
<1>2. Computing(Language(m), t, over, Range(t.tasks)) \/ Len(t.tasks) = 1
  BY DEF Waits
<1>3. Len(t.tasks) # 1
  BY <1>1
<1>4. Computing(Language(m), t, over, {})
  BY ONLY <1>1, <1>2, <1>3, Zenon
<1> QED BY <1>4 DEF Computing, TransitionsFine, Awaits, Complete, Sound, LeavesFine

\* The conjecture c of the learner t, if there is one.
Judged(m, t, c) == c # NoConjecture => t.tasks = <<>> /\ Judges(m, t, c)

(***************************************************************************)
(* advance() learns on, and the conjecture it gives says what the tree     *)
(* says.                                                                   *)
(***************************************************************************)
LEMMA AdvanceFine ==
    ASSUME NEW m \in Targets, NEW f \in Nat, NEW k, NEW t, Learning(m, f, k, t),
           NEW r, r = advance(t, k)
    PROVE  Learning(m, f, r.kb, r.alg) /\ Judged(m, r.alg, r.conjecture)
<1>1. CASE t.initial_phase = TRUE
  <2> DEFINE l == resolve_or_add_query(k, <<>>)
             c == IF is_answered(l, <<>>) THEN derive_conjecture(t, l) ELSE NoConjecture
  <2>1. r = [alg |-> t, kb |-> l, conjecture |-> c]
    BY <1>1 DEF advance, Derived
  <2>2. Truthful(m, l)
    BY AskedIsTruthful DEF Learning
  <2> HIDE DEF l
  <2>3. Learning(m, f, l, t)
    BY <2>2, OtherAnswers
  <2>4. Judged(m, t, c)
    <3>1. CASE is_answered(l, <<>>)
      <4>1. t.tasks = <<>>
        BY <1>1 DEF Learning
      <4>2. Judges(m, t, derive_conjecture(t, l))
        BY <1>1, <2>2, <3>1, FirstJudges
      <4> QED BY <3>1, <4>1, <4>2 DEF Judged
    <3>2. CASE ~is_answered(l, <<>>)
      BY <3>2 DEF Judged
    <3> QED BY <3>1, <3>2
  <2> QED BY <2>1, <2>3, <2>4
<1>2. CASE t.initial_phase = FALSE
  <2> DEFINE s == Work(t, k)
             c == IF s.alg.tasks = <<>> THEN derive_conjecture(s.alg, s.kb) ELSE NoConjecture
  <2>1. Working(m, f, s.kb, s.alg)
    BY <1>2, WorkFine DEF Learning
  <2>2. Learning(m, f, s.kb, s.alg) /\ s.alg.initial_phase = FALSE
    <3> DEFINE u == s.alg
               l == s.kb
    <3>1. Working(m, f, l, u)
      BY <2>1
    <3> HIDE DEF u, l
    <3>2. Learning(m, f, l, u) /\ u.initial_phase = FALSE
      BY <3>1, WorkingIsLearning
    <3> QED BY <3>2 DEF u, l
  <2>3. advance(t, k) = Derived(s)
    BY <1>2 DEF advance
  <2> HIDE DEF s
  <2>4. r = [alg |-> s.alg, kb |-> s.kb, conjecture |-> c]
    BY <2>2, <2>3 DEF Derived
  <2>5. Judged(m, s.alg, c)
    <3>1. CASE s.alg.tasks = <<>>
      <4> DEFINE u == s.alg
      <4>1. PICK over : Sound(m, u, over) /\ Waits(Language(m), u, over, u.tasks, f)
        BY <2>1 DEF Working
      <4> HIDE DEF u
      <4>2. u.tasks = <<>> /\ u.initial_phase = FALSE
        BY <2>2, <3>1 DEF u
      <4>3. Complete(Language(m), u, over)
        BY <4>1, <4>2, NothingToDo
      <4>4. Closed(u, Discover(u))
        BY <4>1, <4>3, DiscoverFine
      <4> DEFINE order == Discover(u)
      <4>5. Closed(u, order)
        BY <4>4
      <4> HIDE DEF order
      <4>6. Judges(m, u, Machine(u, order))
        BY <4>2, <4>5, MachineJudges
      <4>7. derive_conjecture(u, s.kb) = Machine(u, order)
        BY <4>2 DEF derive_conjecture, order
      <4>8. c = Machine(u, order)
        BY <3>1, <4>7 DEF u
      <4> QED BY <4>2, <4>6, <4>8 DEF Judged, u
    <3>2. CASE s.alg.tasks # <<>>
      BY <3>2 DEF Judged
    <3> QED BY <3>1, <3>2
  <2> QED BY <2>2, <2>4, <2>5
<1> QED BY <1>1, <1>2 DEF Learning

(***************************************************************************)
(* A counterexample, taken or refused, leaves a learner that has refuted   *)
(* what it had found.                                                      *)
(***************************************************************************)
LEMMA CounterexampleFine ==
    ASSUME NEW m \in Targets, NEW f \in Nat, NEW k, NEW t, Learning(m, f, k, t), t.tasks = <<>>,
           NEW c, Judges(m, t, c), NEW w \in Words(t),
           classify(c, w, Reject) # classify(m, w, Reject), NEW r, r = add_counterexample(t, k, w),
           NEW g, g = IF r.alg = t THEN f ELSE IF t.initial_phase THEN 1 ELSE t.leaf_node_count
    PROVE  g \in Nat /\ Learning(m, g, r.kb, r.alg)
<1>1. CASE t.initial_phase = TRUE
  <2>1. Truthful(m, k) /\ TreeRecord(t) /\ t.alphabet_size = m.input_alphabet_size
    BY DEF Learning
  <2>2. /\ Truthful(m, r.kb)
        /\ r.alg = t \/ Working(m, 1, r.kb, r.alg)
    <3>1. /\ t.tasks = <<>> /\ Judges(m, t, c) /\ m \in Targets /\ w \in Words(t)
          /\ classify(c, w, Reject) # classify(m, w, Reject) /\ r = add_counterexample(t, k, w)
      OBVIOUS
    <3>2. Begun(m, t, r)
      BY ONLY <1>1, <2>1, <3>1, TreeBegun
    <3> QED BY <3>2 DEF Begun
  <2>3. CASE r.alg = t
    BY <2>2, <2>3, OtherAnswers
  <2>4. CASE r.alg # t
    <3>1. g = 1
      BY <1>1, <2>4
    <3>2. Working(m, g, r.kb, r.alg)
      BY <2>2, <2>4, <3>1
    <3> DEFINE u == r.alg
               l == r.kb
    <3>3. Working(m, g, l, u)
      BY <3>2
    <3> HIDE DEF u, l
    <3>4. Learning(m, g, l, u)
      BY <3>3, WorkingIsLearning
    <3> QED BY <3>1, <3>4 DEF u, l
  <2> QED BY <2>3, <2>4
<1>2. CASE t.initial_phase = FALSE
  <2>1. Working(m, f, k, t)
    BY <1>2 DEF Learning
  <2>2. \/ r.alg = t /\ r.kb = k
        \/ t.leaf_node_count \in Nat /\ Working(m, t.leaf_node_count, r.kb, r.alg)
    BY <2>1, SearchBegun
  <2>3. CASE r.alg = t /\ r.kb = k
    BY <2>3
  <2>4. CASE t.leaf_node_count \in Nat /\ Working(m, t.leaf_node_count, r.kb, r.alg)
    <3> DEFINE u == r.alg
               l == r.kb
               n == t.leaf_node_count
    <3>1. n \in Nat /\ Working(m, n, l, u)
      BY <2>4
    <3>2. g = IF u = t THEN f ELSE n
      BY <1>2
    <3> HIDE DEF u, l
    <3>3. u # t
      <4>1. SUFFICES ASSUME u = t PROVE FALSE
        OBVIOUS
      <4>2. PICK over : Sound(m, u, over) /\ Waits(Language(m), u, over, u.tasks, n)
        BY <3>1 DEF Working
      <4>3. u.tasks = <<>> /\ u.leaf_node_count = n
        BY <4>1
      <4>4. Len(u.tasks) = 0
        BY <4>3, EmptySequence
      <4>5. n < n \/ Len(u.tasks) = 1
        BY <4>2, <4>3 DEF Waits
      <4> QED BY <3>1, <4>4, <4>5
    <3> HIDE DEF n
    <3>4. Learning(m, n, l, u)
      BY <3>1, WorkingIsLearning
    <3> QED BY <3>1, <3>2, <3>3, <3>4 DEF u, l
  <2> QED BY <2>2, <2>3, <2>4
<1> QED BY <1>1, <1>2 DEF Learning

-----------------------------------------------------------------------------
(* Leaves and states. *)

SingleState(ids, states) == \E q \in ids : states = {q}
Solo == INSTANCE LoopRules WITH Body <- FollowStep, Inv <- SingleState

StatesOf(m) == 0..(m.state_count - 1)

(***************************************************************************)
(* A word leads to one state of the target.                                *)
(***************************************************************************)
LEMMA OneState ==
    ASSUME NEW m \in Targets, NEW w \in Queries(m)
    PROVE  SingleState(StatesOf(m), run(m, m.initial_states, w))
<1> DEFINE ids == StatesOf(m)
<1>1. /\ m.initial_states \subseteq ids
      /\ \A q \in ids : \A a \in DOMAIN m.transitions[q] : m.transitions[q][a] \subseteq ids
  BY TargetsAssumption DEF Teachable, StatesOf
<1>2. /\ \E q \in m.initial_states : m.initial_states = {q}
      /\ \A q \in ids : /\ DOMAIN m.transitions[q] = 0..(m.input_alphabet_size - 1)
                        /\ \A a \in DOMAIN m.transitions[q] :
                              \E r \in m.transitions[q][a] : m.transitions[q][a] = {r}
  BY DeterministicAssumption DEF StatesOf
<1> HIDE DEF ids
<1>3. Len(w) \in Nat /\ DOMAIN w = 1..Len(w) /\ \A j \in 1..Len(w) : w[j] \in 0..(m.input_alphabet_size - 1)
  BY LenProperties, ElementOfSeq DEF Queries
<1>4. SingleState(ids, m.initial_states)
  BY <1>1, <1>2 DEF SingleState
<1>5. \A j \in 1..Len(w) : \A x : SingleState(ids, x) => SingleState(ids, FollowStep(m, x, w[j]))
  <2> SUFFICES ASSUME NEW q \in ids, NEW a \in 0..(m.input_alphabet_size - 1)
               PROVE  SingleState(ids, FollowStep(m, {q}, a))
    BY <1>3 DEF SingleState
  <2> DEFINE next(p) == IF a \in DOMAIN m.transitions[p] THEN m.transitions[p][a] ELSE {}
  <2>0. a \in DOMAIN m.transitions[q]
    BY <1>2
  <2>1. PICK r : m.transitions[q][a] = {r} /\ r \in ids /\ next(q) = {r}
    <3>1. PICK r \in m.transitions[q][a] : m.transitions[q][a] = {r}
      BY <1>2, <2>0
    <3>2. r \in ids
      BY <1>1, <2>0, <3>1
    <3>3. next(q) = {r}
      BY <2>0, <3>1
    <3> QED BY <3>1, <3>2, <3>3
  <2>2. FollowStep(m, {q}, a) = UNION {next(p) : p \in {q}}
    BY DEF FollowStep
  <2> HIDE DEF next
  <2>3. FollowStep(m, {q}, a) = {r}
    BY <2>1, <2>2
  <2> QED BY <2>1, <2>3 DEF SingleState
<1>6. SingleState(ids, Solo!Loop(m, m.initial_states, w))
  BY <1>3, <1>4, <1>5, Solo!FoldRule
<1>7. run(m, m.initial_states, w) = Solo!Loop(m, m.initial_states, w)
  BY DEF run, Solo!Loop, Solo!FoldLeft, Solo!MapThenFoldSet, Solo!Max,
     FoldLeft, MapThenFoldSet, Max, FollowStep
<1> QED BY <1>6, <1>7 DEF ids

\* A run goes on where it was.
LEMMA RunGoesOn ==
    ASSUME NEW m, NEW v \in Queries(m), NEW z \in Queries(m), NEW states
    PROVE  run(m, states, v \o z) = run(m, run(m, states, v), z)
<1>1. Len(v) \in Nat /\ DOMAIN v = 1..Len(v) /\ Len(z) \in Nat /\ DOMAIN z = 1..Len(z)
  BY LenProperties DEF Queries
<1>2. /\ Sequence(v \o z) /\ Len(v \o z) = Len(v) + Len(z)
      /\ \A j \in 1..Len(v) : (v \o z)[j] = v[j]
      /\ \A j \in 1..Len(z) : (v \o z)[Len(v) + j] = z[j]
  BY SequenceOf, ConcatFacts DEF Queries
<1>3. DOMAIN (v \o z) = 1..(Len(v) + Len(z))
  <2>1. DOMAIN (v \o z) = 1..Len(v \o z)
    BY <1>2, SequenceFacts
  <2> QED BY ONLY <1>2, <2>1
<1> DEFINE both == v \o z
<1>4. Track!InARow(v, Len(v), z, Len(z), both)
  BY <1>1, <1>2, <1>3 DEF Track!InARow
<1> HIDE DEF both
<1>5. Track!Loop(m, states, both) = Track!Loop(m, Track!Loop(m, states, v), z)
  BY ONLY <1>4, Track!FoldConcat
<1> QED BY <1>5, MachineRun DEF both

(***************************************************************************)
(* The leaves' words lead to different states, so there are no more leaves *)
(* than states.                                                            *)
(***************************************************************************)
LEMMA LeavesAreStates ==
    ASSUME NEW m \in Targets, NEW t, NEW over, Sound(m, t, over)
    PROVE  t.leaf_node_count <= m.state_count
<1> DEFINE L == Language(m)
           ids == StatesOf(m)
           label(n) == t.node[n].label
           reached(n) == run(m, m.initial_states, label(n))
           f == [n \in LeavesOf(t) |-> CHOOSE q \in ids : reached(n) = {q}]
<1>1. TreeFine(t, over) /\ t.alphabet_size = m.input_alphabet_size /\ IdsFine(t)
      /\ \A n \in LeavesOf(t) : LeafFine(L, t, over, n)
  BY DEF Sound, TreeOf, LeavesFine
<1>2. Words(t) = Queries(m)
  BY <1>1 DEF Words, Letters, Queries
<1>3. \A n \in Nodes(t) : label(n) \in Queries(m)
  BY <1>1, <1>2 DEF TreeFine, NodeFine
<1>4. ASSUME NEW n \in LeavesOf(t) PROVE f[n] \in ids /\ reached(n) = {f[n]}
  <2>1. \E q \in ids : reached(n) = {q}
    <3>1. label(n) \in Queries(m)
      BY <1>3 DEF LeavesOf
    <3> QED BY <3>1, OneState DEF SingleState
  <2>2. f[n] = CHOOSE q \in ids : reached(n) = {q}
    OBVIOUS
  <2> HIDE DEF f, reached
  <2> QED BY <2>1, <2>2
<1>5. ASSUME NEW x \in LeavesOf(t), NEW y \in LeavesOf(t), f[x] = f[y], x # y PROVE FALSE
  <2> DEFINE c == least_commont_ancestor(t, x, y)
             z == label(c)
             v == label(x)
             w == label(y)
  <2>1. OnPath(L, t, over, x, v) /\ OnPath(L, t, over, y, w)
    BY <1>1 DEF LeafFine
  <2>2. Apart(L, t, c, v, w)
    <3> HIDE DEF L, v, w
    <3> QED BY <1>1, <1>5, <2>1, ToldApart
  <2>3. c \in Nodes(t)
    <3>1. c \in over[x]
      BY <1>1, <1>5, AncestorFacts
    <3>2. x \in Nodes(t)
      BY DEF LeavesOf
    <3> HIDE DEF c
    <3> QED BY <1>1, <3>1, <3>2 DEF TreeFine, Chain, InnerOf
  <2>4. v \in Queries(m) /\ w \in Queries(m) /\ z \in Queries(m)
    BY <1>3, <2>3 DEF LeavesOf
  <2>5. run(m, m.initial_states, v) = run(m, m.initial_states, w)
    BY <1>4, <1>5
  <2>6. ~(v \o z \in L <=> w \o z \in L)
    BY <2>2 DEF Apart
  <2> HIDE DEF v, w, z
  <2>7. run(m, m.initial_states, v \o z) = run(m, m.initial_states, w \o z)
    BY <2>4, <2>5, RunGoesOn
  <2>8. classify(m, v \o z, Reject) = classify(m, w \o z, Reject)
    BY <2>7 DEF classify
  <2>9. v \o z \in Queries(m) /\ w \o z \in Queries(m)
    BY <2>4, WordFacts DEF Queries
  <2> QED BY <2>6, <2>8, <2>9 DEF Language, Queries
<1>6. f \in Injection(LeavesOf(t), ids)
  <2>1. f \in [LeavesOf(t) -> ids]
    <3>1. f = [n \in LeavesOf(t) |-> f[n]]
      OBVIOUS
    <3> HIDE DEF f, ids
    <3> QED BY <1>4, <3>1
  <2> HIDE DEF f, ids
  <2> QED BY <1>5, <2>1 DEF Injection, IsInjective
<1>7. m.state_count \in Nat
  BY DeterministicAssumption
<1>8. IsFiniteSet(ids) /\ Cardinality(ids) = m.state_count
  <2>1. 0 \in Int /\ m.state_count - 1 \in Int
    BY <1>7
  <2>2. IsFiniteSet(0..(m.state_count - 1))
        /\ Cardinality(0..(m.state_count - 1)) = IF 0 > m.state_count - 1 THEN 0 ELSE m.state_count - 1 - 0 + 1
    BY <2>1, FS_Interval
  <2> QED BY <1>7, <2>2 DEF StatesOf
<1> HIDE DEF f, ids
<1>9. Cardinality(LeavesOf(t)) <= Cardinality(ids)
  BY <1>6, <1>8, FS_Injection
<1> QED BY <1>1, <1>8, <1>9 DEF IdsFine

-----------------------------------------------------------------------------
(* The specification keeps the invariant. *)

IInv ==
    /\ target \in Targets /\ refuted \in Nat
    /\ Learning(target, refuted, kb, alg)
    /\ Judged(target, alg, conjecture)

\* A learner that is saved or loaded has the conjecture that it had.
LEMMA KeptInvariant ==
    ASSUME IInv, Kept(target, refuted, kb, alg, alg'), UNCHANGED <<kb, conjecture, target, refuted>>
    PROVE  IInv'
<1>1. Learning(target, refuted, kb, alg') /\ SameTree(alg, alg') /\ (alg.tasks = <<>> => alg'.tasks = <<>>)
  BY DEF Kept
<1>2. Judged(target, alg', conjecture)
  BY <1>1, SameTreeJudges DEF IInv, Judged
<1>3. /\ target' = target /\ refuted' = refuted /\ kb' = kb /\ conjecture' = conjecture
  OBVIOUS
<1> QED BY <1>1, <1>2, <1>3 DEF IInv

\* Nothing is known at first.
LEMMA AtFirst ==
    ASSUME Init
    PROVE  IInv
<1>1. Truthful(target, EmptyKnowledgebase)
  <2> DEFINE k == EmptyKnowledgebase
  <2>1. /\ "node" \in DOMAIN k /\ DOMAIN k.node = {<<>>}
        /\ \A w \in {<<>>} : k.node[w].status = "ignore"
    BY DEF EmptyKnowledgebase, Ignored
  <2> HIDE DEF k
  <2>2. Truthful(target, k)
    BY <2>1 DEF Truthful, is_answered
  <2> QED BY <2>2 DEF k
<1>2. PICK binary \in Searches : alg = EmptyTree(binary, target.input_alphabet_size)
  BY DEF Init
<1>3. target \in Targets /\ kb = EmptyKnowledgebase /\ refuted = 0 /\ conjecture = NoConjecture
  BY DEF Init
<1>4. target.input_alphabet_size \in Nat
  BY <1>3, TargetsAssumption DEF Teachable, Alphabet
<1>5. Learning(target, refuted, kb, alg)
  BY <1>1, <1>2, <1>3, <1>4 DEF Learning, EmptyTree, TreeRecord
<1> QED BY <1>3, <1>5 DEF IInv, Judged

\* Each operation of the learner and its user keeps the invariant.
LEMMA AdvanceKeeps ==
    ASSUME IInv, Advance
    PROVE  IInv'
<1> DEFINE r == advance(alg, kb)
<1>1. kb' = r.kb /\ alg' = r.alg /\ conjecture' = r.conjecture /\ target' = target /\ refuted' = refuted
  BY DEF Advance
<1>2. Learning(target, refuted, r.kb, r.alg) /\ Judged(target, r.alg, r.conjecture)
  BY AdvanceFine DEF IInv
<1> HIDE DEF r
<1> QED BY <1>1, <1>2 DEF IInv

\* The teacher answers one of the words asked for.
LEMMA AnswerKeeps ==
    ASSUME IInv, AnswerQuery
    PROVE  IInv'
<1>1. kb' = FirstAnswered(kb) /\ UNCHANGED <<alg, conjecture, target, refuted>>
  BY DEF AnswerQuery
<1>2. Truthful(target, FirstAnswered(kb))
  <2>1. Truthful(target, kb)
    BY DEF IInv, Learning
  <2> DEFINE w == Head(kb.required)
             a == Truth(w)
  <2>2. w \in Queries(target) => a = classify(target, w, Reject)
    BY DEF Truth
  <2> HIDE DEF w, a
  <2>3. Truthful(target, set_answer(kb, w, a))
    BY <2>1, <2>2, TruthfulAnswer
  <2> QED BY <2>3 DEF FirstAnswered, w, a
<1>3. Learning(target, refuted, FirstAnswered(kb), alg)
  BY <1>2, OtherAnswers DEF IInv
<1> QED BY <1>1, <1>3 DEF IInv

\* Counterexamples are words.
LEMMA CounterexampleWords ==
    ASSUME IInv, NEW w \in Counterexamples(conjecture, MaxCounterexample)
    PROVE  w \in Words(alg) /\ classify(conjecture, w, Reject) # classify(target, w, Reject)
<1>1. alg.alphabet_size = target.input_alphabet_size
  BY DEF IInv, Learning
<1>2. PICK i \in 0..MaxCounterexample : w \in [1..i -> 0..(target.input_alphabet_size - 1)]
  BY DEF Counterexamples, Wordlets
<1>3. w \in Seq(0..(target.input_alphabet_size - 1))
  <2>1. i \in Nat
    BY <1>2, MaxCounterexampleAssumption
  <2> QED BY <1>2, <2>1, SeqDef
<1> QED BY <1>1, <1>3 DEF Counterexamples, Words, Letters, Truth

\* A counterexample the conjecture gets wrong starts a search for its bad
\* prefix.
LEMMA CounterexampleKeeps ==
    ASSUME IInv, AddCounterexample
    PROVE  IInv'
<1>1. PICK w \in Counterexamples(conjecture, MaxCounterexample) :
         LET r == add_counterexample(alg, kb, w)
         IN  /\ kb' = r.kb /\ alg' = r.alg
             /\ refuted' = IF r.alg = alg THEN refuted ELSE Found
  BY DEF AddCounterexample
<1>2. conjecture # NoConjecture /\ conjecture' = NoConjecture /\ target' = target
  BY DEF AddCounterexample
<1>3. alg.tasks = <<>> /\ Judges(target, alg, conjecture)
  BY <1>2 DEF IInv, Judged
<1>4. w \in Words(alg) /\ classify(conjecture, w, Reject) # classify(target, w, Reject)
  BY CounterexampleWords
<1> DEFINE r == add_counterexample(alg, kb, w)
           g == IF r.alg = alg THEN refuted ELSE IF alg.initial_phase THEN 1 ELSE alg.leaf_node_count
<1>5. kb' = r.kb /\ alg' = r.alg /\ refuted' = g
  BY <1>1 DEF Found
<1>6. g \in Nat /\ Learning(target, g, r.kb, r.alg)
  BY <1>3, <1>4, CounterexampleFine DEF IInv
<1> HIDE DEF r, g
<1> QED BY <1>2, <1>5, <1>6 DEF IInv, Judged

\* Saving: the search that loses its prefix in it is linear, and none is
\* pending.
LEMMA SaveKeeps ==
    ASSUME "linear" \notin SaveDuring, IInv, Save
    PROVE  IInv'
<1>1. \A i \in DOMAIN alg.tasks : alg.tasks[i].kind # "linear"
  BY DEF Save, Pending
<1>2. Kept(target, refuted, kb, alg, serialized(alg))
  BY <1>1, SavedFine DEF IInv
<1>3. alg' = serialized(alg) /\ UNCHANGED <<kb, conjecture, target, refuted>>
  BY DEF Save, Interrupted
<1>4. Kept(target, refuted, kb, alg, alg')
  BY <1>2, <1>3
<1> QED BY <1>3, <1>4, KeptInvariant

\* Loading a saved learner: a binary search forgets how far it sifted.
LEMMA ReloadKeeps ==
    ASSUME IInv, Reload
    PROVE  IInv'
<1>1. \A i \in DOMAIN alg.tasks : alg.tasks[i].kind # "linear"
  BY DEF Reload, Pending
<1>2. Kept(target, refuted, kb, alg, tree_reload(alg))
  BY <1>1, ReloadedFine DEF IInv
<1>3. alg' = tree_reload(alg) /\ UNCHANGED <<kb, conjecture, target, refuted>>
  BY DEF Reload, Interrupted
<1>4. Kept(target, refuted, kb, alg, alg')
  BY <1>2, <1>3
<1> QED BY <1>3, <1>4, KeptInvariant

\* Changing the kind of search for counterexamples to come.
LEMMA SwitchKeeps ==
    ASSUME IInv, SetBinarySearch
    PROVE  IInv'
<1> DEFINE b == ~alg.use_binary_search
           u == [alg EXCEPT !.use_binary_search = b]
<1>1. alg' = u /\ UNCHANGED <<kb, conjecture, target, refuted>>
  BY DEF SetBinarySearch, Interrupted
<1> HIDE DEF b
<1>2. Kept(target, refuted, kb, alg, u)
  BY SwitchedFine DEF IInv
<1>3. Kept(target, refuted, kb, alg, alg')
  BY <1>1, <1>2
<1> QED BY <1>1, <1>3, KeptInvariant

\* Knowledge that no answer rests on is dropped.
LEMMA ForgetKeeps ==
    ASSUME IInv, Forget
    PROVE  IInv'
<1>1. UNCHANGED <<alg, conjecture, target, refuted>>
  BY DEF Forget, Interrupted
<1>2. "node" \in DOMAIN kb /\ Truthful(target, kb)
  BY DEF IInv, Learning, Truthful
<1>3. Forgets(kb, kb')
  <2>1. CASE kb' = clear_queries(kb)
    <3>1. PICK count : count = 0
      OBVIOUS
    <3> QED BY <1>2, <2>1, UndoForgets
  <2>2. CASE \E count \in Forgotten : kb' = undo(kb, count)
    BY <1>2, <2>2, UndoForgets
  <2> QED BY <2>1, <2>2 DEF Forget
<1>4. Truthful(target, kb')
  BY <1>2, <1>3, ForgottenIsTruthful
<1>5. Learning(target, refuted, kb', alg)
  BY <1>4, OtherAnswers DEF IInv
<1> QED BY <1>1, <1>5 DEF IInv

(***************************************************************************)
(* Whatever the application does, and whenever it saves, loads, switches   *)
(* or forgets, the tree sorts by what the target's language says.          *)
(***************************************************************************)
THEOREM TreeInvariant ==
    ASSUME "linear" \notin SaveDuring
    PROVE  Spec => []IInv
<1>1. Init => IInv
  BY AtFirst
<1>2. IInv /\ [Next]_vars => IInv'
  <2> SUFFICES ASSUME IInv, [Next]_vars PROVE IInv'
    OBVIOUS
  <2>1. CASE Advance
    BY <2>1, AdvanceKeeps
  <2>2. CASE AnswerQuery
    BY <2>2, AnswerKeeps
  <2>3. CASE AddCounterexample
    BY <2>3, CounterexampleKeeps
  <2>4. CASE Save
    BY <2>4, SaveKeeps
  <2>5. CASE Reload
    BY <2>5, ReloadKeeps
  <2>6. CASE SetBinarySearch
    BY <2>6, SwitchKeeps
  <2>7. CASE Forget
    BY <2>7, ForgetKeeps
  <2>8. CASE UNCHANGED vars
    BY <2>8 DEF vars, IInv
  <2> QED BY <2>1, <2>2, <2>3, <2>4, <2>5, <2>6, <2>7, <2>8 DEF Next
<1> QED BY <1>1, <1>2, PTL DEF Spec

-----------------------------------------------------------------------------
(* What the runs check. *)

\* The learner before its first counterexample, or with a tree.
LEMMA EmptyOrSound ==
    ASSUME IInv
    PROVE  \/ /\ alg.initial_phase = TRUE /\ alg.tasks = <<>> /\ refuted = 0
              /\ alg.node = <<>> /\ alg.leaf_node_count = 0
              /\ Leaves = {} /\ Inner = {} /\ DOMAIN alg.node = {}
           \/ /\ alg.initial_phase = FALSE
              /\ \E over : /\ Sound(target, alg, over)
                           /\ Waits(Language(target), alg, over, alg.tasks, refuted)
                           /\ TreeFine(alg, over) /\ alg.alphabet_size = target.input_alphabet_size
                           /\ DOMAIN alg.node = Nodes(alg)
                           /\ Leaves = LeavesOf(alg) /\ Inner = InnerOf(alg)
<1>1. CASE alg.initial_phase = TRUE
  <2>1. alg.tasks = <<>> /\ refuted = 0 /\ alg.node = <<>> /\ alg.leaf_node_count = 0
    BY <1>1 DEF IInv, Learning
  <2>2. DOMAIN alg.node = {}
    BY <2>1
  <2> QED BY <1>1, <2>1, <2>2 DEF Leaves, Inner
<1>2. CASE alg.initial_phase = FALSE
  <2>1. PICK over : Sound(target, alg, over) /\ Waits(Language(target), alg, over, alg.tasks, refuted)
    BY <1>2 DEF IInv, Learning, Working
  <2>2. TreeFine(alg, over) /\ alg.alphabet_size = target.input_alphabet_size
    BY <2>1 DEF Sound, TreeOf
  <2>3. DOMAIN alg.node = Nodes(alg)
    BY <2>2, SequenceFacts DEF TreeFine, Nodes
  <2>4. Leaves = LeavesOf(alg)
    BY <2>3 DEF Leaves, LeavesOf, is_leaf
  <2>5. Inner = InnerOf(alg)
    BY <2>3, <2>4 DEF Inner, LeavesOf, InnerOf
  <2> QED BY <1>2, <2>1, <2>2, <2>3, <2>4, <2>5
<1> QED BY <1>1, <1>2 DEF IInv, Learning

\* What the invariant says, read as the properties of the runs: the types,
LEMMA InvariantTypes ==
    ASSUME IInv
    PROVE  TypeOK
<1>1. CASE alg.initial_phase = TRUE
  <2>1. /\ alg.leaf_node_count = 0 /\ Leaves = {} /\ Inner = {} /\ DOMAIN alg.node = {}
    BY <1>1, EmptyOrSound
  <2>2. {alg.node[n].id : n \in Leaves} = {} /\ 0..(0 - 1) = {}
    BY <2>1
  <2>3. Cardinality(Leaves) = 0
    BY <2>1, FS_EmptySet
  <2> QED BY <2>1, <2>2, <2>3 DEF TypeOK
<1>2. CASE alg.initial_phase = FALSE
  <2>1. PICK over : /\ Sound(target, alg, over)
                    /\ TreeFine(alg, over) /\ DOMAIN alg.node = Nodes(alg)
                    /\ Leaves = LeavesOf(alg) /\ Inner = InnerOf(alg)
    BY <1>2, EmptyOrSound
  <2>2. ASSUME NEW n \in Inner, NEW child \in {alg.node[n].left, alg.node[n].right}
        PROVE  alg.node[child].parent = n /\ alg.node[child].level = alg.node[n].level + 1
    BY <2>1, Children DEF Below
  <2>3. ASSUME NEW n \in DOMAIN alg.node \ {alg.root}
        PROVE  LET p == alg.node[n].parent
               IN  p \in Inner /\ n \in {alg.node[p].left, alg.node[p].right}
    BY <2>1 DEF TreeFine, Hangs
  <2>4. IdsFine(alg)
    BY <2>1 DEF Sound
  <2> QED BY <2>1, <2>2, <2>3, <2>4 DEF TypeOK, IdsFine
<1> QED BY <1>1, <1>2 DEF IInv, Learning

\* ... the leaves,
LEMMA InvariantPlaces ==
    ASSUME IInv
    PROVE  LeavesInPlace
<1> SUFFICES ASSUME NEW n \in Leaves PROVE Belongs(alg.node[n].label, alg.root) = n
  BY DEF LeavesInPlace
<1>1. PICK over : /\ Sound(target, alg, over)
                  /\ TreeFine(alg, over) /\ alg.alphabet_size = target.input_alphabet_size
                  /\ Leaves = LeavesOf(alg)
  BY EmptyOrSound
<1>2. OnPath(Language(target), alg, over, n, alg.node[n].label)
  BY <1>1 DEF Sound, LeavesFine, LeafFine
<1>3. alg.node[n].label \in Words(alg)
  BY <1>1 DEF LeavesOf, TreeFine, NodeFine
<1> QED BY <1>1, <1>2, <1>3, BelongsThere

\* ... the transitions,
LEMMA InvariantTransitions ==
    ASSUME IInv
    PROVE  TransitionsRight
<1> SUFFICES ASSUME NEW n \in Leaves, NEW a \in DOMAIN alg.node[n].transitions,
                    ~\E i \in DOMAIN alg.tasks :
                        /\ alg.tasks[i].kind = "transition"
                        /\ alg.tasks[i].source = n /\ alg.tasks[i].symbol = a
             PROVE  alg.node[n].transitions[a] = Belongs(Append(alg.node[n].label, a), alg.root)
  BY DEF TransitionsRight
<1> DEFINE L == Language(target)
<1>1. PICK over : /\ Sound(target, alg, over) /\ Waits(L, alg, over, alg.tasks, refuted)
                  /\ TreeFine(alg, over) /\ alg.alphabet_size = target.input_alphabet_size
                  /\ Leaves = LeavesOf(alg)
  BY EmptyOrSound
<1>2. n \in LeavesOf(alg) /\ n \in Nodes(alg)
  BY <1>1 DEF LeavesOf
<1>3. alg.node[n].label \in Words(alg) /\ a \in Letters(alg)
  BY <1>1, <1>2 DEF TreeFine, NodeFine, LeafNode, InnerNode, LeavesOf
<1>4. Sequence(alg.tasks)
  BY <1>1 DEF Waits
<1>5. ~Awaits(Range(alg.tasks), n, a)
  BY <1>4, SequenceFacts DEF Awaits
<1>6. Leads(L, alg, over, n, a)
  <2>1. CASE Computing(L, alg, over, Range(alg.tasks))
    BY <1>2, <1>3, <1>5, <2>1 DEF Computing, TransitionsFine
  <2>2. CASE Searching(L, alg, over, alg.tasks[1])
    BY <1>2, <1>3, <2>2 DEF Searching, Complete
  <2> QED BY <1>1, <2>1, <2>2 DEF Waits
<1>7. Append(alg.node[n].label, a) \in Words(alg)
  BY <1>3, WordFacts DEF Words
<1> QED BY <1>1, <1>6, <1>7, BelongsThere DEF Leads

\* ... the searches,
LEMMA InvariantSearches ==
    ASSUME IInv
    PROVE  SearchBracketsBadPrefix
<1> SUFFICES ASSUME NEW i \in DOMAIN alg.tasks, alg.tasks[i].kind = "binary"
             PROVE  LET task == alg.tasks[i]
                        good(j) == simulate_run(alg, Prefix(task, j)) = Belongs(Prefix(task, j), alg.root)
                    IN  /\ task.position \in task.left..task.right
                        /\ good(task.left - 1) /\ ~good(task.right)
  BY DEF SearchBracketsBadPrefix
<1> DEFINE L == Language(target)
           task == alg.tasks[i]
           w == task.counterexample
           taken(j) == simulate_run(alg, Prefix(task, j))
           there(j) == Belongs(Prefix(task, j), alg.root)
<1>1. PICK over : /\ Sound(target, alg, over) /\ Waits(L, alg, over, alg.tasks, refuted)
                  /\ TreeFine(alg, over) /\ alg.alphabet_size = target.input_alphabet_size
  BY EmptyOrSound
<1>2. Sequence(alg.tasks) /\ DOMAIN alg.tasks = 1..Len(alg.tasks) /\ task \in Range(alg.tasks)
  BY <1>1, SequenceFacts DEF Waits
<1>3. ~Computing(L, alg, over, Range(alg.tasks))
  BY <1>2 DEF Computing, TransitionFine
<1>4. Complete(L, alg, over) /\ BinaryFine(L, alg, over, task)
  <2>1. Len(alg.tasks) = 1 /\ Searching(L, alg, over, alg.tasks[1])
    BY <1>1, <1>3 DEF Waits
  <2>2. i = 1
    BY <1>2, <2>1
  <2> QED BY <2>1, <2>2 DEF Searching, SearchFine, SplitFine, LinearFine
<1>5. w \in Words(alg) /\ Len(w) \in Nat
  BY <1>4, LenProperties DEF BinaryFine, Words
<1> HIDE DEF task
<1>6. ASSUME NEW j \in 0..Len(w)
      PROVE  taken(j) = there(j) <=> Good(L, alg, over, w, j)
  <2>1. SubSeq(w, 1, j) \in Words(alg) /\ Prefix(task, j) = SubSeq(w, 1, j)
    BY <1>5, WordFacts DEF Words, Prefix
  <2>2. taken(j) \in LeavesOf(alg)
    BY <1>4, <2>1, RunFine
  <2>3. OnPath(L, alg, over, there(j), SubSeq(w, 1, j))
    BY <1>1, <2>1, BelongsFine
  <2>4. OnPath(L, alg, over, taken(j), SubSeq(w, 1, j)) => there(j) = taken(j)
    BY <1>1, <2>1, <2>2, BelongsThere
  <2>5. Good(L, alg, over, w, j) <=> OnPath(L, alg, over, taken(j), SubSeq(w, 1, j))
    BY <2>1 DEF Good
  <2> HIDE DEF taken, there, L
  <2> QED BY <2>3, <2>4, <2>5
<1>7. /\ task.position \in task.left..task.right /\ task.left - 1 \in 0..Len(w) /\ task.right \in 0..Len(w)
      /\ Good(L, alg, over, w, task.left - 1) /\ ~Good(L, alg, over, w, task.right)
  BY <1>4, <1>5 DEF BinaryFine
<1>8. taken(task.left - 1) = there(task.left - 1) /\ taken(task.right) # there(task.right)
  <2> HIDE DEF taken, there, L, w
  <2> QED BY <1>6, <1>7
<1> QED BY <1>7, <1>8 DEF task

\* ... and the number of leaves.
LEMMA InvariantCounts ==
    ASSUME IInv
    PROVE  LeavesGrow
<1>1. target \in Targets /\ target.state_count \in Nat
  BY DeterministicAssumption DEF IInv
<1>2. CASE alg.initial_phase = TRUE
  <2>1. Found = 1 /\ refuted = 0
    BY <1>2, EmptyOrSound DEF Found
  <2>2. \E q \in target.initial_states : q \in 0..(target.state_count - 1)
    BY <1>1, DeterministicAssumption, TargetsAssumption DEF Teachable
  <2>3. 1 <= target.state_count
    BY <1>1, <2>2
  <2> QED BY <2>1, <2>3 DEF LeavesGrow
<1>3. CASE alg.initial_phase = FALSE
  <2>1. PICK over : /\ Sound(target, alg, over)
                    /\ Waits(Language(target), alg, over, alg.tasks, refuted)
    BY <1>3, EmptyOrSound
  <2>2. Found = alg.leaf_node_count
    BY <1>3 DEF Found
  <2>3. alg.leaf_node_count <= target.state_count
    BY <1>1, <2>1, LeavesAreStates
  <2>4. conjecture # NoConjecture => refuted < alg.leaf_node_count
    <3> SUFFICES ASSUME conjecture # NoConjecture PROVE refuted < alg.leaf_node_count
      OBVIOUS
    <3>1. alg.tasks = <<>>
      BY DEF IInv, Judged
    <3>2. Len(alg.tasks) = 0
      BY <3>1, EmptySequence
    <3> QED BY <2>1, <3>2 DEF Waits
  <2> QED BY <2>2, <2>3, <2>4 DEF LeavesGrow
<1> QED BY <1>2, <1>3 DEF IInv, Learning

(***************************************************************************)
(* The nodes are a tree, and the leaves' ids index an array that is as     *)
(* long as there are leaves, whenever the learner is loaded or split.      *)
(***************************************************************************)
THEOREM TreeTypes ==
    ASSUME "linear" \notin SaveDuring
    PROVE  Spec => []TypeOK
<1>1. Spec => []IInv
  BY TreeInvariant
<1>2. IInv => TypeOK
  BY InvariantTypes
<1> QED BY <1>1, <1>2, PTL

(***************************************************************************)
(* Sifting the word of a leaf leads to that leaf, after any split and      *)
(* whatever was forgotten since it was planned.                            *)
(***************************************************************************)
THEOREM LeavesStayInPlace ==
    ASSUME "linear" \notin SaveDuring
    PROVE  Spec => []LeavesInPlace
<1>1. Spec => []IInv
  BY TreeInvariant
<1>2. IInv => LeavesInPlace
  BY InvariantPlaces
<1> QED BY <1>1, <1>2, PTL

(***************************************************************************)
(* Every transition leads where its word belongs, or a task will compute   *)
(* it: no transition is missed when split_node_task goes by                *)
(* incoming_transitions.                                                   *)
(***************************************************************************)
THEOREM NoTransitionMissed ==
    ASSUME "linear" \notin SaveDuring
    PROVE  Spec => []TransitionsRight
<1>1. Spec => []IInv
  BY TreeInvariant
<1>2. IInv => TransitionsRight
  BY InvariantTransitions
<1> QED BY <1>1, <1>2, PTL

(***************************************************************************)
(* The binary search keeps a bad prefix between its ends, also after it    *)
(* was loaded and sifts from the root again.                               *)
(***************************************************************************)
THEOREM SearchesBracket ==
    ASSUME "linear" \notin SaveDuring
    PROVE  Spec => []SearchBracketsBadPrefix
<1>1. Spec => []IInv
  BY TreeInvariant
<1>2. IInv => SearchBracketsBadPrefix
  BY InvariantSearches
<1> QED BY <1>1, <1>2, PTL

(***************************************************************************)
(* There are never more leaves than the target has states, and when the    *)
(* next conjecture comes, there are more than the last counterexample      *)
(* refuted: as many counterexamples as states suffice.                     *)
(***************************************************************************)
THEOREM CounterexamplesSplit ==
    ASSUME "linear" \notin SaveDuring
    PROVE  Spec => []LeavesGrow
<1>1. Spec => []IInv
  BY TreeInvariant
<1>2. IInv => LeavesGrow
  BY InvariantCounts
<1> QED BY <1>1, <1>2, PTL

=============================================================================
