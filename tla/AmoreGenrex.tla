---------------------------- MODULE AmoreGenrex ----------------------------
(***************************************************************************)
(* Automata of generalized regular expressions, those with ~, & and -      *)
(* (genrex2nfa.c).                                                         *)
(*                                                                         *)
(* A tree has nodes [op, sons], and leaves [op |-> "r", e] for the largest *)
(* parts that are regular expressions.  Below a ~, & or - everything is    *)
(* a DFA; above them all is one NFA, built from the left to the right.     *)
(***************************************************************************)
EXTENDS AmoreRegex

boolech == {"U", "&", "-", "~"}

RECURSIVE Standard(_)
Standard(e) == e.op \notin {"&", "-", "~"} /\ \A i \in DOMAIN e.sons : Standard(e.sons[i])

RECURSIVE postfix2tree(_)
postfix2tree(e) ==
    IF Standard(e) THEN [op |-> "r", sons |-> <<>>, e |-> e]
    ELSE [op |-> e.op, sons |-> [i \in DOMAIN e.sons |-> postfix2tree(e.sons[i])], e |-> e]

Is(t, ch) == t.op = "r" /\ t.e = Leaf(ch)
LeafOf(ch) == [op |-> "r", sons |-> <<>>, e |-> Leaf(ch)]

\* The nine rules for the empty language "%", the empty word "@" and ~~.
Simplified(t) ==
    LET left == t.sons[1]
        right == Last(t.sons)
    IN  CASE t.op = "~" /\ left.op = "~" -> left.sons[1]
          [] t.op \in {"*", "+"} /\ Is(left, "@") -> LeafOf("@")
          [] t.op = "*" /\ Is(left, "%") -> LeafOf("@")
          [] t.op = "+" /\ Is(left, "%") -> LeafOf("%")
          [] t.op \in {"&", "."} /\ (Is(left, "%") \/ Is(right, "%")) -> LeafOf("%")
          [] t.op = "-" /\ Is(left, "%") -> LeafOf("%")
          [] t.op = "-" /\ Is(right, "%") -> left
          [] t.op = "U" /\ Is(left, "%") -> right
          [] t.op = "U" /\ Is(right, "%") -> left
          [] t.op = "." /\ Is(left, "@") -> right
          [] t.op = "." /\ Is(right, "@") -> left
          [] OTHER -> t

RECURSIVE optimize_tree(_)
optimize_tree(t) ==
    IF t.op = "r" THEN t
    ELSE Simplified([t EXCEPT !.sons = [i \in DOMAIN t.sons |-> optimize_tree(t.sons[i])]])

RECURSIVE reorder_node(_, _)
\* The operands of an operator of one kind and of those of its kind right below it.
reorder_node(t, kind) ==
    FlattenSeq([i \in DOMAIN t.sons |-> IF t.sons[i].op \in kind THEN reorder_node(t.sons[i], kind)
                                        ELSE <<t.sons[i]>>])

-----------------------------------------------------------------------------
(* first_run(): DFAs.                                                      *)

\* L+ or L*.  (The loop still counts the states from before minimization; those that are
\* gone are read behind the arrays, but nothing leads to them.)
plus_star_dfa(da, op) ==
    LET min == dfamdfa(da)
        first == [l \in Letters(min) |-> min.delta[l][min.init]]
        new == da.highest_state + 1
        star == op = "*" /\ da.init \notin da.final
        from == (min.final \cap States(min)) \cup (IF star THEN {new} ELSE {})
    IN  nfa2dfa(NewNfa(IF star THEN new + 1 ELSE new, da.alphabet_size, FALSE,
                       IF star THEN {new} ELSE {min.init}, from,
                       {<<l, q, min.delta[l][q]>> : l \in Letters(min), q \in States(min)}
                         \cup {<<l, q, first[l]>> : l \in Letters(min), q \in from}))

\* Puts one more DFA in front of those that are in the NFA already.
InFront(na, da) ==
    LET offset == na.highest_state + 1
        next == CHOOSE q \in na.init : TRUE
    IN  NewNfa(offset + da.highest_state + 1, da.alphabet_size, FALSE, {da.init + offset},
               na.final \cup (IF next \in na.final THEN Moved(da.final, offset) ELSE {}),
               na.delta \cup {<<l, q + offset, da.delta[l][q] + offset>> : l \in Letters(da), q \in States(da)}
                 \cup {<<m[1], q + offset, m[3]>> : q \in da.final, m \in {d \in na.delta : d[2] = next}})

conc_dfa(das) ==
    nfa2dfa(FoldRight(LAMBDA da, na : InFront(na, dfamdfa(da)), Front(das), dfa2nfa(dfamdfa(Last(das)))))

\* The value of a flattened node, given those of its operands (expr in the code).
RECURSIVE Boole(_, _)
Boole(t, values) ==
    LET width(s) == IF s.op \in boolech THEN Len(reorder_node(s, boolech)) ELSE 1
        first == width(t.sons[1])
        left == Boole(t.sons[1], SubSeq(values, 1, first))
        right == Boole(t.sons[2], SubSeq(values, first + 1, Len(values)))
    IN  CASE t.op = "~" -> ~left
          [] t.op = "U" -> left \/ right
          [] t.op = "&" -> left /\ right
          [] t.op = "-" -> left /\ ~right
          [] OTHER -> values[1]

RECURSIVE Tuples(_, _, _)
\* The reachable tuples of states in the order in which insert_elt() numbers them.
Tuples(das, found, current) ==
    IF current > Len(found) THEN found
    ELSE Tuples(das, FoldLeftDomain(LAMBDA s, l :
                        LET t == [i \in DOMAIN das |-> das[i].delta[l][found[current][i]]]
                        IN  IF t \in Range(s) THEN s ELSE Append(s, t),
                        found, [l \in Letters(das[1]) |-> l]), current + 1)

boole_dfa(das, t) ==
    LET found == Tuples(das, <<[i \in DOMAIN das |-> das[i].init]>>, 1)
        number(tuple) == (CHOOSE i \in DOMAIN found : found[i] = tuple) - 1
    IN  NewDfa(Len(found), das[1].alphabet_size, 0,
               {n \in 0..(Len(found) - 1) :
                   Boole(t, [i \in DOMAIN das |-> found[n + 1][i] \in das[i].final])},
               [l \in Letters(das[1]) |-> [n \in 0..(Len(found) - 1) |->
                   number([i \in DOMAIN das |-> das[i].delta[l][found[n + 1][i]]])]],
               FALSE)

RECURSIVE NodeDfa(_, _)
NodeDfa(alphabet_size, t) ==
    LET kind == IF t.op = "." THEN {"."} ELSE boolech
        operands == reorder_node(t, kind)
        das == [i \in DOMAIN operands |-> NodeDfa(alphabet_size, operands[i])]
    IN  CASE t.op = "r" -> nfa2dfa(rex2nfa(alphabet_size, t.e))
          [] t.op \in {"*", "+"} -> plus_star_dfa(NodeDfa(alphabet_size, t.sons[1]), t.op)
          [] t.op = "." -> conc_dfa(das)
          [] OTHER -> boole_dfa(das, t)

-----------------------------------------------------------------------------
(* second_run(): the NFA.  Each node has one initial state.                *)

\* epstrans(): as if there were an empty move from each state of F to T.
epstrans(na, F, T) ==
    [na EXCEPT !.delta = @ \cup {<<m[1], q, m[3]>> : q \in F, m \in {d \in @ : d[2] = T}},
               !.final = IF T \in @ THEN @ \cup F ELSE @]

\* Two automata beside each other; the initial state is that of the first.
Beside2(na1, na2) ==
    LET offset == na1.highest_state + 1
    IN  NewNfa(offset + na2.highest_state + 1, na1.alphabet_size, FALSE, na1.init,
               na1.final \cup Moved(na2.final, offset), na1.delta \cup MovesMoved(na2.delta, offset))

WithState(na) == [na EXCEPT !.highest_state = @ + 1, !.init = {na.highest_state + 1}]
Start(na) == CHOOSE q \in na.init : TRUE

RECURSIVE NodeNfa(_, _)
NodeNfa(alphabet_size, t) ==
    LET na(i) == NodeNfa(alphabet_size, t.sons[i])
        both == Beside2(na(1), na(2))
        second == na(1).highest_state + 1 + Start(na(2))
        again == epstrans(na(1), na(1).final, Start(na(1)))
        new == na(1).highest_state + 1
        newer == both.highest_state + 1
    IN  CASE t.op = "r" -> rex2nfa(alphabet_size, t.e)
          [] t.op \in {"&", "-", "~"} -> dfa2nfa(NodeDfa(alphabet_size, t))
          [] t.op = "+" -> again
          [] t.op = "*" -> [epstrans(WithState(again), {new}, Start(na(1))) EXCEPT !.final = @ \cup {new}]
          [] t.op = "U" -> epstrans(epstrans(WithState(both), {newer}, Start(na(1))), {newer}, second)
          [] OTHER -> epstrans([both EXCEPT !.final = @ \ na(1).final], na(1).final, second)

RECURSIVE Readable(_)
\* rex2nfa() cannot read "%".
Readable(e) == e.op # "%" /\ \A i \in DOMAIN e.sons : Readable(e.sons[i])
RECURSIVE ReadableTree(_)
ReadableTree(t) == IF t.op = "r" THEN Readable(t.e) ELSE \A i \in DOMAIN t.sons : ReadableTree(t.sons[i])

\* Optimized(e): the tree that both runs work on.
Optimized(e) == optimize_tree(postfix2tree(e))
genrex2nfa(alphabet_size, e) == NodeNfa(alphabet_size, Optimized(e))
=============================================================================
