----------------------------- MODULE AmoreRegex -----------------------------
(***************************************************************************)
(* Regular expressions of libAMoRE: the operator precedence parser         *)
(* (parse.c, rexFromString.c), Berry and Sethi's automaton (rex2nfa.c),    *)
(* the elimination of states (nfa2rex.c) and the infix form                *)
(* (regexp-infix.c).                                                       *)
(*                                                                         *)
(* A text is a sequence of one-character strings; an expression is a tree  *)
(* [op, sons], the postfix form of the code read from its end.             *)
(***************************************************************************)
EXTENDS AmoreAutomata

Letter == <<"a", "b", "c">>
Number(ch) == CHOOSE i \in DOMAIN Letter : Letter[i] = ch

Leaf(ch) == [op |-> ch, sons |-> <<>>]
Unary(op, e) == [op |-> op, sons |-> <<e>>]
Binary(op, e1, e2) == [op |-> op, sons |-> <<e1, e2>>]

-----------------------------------------------------------------------------
(* The parser.  The stack holds terminals and expressions (sym = "E").     *)

rank == ("U" :> 1) @@ ("-" :> 2) @@ ("&" :> 3) @@ ("." :> 4) @@ ("~" :> 5) @@ ("+" :> 6) @@ ("*" :> 6)
operators == DOMAIN rank \cup {"(", ")", "$"}

identifiers(alphabet_size) == Range(SubSeq(Letter, 1, alphabet_size)) \cup {"@", "%"}

\* get_type(): a missing "." between two operands is filled in.
WithConcat(text) ==
    LET ends(ch) == ch \notin operators \/ ch \in {")", "+", "*"}
        starts(ch) == ch \notin operators \/ ch \in {"(", "~"}
    IN  FoldLeft(LAMBDA s, ch : IF s # <<>> /\ ends(Last(s)) /\ starts(ch)
                                THEN s \o <<".", ch>> ELSE Append(s, ch), <<>>, text)

\* The precedence table says LESS or EQUAL: the next symbol is shifted.
Shifts(row, col) ==
    \/ col = "(" \/ col \notin operators
    \/ row = "(" /\ col # "$"
    \/ row = "$" /\ col # ")"
    \/ row \in DOMAIN rank /\ col \in DOMAIN rank /\ (rank[row] < rank[col] \/ <<row, col>> = <<"~", "~">>)

\* The right side of the rule that has the symbol, and what it reduces to.
Reducible(sym) ==
    CASE sym \notin operators -> <<sym>>
      [] sym \in {"*", "+"} -> <<"E", sym>>
      [] sym = ")" -> <<"(", "E", ")">>
      [] sym = "~" -> <<sym, "E">>
      [] OTHER -> <<"E", sym, "E">>
Reduction(sym, items) ==
    LET trees == [i \in DOMAIN items |-> items[i].tree]
    IN  CASE sym \notin operators -> Leaf(sym)
          [] sym \in {"*", "+"} -> Unary(sym, trees[1])
          [] sym = ")" -> trees[2]
          [] sym = "~" -> Unary(sym, trees[2])
          [] OTHER -> Binary(sym, trees[1], trees[3])

\* reduce(): {} if the top of the stack is not such a right side.
reduce(stack, sym) ==
    LET rule == Reducible(sym)
        below == Len(stack) - Len(rule)
        items == SubSeq(stack, below + 1, Len(stack))
    IN  IF below < 1 THEN {}
        ELSE IF [i \in DOMAIN items |-> items[i].sym] # rule THEN {}
        ELSE {Append(SubSeq(stack, 1, below), [sym |-> "E", tree |-> Reduction(sym, items)])}

RECURSIVE parse(_, _)
\* {the tree}, or {} after an error.
parse(stack, input) ==
    LET terminal == {i \in DOMAIN stack : stack[i].sym # "E"}
        top == stack[Max(terminal)].sym
        next == Head(input)
    IN  IF top = "$" /\ next = "$"
        THEN IF Last(stack).sym = "E" THEN {Last(stack).tree} ELSE {}
        ELSE IF <<top, next>> \in {<<"(", "$">>, <<"$", ")">>} THEN {}
        ELSE IF Shifts(top, next)
        THEN parse(Append(stack, [sym |-> next, tree |-> {}]), Tail(input))
        ELSE UNION {parse(s, input) : s \in reduce(stack, top)}

rexFromString(alphabet_size, text) ==
    IF text = <<>> \/ \E i \in DOMAIN text : text[i] \notin identifiers(alphabet_size) \cup operators
    THEN {}
    ELSE parse(<<[sym |-> "$", tree |-> {}]>>, Append(WithConcat(text), "$"))

-----------------------------------------------------------------------------
(* rex2nfa(): state i is the i-th letter of the expression, 0 the start.   *)

RECURSIVE Numbered(_, _)
\* The tree with the numbers of its letters, the first being n + 1; and the last number.
Numbered(e, n) ==
    CASE e.op = "@" -> [tree |-> e, last |-> n]
      [] e.op \in {"*", "+"} -> LET son == Numbered(e.sons[1], n)
                                IN  [tree |-> Unary(e.op, son.tree), last |-> son.last]
      [] e.op \in {"U", "."} -> LET left == Numbered(e.sons[1], n)
                                    right == Numbered(e.sons[2], left.last)
                                IN  [tree |-> Binary(e.op, left.tree, right.tree), last |-> right.last]
      [] OTHER -> [tree |-> [op |-> "a", sons |-> <<>>, letter |-> Number(e.op), state |-> n + 1],
                   last |-> n + 1]

RECURSIVE HasEmpty(_), complast(_), compfirst(_), compff(_, _)
HasEmpty(e) ==
    CASE e.op \in {"@", "*"} -> TRUE
      [] e.op = "+" -> HasEmpty(e.sons[1])
      [] e.op = "U" -> HasEmpty(e.sons[1]) \/ HasEmpty(e.sons[2])
      [] e.op = "." -> HasEmpty(e.sons[1]) /\ HasEmpty(e.sons[2])
      [] OTHER -> FALSE

\* The states of letters that end, or as <<letter, state>> begin, a word.
complast(e) ==
    CASE e.op = "a" -> {e.state}
      [] e.op = "." /\ ~HasEmpty(e.sons[2]) -> complast(e.sons[2])
      [] OTHER -> UNION {complast(e.sons[i]) : i \in DOMAIN e.sons}
compfirst(e) ==
    CASE e.op = "a" -> {<<e.letter, e.state>>}
      [] e.op = "." /\ ~HasEmpty(e.sons[1]) -> compfirst(e.sons[1])
      [] OTHER -> UNION {compfirst(e.sons[i]) : i \in DOMAIN e.sons}

\* X(e, f): the moves between the letters of e and on to those that f begins with.
compff(e, f) ==
    CASE e.op = "a" -> {<<p[1], e.state, p[2]>> : p \in compfirst(f)}
      [] e.op = "U" -> compff(e.sons[1], f) \cup compff(e.sons[2], f)
      [] e.op = "." -> compff(e.sons[1], Binary(".", e.sons[2], f)) \cup compff(e.sons[2], f)
      [] e.op \in {"*", "+"} -> compff(e.sons[1], Binary("U", e.sons[1], f))
      [] OTHER -> {}

rex2nfa(alphabet_size, e) ==
    LET numbered == Numbered(e, 0)
        tree == numbered.tree
    IN  NewNfa(numbered.last + 1, alphabet_size, FALSE, {0},
               complast(tree) \cup (IF HasEmpty(tree) THEN {0} ELSE {}),
               {<<p[1], 0, p[2]>> : p \in compfirst(tree)} \cup compff(tree, Leaf("@")))

-----------------------------------------------------------------------------
(* nfa2rex(): area[i][j] is {} or {the expression from state i to j}; the  *)
(* new initial state is n and the new final state n + 1.                   *)

empty == Leaf("@")

init_area(na) ==
    LET n == na.highest_state + 1
        letters(i, j) == {l \in Letters(na) : <<l, i, j>> \in na.delta}
        either(L) == FoldLeftDomain(LAMBDA e, l : IF l \notin L THEN e
                                   ELSE IF e = {} THEN {Leaf(Letter[l])}
                                   ELSE {Binary("U", t, Leaf(Letter[l])) : t \in e},
                                   {}, [l \in Letters(na) |-> l])
        edge(i, j) == IF i < n /\ j < n THEN either(letters(i, j))
                      ELSE IF \/ i = n /\ j < n /\ j \in na.init
                              \/ i < n /\ j = n + 1 /\ i \in na.final
                              \/ i = n /\ j = n + 1 /\ na.init \cap na.final # {}
                      THEN {empty} ELSE {}
    IN  [i \in 0..(n + 1) |-> [j \in 0..(n + 1) |-> edge(i, j)]]

\* A loop at q becomes a star, or a plus if it is what follows it.
destroyloops(area, q) ==
    LET after(loop, e) == IF loop = empty THEN e
                          ELSE IF e = empty THEN Unary("*", loop)
                          ELSE IF e = loop THEN Unary("+", loop)
                          ELSE Binary(".", Unary("*", loop), e)
    IN  [area EXCEPT ![q] = [j \in DOMAIN area |->
            IF j = q THEN {}
            ELSE IF j < q \/ area[q][q] = {} THEN @[j]
            ELSE {after(loop, e) : loop \in area[q][q], e \in @[j]}]]

\* re1 and re2 in a row, beside re3.
Beside(re1, re2, re3) ==
    LET row == IF re1 = empty THEN re2 ELSE IF re2 = empty THEN re1 ELSE Binary(".", re1, re2)
    IN  IF re3 = {} THEN row
        ELSE LET other == CHOOSE e \in re3 : TRUE
             IN  IF row = empty
                 THEN IF other = empty THEN empty ELSE Binary("U", other, empty)
                 ELSE Binary("U", row, other)

deletenode(area, q) ==
    [i \in DOMAIN area |-> [j \in DOMAIN area |->
        IF i <= q \/ j <= q \/ area[i][q] = {} \/ area[q][j] = {} THEN area[i][j]
        ELSE {Beside(CHOOSE e \in area[i][q] : TRUE, CHOOSE e \in area[q][j] : TRUE, area[i][j])}]]

nfa2rex(na) ==
    LET n == na.highest_state + 1
        rest == FoldLeftDomain(LAMBDA area, i : deletenode(destroyloops(area, i - 1), i - 1),
                               init_area(na), [i \in 1..n |-> i])
    IN  rest[n][n + 1]

RECURSIVE infix(_, _)
\* The text, with brackets where the operator before binds more tightly; "." is not shown.
infix(e, flag) ==
    LET newflag == IF e.op = "U" THEN 0 ELSE 1
        inner == infix(e.sons[1], newflag) \o (IF e.op = "U" THEN <<"U">> ELSE <<>>)
                   \o infix(e.sons[2], newflag)
    IN  CASE e.op \in {"*", "+"} ->
               Append(infix(e.sons[1], IF e.sons[1].op \in {"U", "."} THEN 2 ELSE flag), e.op)
          [] e.op \in {"U", "."} -> IF newflag < flag THEN <<"(">> \o inner \o <<")">> ELSE inner
          [] OTHER -> <<e.op>>
=============================================================================
