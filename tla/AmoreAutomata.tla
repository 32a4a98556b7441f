--------------------------- MODULE AmoreAutomata ---------------------------
(***************************************************************************)
(* The automata of libAMoRE and the transformations that the rest of the   *)
(* repository uses: one operator per C function.                           *)
(*                                                                         *)
(* States are 0..highest_state, letters 1..alphabet_size, and 0 is the     *)
(* empty letter of an NFA with is_eps.  A dfa has delta[letter][state]; an *)
(* nfa has a set of moves <<letter, from, to>>, its delta matrix.          *)
(***************************************************************************)
EXTENDS Integers, Sequences, FiniteSets, SequencesExt, FiniteSetsExt, Functions

States(a) == 0..a.highest_state
Letters(a) == 1..a.alphabet_size
LetterMoves(na) == {m \in na.delta : m[1] > 0}

\* The elements of a set as a sequence.
InOrder(S, before(_, _)) ==
    [i \in 1..Cardinality(S) |-> CHOOSE x \in S : Cardinality({y \in S : before(y, x)}) = i - 1]

NewNfa(n, alphabet_size, is_eps, init, final, delta) ==
    [highest_state |-> n - 1, alphabet_size |-> alphabet_size, is_eps |-> is_eps,
     init |-> init, final |-> final, delta |-> delta, minimal |-> FALSE]
NewDfa(n, alphabet_size, init, final, delta, minimal) ==
    [highest_state |-> n - 1, alphabet_size |-> alphabet_size,
     init |-> init, final |-> final, delta |-> delta, minimal |-> minimal]

\* What a copy of an nfa does not take over.
clonenfa(na) == [na EXCEPT !.minimal = FALSE]

-----------------------------------------------------------------------------
(* binary.c *)

Moved(states, by) == {q + by : q \in states}
MovesMoved(moves, by) == {<<m[1], m[2] + by, m[3] + by>> : m \in moves}

\* Only letter moves are copied.
unionfa(na1, na2) ==
    LET newbeg2 == na1.highest_state + 1
    IN  NewNfa(newbeg2 + na2.highest_state + 1, na1.alphabet_size, FALSE,
               na1.init \cup Moved(na2.init, newbeg2),
               na1.final \cup Moved(na2.final, newbeg2),
               LetterMoves(na1) \cup MovesMoved(LetterMoves(na2), newbeg2))

\* Mutant: the empty word in the second language is forgotten.
concatfa_without_empty(na1, na2) ==
    LET newbeg2 == na1.highest_state + 1
        second == MovesMoved(LetterMoves(na2), newbeg2)
    IN  NewNfa(newbeg2 + na2.highest_state + 1, na1.alphabet_size, FALSE, na1.init,
               Moved(na2.final, newbeg2),
               LetterMoves(na1) \cup second
                 \cup {<<m[1], q, m[3]>> : q \in na1.final,
                         m \in {t \in second : t[2] \in Moved(na2.init, newbeg2)}})

concatfa(na1, na2) ==
    LET newbeg2 == na1.highest_state + 1
        second == MovesMoved(LetterMoves(na2), newbeg2)
        epsilon == na2.init \cap na2.final # {}
    IN  NewNfa(newbeg2 + na2.highest_state + 1, na1.alphabet_size, FALSE, na1.init,
               Moved(na2.final, newbeg2) \cup (IF epsilon THEN na1.final ELSE {}),
               LetterMoves(na1) \cup second
                 \cup {<<m[1], q, m[3]>> : q \in na1.final,
                         m \in {s \in second : s[2] \in Moved(na2.init, newbeg2)}})

\* The product automaton: pairs are coded as q1 * offset + q2.
insecfa(da1, da2, minus) ==
    LET offset == da2.highest_state + 1
        n == (da1.highest_state + 1) * offset
        pair(q1, q2) == q1 * offset + q2
    IN  NewDfa(n, da1.alphabet_size, pair(da1.init, da2.init),
               {q \in 0..(n - 1) : /\ q \div offset \in da1.final
                                   /\ (q % offset \in da2.final) # minus},
               [l \in Letters(da1) |-> [q \in 0..(n - 1) |->
                   pair(da1.delta[l][q \div offset], da2.delta[l][q % offset])]],
               FALSE)

shuffle(na1, na2) ==
    LET offset == na2.highest_state + 1
        pairs(S1, S2) == {p[1] * offset + p[2] : p \in S1 \X S2}
        n == (na1.highest_state + 1) * offset
    IN  NewNfa(n, na1.alphabet_size, FALSE, pairs(na1.init, na2.init),
               pairs(na1.final, na2.final),
               {<<m[1], m[2] * offset + q, m[3] * offset + q>> :
                   m \in LetterMoves(na1), q \in States(na2)}
               \cup {<<m[1], q * offset + m[2], q * offset + m[3]>> :
                   m \in LetterMoves(na2), q \in States(na1)})

RECURSIVE PairsFrom(_, _, _, _)
\* The pairs of states of two DFAs that are reachable from those in new.
PairsFrom(da1, da2, new, found) ==
    IF new = {} THEN found
    ELSE LET all == found \cup new
             next == {<<da1.delta[l][p[1]], da2.delta[l][p[2]]>> : l \in Letters(da1), p \in new}
         IN  PairsFrom(da1, da2, next \ all, all)

leftquot(da1, da2) ==
    NewNfa(da1.highest_state + 1, da1.alphabet_size, FALSE,
           {p[1] : p \in {r \in PairsFrom(da1, da2, {<<da1.init, da2.init>>}, {}) :
                            r[2] \in da2.final}},
           da1.final,
           {<<l, q, da1.delta[l][q]>> : l \in Letters(da1), q \in States(da1)})

\* A state is final if a pair of final states is reachable from it and da2's initial
\* state; the marks of the code only save searches that failed before.
rightquot(da1, da2) ==
    NewDfa(da1.highest_state + 1, da1.alphabet_size, da1.init,
           {q \in States(da1) :
              PairsFrom(da1, da2, {<<q, da2.init>>}, {}) \cap (da1.final \X da2.final) # {}},
           da1.delta, FALSE)

-----------------------------------------------------------------------------
(* unaryB.c *)

\* L* or, if plus, L+: a new initial state, and final states go on like initial ones.
starnfa(na, plus) ==
    LET new == na.highest_state + 1
        first == {m \in na.delta : m[2] \in na.init}
    IN  NewNfa(new + 1, na.alphabet_size, na.is_eps, {new},
               na.final \cup (IF ~plus \/ na.init \cap na.final # {} THEN {new} ELSE {}),
               na.delta \cup {<<m[1], q, m[3]>> : m \in first, q \in na.final \cup {new}})

compldfa(da) == [da EXCEPT !.final = States(da) \ da.final]

revnfa(na) ==
    [na EXCEPT !.init = na.final, !.final = na.init,
               !.delta = {<<m[1], m[3], m[2]>> : m \in na.delta}]

\* The dead states: {} or the last one of each kind (test/testUnary.c).
DeadStates(da, final) ==
    {q \in States(da) : (q \in da.final) = final /\ \A l \in Letters(da) : da.delta[l][q] = q}
deadsearch(da, final) == IF DeadStates(da, final) = {} THEN {} ELSE {Max(DeadStates(da, final))}

simpledfa(full, alphabet_size) ==
    NewDfa(1, alphabet_size, 0, IF full THEN {0} ELSE {},
           [l \in 1..alphabet_size |-> [q \in {0} |-> 0]], TRUE)

\* Words of L without a proper prefix in L: all final states become one, 0, and the
\* last state is dead.
minL(da) ==
    LET nonfinal == States(da) \ da.final
        dead == Cardinality(nonfinal) + 1
        old2new(q) == IF q \in da.final THEN 0 ELSE Cardinality({p \in nonfinal : p <= q})
        old(q) == CHOOSE p \in nonfinal : old2new(p) = q
    IN  IF da.init \in da.final
        THEN NewDfa(2, da.alphabet_size, 0, {0}, [l \in Letters(da) |-> [q \in 0..1 |-> 1]], TRUE)
        ELSE NewDfa(dead + 1, da.alphabet_size, old2new(da.init), {0},
                    [l \in Letters(da) |-> [q \in 0..dead |->
                        IF q \in {0, dead} THEN dead ELSE old2new(da.delta[l][old(q)])]],
                    FALSE)

\* Words of L that are no proper prefix of a word in L.
maxL(da) ==
    LET dead == deadsearch(da, FALSE)
    IN  IF dead = {} THEN simpledfa(FALSE, da.alphabet_size)
        ELSE [da EXCEPT !.minimal = FALSE,
                        !.final = {q \in @ : \A l \in Letters(da) : da.delta[l][q] \in dead}]

pref(da) ==
    LET dead == deadsearch(da, FALSE)
    IN  IF dead = {} THEN simpledfa(TRUE, da.alphabet_size)
        ELSE [da EXCEPT !.minimal = FALSE, !.final = States(da) \ dead]

suff(da) ==
    NewNfa(da.highest_state + 1, da.alphabet_size, FALSE, States(da), da.final,
           {<<l, q, da.delta[l][q]>> : l \in Letters(da), q \in States(da)})

-----------------------------------------------------------------------------
(* dfa2nfa.c, enfa2nfa.c *)

dfa2nfa(da) ==
    NewNfa(da.highest_state + 1, da.alphabet_size, FALSE, {da.init}, da.final,
           {<<l, q, da.delta[l][q]>> : l \in Letters(da), q \in States(da)})

RECURSIVE EpsReached(_, _)
EpsReached(na, S) ==
    LET more == S \cup {m[3] : m \in {e \in na.delta : e[1] = 0 /\ e[2] \in S}}
    IN  IF more = S THEN S ELSE EpsReached(na, more)

\* closure[q]: what is reached from q by empty moves, none included.
epsclosure(na) == [q \in States(na) |-> EpsReached(na, {q})]

\* The loops over state and goal put new moves into the matrix that they read.
CloseMoves(moves, closure, n, l) ==
    FoldLeftDomain(LAMBDA d, i :
        LET state == (i - 1) \div n
            goal == (i - 1) % n
        IN  IF \E cut \in 0..(n - 1) : \/ cut \in closure[state] /\ <<l, cut, goal>> \in d
                                       \/ goal \in closure[cut] /\ <<l, state, cut>> \in d
            THEN d \cup {<<l, state, goal>>} ELSE d,
        moves, [i \in 1..(n * n) |-> i])

\* "transformation from a given epsilon-nfa to a nfa without epsilon-moves"
enfa2nfa(na) ==
    LET closure == epsclosure(na)
        n == na.highest_state + 1
        empty == {q \in na.init : closure[q] \cap na.final # {}}
    IN  NewNfa(n, na.alphabet_size, FALSE, na.init,
               IF na.is_eps THEN na.final \cup empty ELSE na.final,
               IF na.is_eps
               THEN FoldLeftDomain(LAMBDA d, l : CloseMoves(d, closure, n, l),
                                   LetterMoves(na), [l \in Letters(na) |-> l])
               ELSE LetterMoves(na))

-----------------------------------------------------------------------------
(* nfa2dfa.c: sets of states are numbered in the order in which they are   *)
(* found and looked at in the order of a stack.                            *)

Successors(na, S, l) == {m[3] : m \in {d \in na.delta : d[1] = l /\ d[2] \in S}}

\* search(): a set that is not known gets the next number and goes on the stack.
Search(t, set, from, l) ==
    LET known == \E i \in DOMAIN t.sets : t.sets[i] = set
        number == IF known THEN (CHOOSE i \in DOMAIN t.sets : t.sets[i] = set) - 1
                  ELSE Len(t.sets)
    IN  [sets |-> IF known THEN t.sets ELSE Append(t.sets, set),
         stack |-> IF known THEN t.stack ELSE Append(t.stack, number),
         delta |-> [t.delta EXCEPT ![l] = @ @@ (from :> number)]]

RECURSIVE compnewstates(_, _)
compnewstates(na, t) ==
    IF t.stack = <<>> THEN t
    ELSE LET actq == Last(t.stack)
         IN  compnewstates(na,
               FoldLeftDomain(LAMBDA u, l : Search(u, Successors(na, t.sets[actq + 1], l), actq, l),
                              [t EXCEPT !.stack = Front(@)], [l \in Letters(na) |-> l]))

cpinfo(na, t) ==
    NewDfa(Len(t.sets), na.alphabet_size, 0,
           {i - 1 : i \in {j \in DOMAIN t.sets : t.sets[j] \cap na.final # {}}}, t.delta, FALSE)

nfa2dfa(na) ==
    IF na.init = {} THEN [simpledfa(FALSE, na.alphabet_size) EXCEPT !.minimal = FALSE]
    ELSE cpinfo(na, compnewstates(na, [sets |-> <<na.init>>, stack |-> <<0>>,
                                       delta |-> [l \in Letters(na) |-> <<>>]]))

-----------------------------------------------------------------------------
(* dfamdfa.c: Hopcroft's algorithm.  A partition is a sequence of blocks,  *)
(* block number b at index b + 1.  (In which order the blocks of a round   *)
(* are split only decides their numbers.)                                  *)

RECURSIVE Reached(_, _, _)
\* The states in the order of a breadth first search.
Reached(da, queue, next) ==
    IF next > Len(queue) THEN queue
    ELSE Reached(da,
                 FoldLeftDomain(LAMBDA s, l : LET q == da.delta[l][queue[next]]
                                              IN  IF q \in Range(s) THEN s ELSE Append(s, q),
                                queue, [l \in Letters(da) |-> l]),
                 next + 1)

\* States that are not reachable are deleted; the others are renumbered if there are any.
delstates(da) ==
    LET stack == Reached(da, <<da.init>>, 1)
        map(q) == (CHOOSE i \in DOMAIN stack : stack[i] = q) - 1
    IN  IF Len(stack) = da.highest_state + 1 THEN da
        ELSE NewDfa(Len(stack), da.alphabet_size, map(da.init),
                    {map(q) : q \in da.final \cap Range(stack)},
                    [l \in Letters(da) |-> [q \in 0..(Len(stack) - 1) |->
                                              map(da.delta[l][stack[q + 1]])]],
                    FALSE)

\* The blocks of final and of other states; every letter waits for both.
initstatic(da) ==
    [blocks |-> <<da.final, States(da) \ da.final>>,
     waiting |-> [i \in 1..(2 * da.alphabet_size) |-> <<(i - 1) % 2, (i + 1) \div 2>>]]

computeinverse(da, block, l) == {q \in States(da) : da.delta[l][q] \in block}

\* split() and what follows it: of a block that does not wait, the smaller half waits.
split(p, bl, inverse, letters) ==
    LET new == Len(p.blocks)
        inside == p.blocks[bl + 1] \cap inverse
        outside == p.blocks[bl + 1] \ inverse
        smaller(l) == IF <<bl, l>> \in Range(p.waiting)
                         \/ Cardinality(outside) >= Cardinality(inside)
                      THEN new ELSE bl
    IN  IF inside = {} \/ outside = {} THEN p
        ELSE [blocks |-> Append([p.blocks EXCEPT ![bl + 1] = outside], inside),
              waiting |-> p.waiting \o [l \in letters |-> <<smaller(l), l>>]]

RECURSIVE Refined(_, _)
Refined(da, p) ==
    IF p.waiting = <<>> THEN p.blocks
    ELSE LET bno == Head(p.waiting)[1]
             inverse == computeinverse(da, p.blocks[bno + 1], Head(p.waiting)[2])
         IN  Refined(da, FoldLeftDomain(LAMBDA r, i : split(r, i - 1, inverse, Letters(da)),
                                        [p EXCEPT !.waiting = Tail(@)], p.blocks))

makenewautomaton(da, blocks) ==
    LET inblock(q) == (CHOOSE i \in DOMAIN blocks : q \in blocks[i]) - 1
        representative(b) == CHOOSE q \in blocks[b + 1] : TRUE
    IN  IF Len(blocks) = da.highest_state + 1 THEN [da EXCEPT !.minimal = TRUE]
        ELSE NewDfa(Len(blocks), da.alphabet_size, inblock(da.init),
                    {b \in 0..(Len(blocks) - 1) : representative(b) \in da.final},
                    [l \in Letters(da) |-> [b \in 0..(Len(blocks) - 1) |->
                                              inblock(da.delta[l][representative(b)])]],
                    TRUE)

mindfa(da) ==
    IF da.highest_state = 0 THEN [da EXCEPT !.minimal = TRUE]
    ELSE IF da.final \in {{}, States(da)}
    THEN simpledfa(da.final # {}, da.alphabet_size)
    ELSE makenewautomaton(da, Refined(da, initstatic(da)))

\* Mutant: states that are not reachable stay.
dfamdfa_unreachable(da) == mindfa(da)

dfamdfa(da) == mindfa(delstates(da))

-----------------------------------------------------------------------------
(* testBinary.c *)

\* Whether L(da1) is contained in L(da2), or is disjoint to it.  The final states of a
\* pair are looked at when it is reached by a letter.  After the last pair the loop of the code
\* makes one more round, with the letters of that pair again and mark[max], one past the
\* array, as its next pair: buffer memory is zeroed when it is handed out, so the loop ends there.
inclusion(da1, da2, included) ==
    \A p \in PairsFrom(da1, da2, {<<da1.init, da2.init>>}, {}) : \A l \in Letters(da1) :
        ~ (/\ da1.delta[l][p[1]] \in da1.final
           /\ (da2.delta[l][p[2]] \in da2.final) # included)

RECURSIVE ForcedBijection(_, _, _, _)
\* The bijection from the states of da1 to those of da2 that their moves force.
ForcedBijection(da1, da2, new, found) ==
    IF new = {} THEN found
    ELSE LET all == found \cup new
             next == {<<da1.delta[l][p[1]], da2.delta[l][p[2]]>> : l \in Letters(da1), p \in new}
         IN  IF \E p, r \in all \cup next : (p[1] = r[1]) # (p[2] = r[2]) THEN {}
             ELSE ForcedBijection(da1, da2, next \ all, all)

\* For minimal DFAs.
equiv(da1, da2) ==
    /\ da1.highest_state = da2.highest_state
    /\ LET bijection == ForcedBijection(da1, da2, {<<da1.init, da2.init>>}, {})
       IN  /\ bijection # {}
           /\ \A p \in bijection : (p[1] \in da1.final) = (p[2] \in da2.final)

\* For a minimal DFA: empty, full or neither.
empty_full_lan(da) ==
    IF da.highest_state > 0 THEN "unknown"
    ELSE IF da.init \in da.final THEN "full" ELSE "empty"
=============================================================================
