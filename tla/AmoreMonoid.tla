---------------------------- MODULE AmoreMonoid ----------------------------
(***************************************************************************)
(* The transition monoid of a DFA (dfa2mon.c, ldo/mon.c) and the tests for *)
(* classes of languages on it (test/testUnary.c).                          *)
(*                                                                         *)
(* Elements are numbered from 0, the identity; element i has its           *)
(* transformation at no2trans[i + 1].  word[i + 1] is the word of          *)
(* generators of element i, which the code finds by following lastletter   *)
(* and gensucc[.][0].                                                      *)
(***************************************************************************)
EXTENDS AmoreAutomata

NumberOf(trans, t) ==
    IF t \in Range(trans) THEN (CHOOSE i \in DOMAIN trans : trans[i] = t) - 1 ELSE Len(trans)

\* searchtrans() and what is done with its result for the successor of e by generator g.
Multiplied(da, m, e, g) ==
    LET t == [q \in States(da) |-> da.delta[m.generator[g]][m.no2trans[e + 1][q]]]
        number == NumberOf(m.no2trans, t)
    IN  IF number < Len(m.no2trans)
        THEN [m EXCEPT !.gensucc[e + 1][g] = number, !.mequals = @ \/ number = 0]
        ELSE [m EXCEPT !.gensucc = Append([@ EXCEPT ![e + 1][g] = number], [i \in 1..m.gno |-> 0]),
                       !.no2trans = Append(@, t),
                       !.word = Append(@, Append(m.word[e + 1], g))]

RECURSIVE MonoidFrom(_, _, _)
MonoidFrom(da, m, e) ==
    IF e = Len(m.no2trans) THEN m
    ELSE MonoidFrom(da, FoldLeftDomain(LAMBDA n, g : Multiplied(da, n, e, g), m,
                                       [g \in 1..m.gno |-> g]), e + 1)

\* The generators: the first letter of each transformation but the identity.
Generators(da) ==
    FoldLeftDomain(LAMBDA s, l : IF \/ da.delta[l] = [q \in States(da) |-> q]
                                    \/ \E i \in DOMAIN s : da.delta[s[i]] = da.delta[l]
                                 THEN s ELSE Append(s, l), <<>>, [l \in Letters(da) |-> l])

dfa2mon(da) ==
    LET generator == Generators(da)
        gno == Len(generator)
        identity == [q \in States(da) |-> q]
    IN  MonoidFrom(da, [generator |-> generator, gno |-> gno,
                        mequals |-> \E l \in Letters(da) : da.delta[l] = identity,
                        no2trans |-> <<identity>> \o [g \in 1..gno |-> da.delta[generator[g]]],
                        word |-> <<<<>>>> \o [g \in 1..gno |-> <<g>>],
                        gensucc |-> <<[g \in 1..gno |-> g]>>
                                      \o [i \in 1..gno |-> [g \in 1..gno |-> 0]]], 1)

Elements(mon) == 0..(Len(mon.no2trans) - 1)
\* Mutant: the identity always counts.
FromBegin_identity(mon) == Elements(mon)

\* The elements of the syntactic semigroup.
FromBegin(mon) == IF mon.mequals THEN Elements(mon) ELSE Elements(mon) \ {0}

mult(mon, a, b) == FoldLeft(LAMBDA e, g : mon.gensucc[e + 1][g], a, mon.word[b + 1])
idempotent(e, mon) == mult(mon, e, e) = e
idemcompute(mon) == {e \in FromBegin(mon) : idempotent(e, mon)}

IsZero(mon, e) == \A g \in 1..mon.gno : mon.gensucc[e + 1][g] = e /\ mult(mon, g, e) = e
\* The first zero, or the number of elements.
zero(mon) == IF \E e \in Elements(mon) : IsZero(mon, e)
             THEN Min({e \in Elements(mon) : IsZero(mon, e)}) ELSE Len(mon.no2trans)

\* No element that permutes its image, unless it is idempotent.
test_groupfree(mon) ==
    \A e \in Elements(mon) :
        LET t == mon.no2trans[e + 1]
            image == Range(t)
        IN  (\A p, q \in image : p # q => t[p] # t[q]) => idempotent(e, mon)

\* sftest() of a monoid whose D-classes are not computed yet; test_htrivial() of AmoreClasses
\* is what it asks afterwards.
sftest(mon) == test_groupfree(mon)

-----------------------------------------------------------------------------
(* testdd1(): the equation of dot depth one, for all elements.             *)

RECURSIVE FactorPower(_, _, _, _)
\* result * help^power, by squaring.
FactorPower(mon, result, help, power) ==
    IF power = 0 THEN result
    ELSE FactorPower(mon, IF power % 2 = 1 THEN mult(mon, result, help) ELSE result,
                     mult(mon, help, help), power \div 2)

testdd1(mon) ==
    LET S == FromBegin(mon)
        table == [a \in Elements(mon) |-> [b \in Elements(mon) |-> mult(mon, a, b)]]
        power == [a \in Elements(mon) |-> FactorPower(mon, 0, a, Cardinality(S))]
        row(word) == FoldLeft(LAMBDA x, y : table[x][y], 0, word)
        left(e, f, i) == {power[row(<<e, i, f, j>>)] : j \in S}
        right(e, f, l) == {power[row(<<k, f, l, e>>)] : k \in S}
    IN  \/ Len(mon.no2trans) = 1
        \/ \A e, f \in idemcompute(mon) : \A i, l \in S :
               \A x \in left(e, f, i), y \in right(e, f, l) :
                   row(<<x, e, i, f, l, e, y>>) = row(<<x, e, y>>)

-----------------------------------------------------------------------------
(* proptest(): membership in subclasses of the locally testable languages. *)

testleftzero(mon, e) == \A g \in 1..mon.gno : mon.gensucc[e + 1][g] = e
testrightzero(mon, e) == \A g \in 1..mon.gno : mult(mon, g, e) = e

\* eSetest(): 0 if eSe = e, 1 if eSe is idempotent and commutative, else 2.
eSetest(mon, e) ==
    LET eS == {mult(mon, e, x) : x \in Elements(mon)}
        eSe == {mult(mon, x, e) : x \in eS}
    IN  IF Cardinality(eSe) = 1 THEN 0
        ELSE IF eSe \subseteq idemcompute(mon) /\ \A x, y \in eSe : mult(mon, x, y) = mult(mon, y, x)
        THEN 1 ELSE 2

proptest(mon) ==
    LET idem == idemcompute(mon)
        all(b) == [nilpotent |-> b, definite |-> b, revdefinite |-> b, gendefinite |-> b, localtest |-> b]
        semilattice == /\ \A g \in 1..mon.gno : mon.gensucc[g + 1][g] = g
                       /\ \A g, h \in 1..mon.gno : mon.gensucc[g + 1][h] = mon.gensucc[h + 1][g]
        nilpotent == Cardinality(idem) = 1
                     /\ \A e \in idem : testrightzero(mon, e) /\ testleftzero(mon, e)
        definite == nilpotent \/ \A e \in idem : testrightzero(mon, e)
        revdefinite == nilpotent \/ \A e \in idem : testleftzero(mon, e)
        tests == {eSetest(mon, e) : e \in {d \in idem : ~testrightzero(mon, d) /\ ~testleftzero(mon, d)}}
        easy == definite \/ revdefinite
    IN  IF Len(mon.no2trans) = 1 THEN all(TRUE)
        ELSE IF mon.mequals THEN [all(FALSE) EXCEPT !.localtest = semilattice]
        ELSE [nilpotent |-> nilpotent, definite |-> definite, revdefinite |-> revdefinite,
              gendefinite |-> easy \/ tests \subseteq {0}, localtest |-> easy \/ 2 \notin tests]

-----------------------------------------------------------------------------
(* folutest(): the automaton over pairs of a letter and a flag that says   *)
(* whether the letter leads to a final state.                              *)

FoluAutomaton(da) ==
    LET dead == deadsearch(da, FALSE)
        n == da.highest_state + 1
        deadstate == IF dead = {} THEN n ELSE CHOOSE q \in dead : TRUE
        k == da.alphabet_size
        goal(l, q) == da.delta[IF l > k THEN l - k ELSE l][q]
        states == 0..(IF dead = {} THEN n ELSE n - 1)
    IN  NewDfa(Cardinality(states), 2 * k, da.init, da.final,
               [l \in 1..(2 * k) |-> [q \in states |->
                   IF q = n THEN q
                   ELSE IF (goal(l, q) \in da.final) = (l > k) THEN goal(l, q) ELSE deadstate]],
               FALSE)
folutest(da) == sftest(dfa2mon(FoluAutomaton(da)))
=============================================================================
