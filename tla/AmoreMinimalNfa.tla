--------------------------- MODULE AmoreMinimalNfa ---------------------------
(***************************************************************************)
(* nfa2mnfa.c, nfa2mnfa_sol.c and nfa2mnfa_help.c: the search for an NFA   *)
(* with as few states as possible.                                         *)
(*                                                                         *)
(* The "RAM" is a matrix of the states of the minimal DFA b (rows) and of  *)
(* the minimal DFA c of the reversed language (columns).  A grid is a set  *)
(* of rows that some column contains (or of columns that some row          *)
(* contains).  Grids become the states of an NFA if they cover the initial *)
(* states and if what a letter leads to is covered again: boolean sums,    *)
(* for which a small set of grids is searched by backtracking.             *)
(***************************************************************************)
EXTENDS AmoreAutomata

Ascending(S) == InOrder(S, LAMBDA p, q : p < q)

\* States from which a final state is reached, among those reached from an initial one.
Productive(na) ==
    LET RECURSIVE Closed(_, _)
        Closed(S, moves) == LET more == S \cup {m[3] : m \in {t \in moves : t[2] \in S}}
                            IN  IF more = S THEN S ELSE Closed(more, moves)
        reach1 == Closed(na.init, LetterMoves(na))
        back == {<<m[1], m[3], m[2]>> : m \in {t \in LetterMoves(na) : t[2] \in reach1}}
    IN  Closed(na.final \cap reach1, back)

\* States keep their order when others go.
Renumbered(keep, q) == Cardinality({p \in keep : p < q})
New(keep, S) == {Renumbered(keep, q) : q \in S \cap keep}

\* Of two states the first is looked at twice: only the moves of a state to itself are copied,
\* and to all states.
WithoutOthers(na, keep) ==
    IF keep = States(na) THEN na
    ELSE IF keep = {} THEN NewNfa(1, na.alphabet_size, FALSE, {0}, {}, {})
    ELSE NewNfa(Cardinality(keep), na.alphabet_size, FALSE, New(keep, na.init), New(keep, na.final),
                {<<m[1], Renumbered(keep, m[2]), q>> :
                    m \in {t \in LetterMoves(na) : t[2] = t[3] /\ t[2] \in keep},
                    q \in 0..(Cardinality(keep) - 1)})

\* "Delete superfluous states."
delsta(na) == WithoutOthers(na, Productive(na))

invers_d(da) == revnfa(dfa2nfa(da))

\* modnfa2dfa(): the DFA, and the set of states that each of its states stands for.
modnfa2dfa(na) ==
    LET t == compnewstates(na, [sets |-> <<na.init>>, stack |-> <<0>>,
                                delta |-> [l \in Letters(na) |-> <<>>]])
    IN  [da |-> nfa2dfa(na),
         tra |-> IF na.init = {} THEN <<{}>> ELSE t.sets]

-----------------------------------------------------------------------------
(* Rows and columns: lines[i] is the set of ones in row (or column) i.     *)

\* The lines that line i covers: with ones, but fewer, and only where i has some.
covered(lines) ==
    [i \in DOMAIN lines |-> {j \in DOMAIN lines : /\ lines[j] # {} /\ lines[j] # lines[i]
                                                  /\ lines[j] \subseteq lines[i]}]

\* Lines that are the union of others, and the line without ones.
compact(lines) ==
    {i \in DOMAIN lines : lines[i] = UNION {lines[j] : j \in covered(lines)[i]}}

\* The automaton of the states to keep; the others are replaced by those that they cover.
Irreducible(da, keep, cover) ==
    LET goals(q) == IF q \in keep THEN {q} ELSE cover[q]
    IN  IF keep = States(da) THEN dfa2nfa(da)
        ELSE NewNfa(Cardinality(keep), da.alphabet_size, FALSE,
                    New(keep, {da.init} \cup cover[da.init]), New(keep, da.final),
                    UNION {{<<l, Renumbered(keep, q), p>> : p \in New(keep, goals(da.delta[l][q]))} :
                              l \in Letters(da), q \in keep})

\* "computes the irreducible automaton to da by eliminating the compact states of da"
compute_irreducible_automaton(da, lines) ==
    Irreducible(da, States(da) \ compact(lines), covered(lines))

\* The lines with a one that is alone in its line and across: a grid for each is essential.
calculate_necessary_grids(lines, across) ==
    {i \in DOMAIN lines : \E j \in DOMAIN across : lines[i] = {j} /\ across[j] = {i}}

\* The lines for the other grids: neither the one without ones nor those of essential grids.
\* A line is skipped if it is essential, then once more if it is the one without ones; what
\* comes next is not looked at again.
new2old(lines, ones) ==
    LET sink == {i \in DOMAIN lines : lines[i] = {}}
        RECURSIVE NotOne(_), Chosen(_, _)
        NotOne(j) == IF j \in ones THEN NotOne(j + 1) ELSE j
        Chosen(j, n) == LET found == IF NotOne(j) \in sink THEN NotOne(j) + 1 ELSE NotOne(j)
                        IN  IF n = 0 THEN <<>> ELSE <<found>> \o Chosen(found + 1, n - 1)
    IN  Chosen(0, Cardinality(DOMAIN lines \ (ones \cup sink)))

\* All sets of these lines that lie in a line across, counted like binary numbers; if there
\* is a line across with as many ones as there are lines, all sets are taken.
calculate_grids(chosen, across) ==
    LET easy == \E j \in DOMAIN across : Cardinality(across[j]) = Len(chosen)
        patterns == FoldLeft(LAMBDA ps, i : ps \o [k \in DOMAIN ps |-> ps[k] \cup {i}], <<{}>>, chosen)
    IN  SelectSeq(patterns, LAMBDA p : p # {} /\ (easy \/ \E j \in DOMAIN across : p \subseteq across[j]))

\* The table for the automaton f: which grids are initial and final, where letters lead.
fundamental_table(grids, f) ==
    [i_gr |-> {i \in DOMAIN grids : grids[i] \subseteq f.final},
     f_gr |-> {i \in DOMAIN grids : grids[i] \cap f.init # {}},
     delta |-> [l \in Letters(f) |-> [i \in DOMAIN grids |->
                  {m[2] : m \in {t \in f.delta : t[1] = l /\ t[3] \in grids[i]}}]]]

-----------------------------------------------------------------------------
(* Boolean sums: [k, vars] says that, if grid k is taken (always for None),*)
(* one of vars is.  Essential grids are always there and no variables.     *)

None == 0

\* A sum is left out if one that is at least as strong is there; weaker ones are deleted.
correct_list(terms, new) ==
    LET stronger(t) == t.k \in {None, new.k} /\ t.vars \subseteq new.vars
        weaker(t) == t.k = new.k /\ new.vars \subseteq t.vars
    IN  IF \E i \in DOMAIN terms : stronger(terms[i]) THEN terms
        ELSE Append(SelectSeq(terms, LAMBDA t : ~weaker(t)), new)

\* For each initial state that no essential initial grid covers.
calculate_initial_terms(grids, essential, table, f) ==
    LET covering(q) == {g \in table.i_gr : q \in grids[g]}
        open == SelectSeq([q \in 1..(f.highest_state + 1) |-> q - 1],
                          LAMBDA q : q \in f.final /\ covering(q) \cap essential = {})
    IN  FoldLeft(LAMBDA s, q : correct_list(s, [k |-> None, vars |-> covering(q)]), <<>>, open)

grid_is_covered(grids, table, i, l) == {g \in DOMAIN grids : grids[g] \subseteq table.delta[l][i]}

\* The sums of one grid and one letter; a sum that contains k itself says nothing.
define_terms(grids, essential, table, terms, i, l) ==
    LET helpII == grid_is_covered(grids, table, i, l)
        covering(q) == {g \in helpII : q \in grids[g]}
        k == IF i \in essential THEN None ELSE i
        open == {q \in table.delta[l][i] : covering(q) \cap essential = {}}
    IN  IF helpII \subseteq essential THEN terms
        ELSE FoldLeft(LAMBDA s, q : IF k \in covering(q) THEN s
                                    ELSE correct_list(s, [k |-> k, vars |-> covering(q)]),
                      terms, Ascending(open))

\* Grids that are not essential matter only if there is a sum without a k.
calculate_other_terms(grids, essential, table, letters, initial) ==
    FoldLeftDomain(LAMBDA terms, i :
        IF terms = <<>> /\ i \notin essential THEN terms
        ELSE FoldLeft(LAMBDA s, l : define_terms(grids, essential, table, s, i, l), terms,
                      Ascending(letters)),
        initial, grids)

-----------------------------------------------------------------------------
(* calculate_minimal_set(): sums are looked at one after the other, level  *)
(* by level.  nextlevel[i] is the sum at level i, collection[i] the place  *)
(* of the variable taken from it (0: none), startlevel[v] the first level  *)
(* of the sums that v brought in (0: v is not taken), lock[v] the level    *)
(* that forbids v because it tries v later.                                *)

\* The sums in a matrix, and where those with k >= v start.
copy_list(terms, grids) ==
    LET from(v) == {i \in DOMAIN terms : terms[i].k # None /\ terms[i].k >= v}
    IN  [T |-> [i \in DOMAIN terms |-> Ascending(terms[i].vars)],
         start |-> [v \in 0..(Len(grids) + 1) |-> Min(from(v) \cup {Len(terms) + 1})]]

\* The state of the search; minimal is the number of grids to beat.
FirstLevel(p, minimal) ==
    LET variables == DOMAIN p.start
        levels == 0..(Len(p.T) + 1)
    IN  [lock |-> [v \in variables |-> 0], startlevel |-> [v \in variables |-> 0],
         nextlevel |-> [i \in levels |-> IF i < p.start[0] THEN i ELSE 0],
         collection |-> [i \in levels |-> 0], novar |-> 0, actlevel |-> 1,
         maxlevel |-> p.start[0], minimal |-> minimal, current_best |-> {}, failed |-> FALSE]

Sum(p, s) == p.T[s.nextlevel[s.actlevel]]
Taken(p, s, level) == p.T[s.nextlevel[level]][s.collection[level]]

insertvar(p, s, var) ==
    LET added == p.start[var + 1] - p.start[var]
    IN  [s EXCEPT !.novar = @ + 1, !.startlevel[var] = s.maxlevel, !.maxlevel = @ + added,
                  !.nextlevel = [i \in DOMAIN @ |-> IF i \in s.maxlevel..(s.maxlevel + added - 1)
                                                    THEN p.start[var] + (i - s.maxlevel) ELSE @[i]]]
deletevar(s, var) ==
    [s EXCEPT !.novar = @ - 1, !.maxlevel = s.startlevel[var], !.startlevel[var] = 0]

\* The variables at these places of the sum are free again if this level locked them.
Unlock(p, s, places) ==
    LET free == {v \in {Sum(p, s)[i] : i \in places} : s.lock[v] = s.actlevel}
    IN  [s EXCEPT !.lock = [v \in DOMAIN @ |-> IF v \in free THEN 0 ELSE @[v]]]

Behind(p, s) == (s.collection[s.actlevel] + 1)..Len(Sum(p, s))

clear_level(p, s) ==
    IF s.collection[s.actlevel] = 0 THEN s
    ELSE [deletevar(Unlock(p, s, Behind(p, s)), Taken(p, s, s.actlevel))
          EXCEPT !.collection[s.actlevel] = 0]

cut_is_empty(p, s, term) == \A i \in DOMAIN p.T[term] : s.startlevel[p.T[term][i]] = 0

RECURSIVE BackTo(_, _, _)
BackTo(p, s, level) ==
    IF s.actlevel <= level THEN s
    ELSE BackTo(p, [clear_level(p, s) EXCEPT !.actlevel = @ - 1], level)

\* A variable that this level has locked takes the place of the one before it.
Unlocked(p, s, newvariable) ==
    LET place == CHOOSE i \in DOMAIN Sum(p, s) : Sum(p, s)[i] = newvariable
    IN  [insertvar(p, deletevar(Unlock(p, s, (s.collection[s.actlevel] + 1)..(place - 1)),
                                Taken(p, s, s.actlevel)), newvariable)
         EXCEPT !.lock[newvariable] = 0, !.collection[s.actlevel] = place, !.actlevel = @ + 1]

\* All variables of the sum are locked: back to the last level that locked one and on with
\* that one, or to a level that brought in the sum; with neither the search fails.
jump_back(p, s) ==
    LET locks == [i \in DOMAIN Sum(p, s) |-> s.lock[Sum(p, s)[i]]]
        locker == Max(Range(locks) \cup {0})
        origins == {h \in (locker + 1)..(s.actlevel - 1) :
                      /\ s.nextlevel[s.actlevel] >= p.start[0]
                      /\ s.collection[h] # 0
                      /\ p.start[Taken(p, s, h)] <= s.actlevel
                      /\ s.actlevel < p.start[Taken(p, s, h) + 1]}
    IN  IF origins # {} THEN BackTo(p, s, Max(origins))
        ELSE IF locker = 0 THEN [s EXCEPT !.failed = TRUE]
        ELSE Unlocked(p, BackTo(p, s, locker), Sum(p, s)[Min({i \in DOMAIN locks : locks[i] = locker})])

RECURSIVE Rewind(_, _)
\* Back over levels without a further variable to one that has some.
Rewind(p, s) ==
    IF s.actlevel = 0 \/ s.collection[s.actlevel] \in 1..(Len(Sum(p, s)) - 1) THEN s
    ELSE Rewind(p, [clear_level(p, s) EXCEPT !.actlevel = @ - 1])

go_back(p, s) == Rewind(p, [clear_level(p, s) EXCEPT !.actlevel = @ - 1])

\* The first variable of a sum that is not locked; those behind it are locked.
take_variable(p, s) ==
    LET sum == Sum(p, s)
        free == {i \in DOMAIN sum : s.lock[sum[i]] = 0}
        place == Min(free)
        later == {sum[i] : i \in {j \in free : j > place}}
    IN  IF ~cut_is_empty(p, s, s.nextlevel[s.actlevel]) THEN [s EXCEPT !.actlevel = @ + 1]
        ELSE IF free = {} THEN jump_back(p, s)
        ELSE [insertvar(p, s, sum[place]) EXCEPT
                !.collection[s.actlevel] = place, !.actlevel = @ + 1,
                !.lock = [v \in DOMAIN @ |-> IF v \in later THEN s.actlevel ELSE @[v]]]

\* Another variable of the sum in place of the one taken.
exchange_variable(p, s) ==
    LET sum == Sum(p, s)
        free == {i \in Behind(p, s) : s.lock[sum[i]] \in {0, s.actlevel}}
        place == Min(free)
    IN  IF free = {} THEN go_back(p, s)
        ELSE [insertvar(p, deletevar(s, Taken(p, s, s.actlevel)), sum[place]) EXCEPT
                !.lock[sum[place]] = 0, !.collection[s.actlevel] = place, !.actlevel = @ + 1]

find_next_partial_solution(p, s) ==
    IF s.collection[s.actlevel] = 0 THEN take_variable(p, s) ELSE exchange_variable(p, s)

\* The partial solution is the best so far; to find a better one, two variables go back.
Saved(s) == [s EXCEPT !.minimal = s.novar,
                      !.current_best = {v \in DOMAIN s.startlevel : s.startlevel[v] # 0}]
LastTaken(s) == [s EXCEPT !.actlevel = Max({h \in 0..s.actlevel : s.collection[h] # 0})]
Shorter(p, s) == LastTaken([clear_level(p, s) EXCEPT !.actlevel = @ - 1])

speed_up(p, s) == \A i \in s.actlevel..(s.maxlevel - 1) : ~cut_is_empty(p, s, s.nextlevel[i])

RECURSIVE calculate_minimal_set(_, _)
\* On from a partial solution.
GoOn(p, s) ==
    LET complete == s.actlevel = s.maxlevel
        full == s.minimal - 1 = s.novar
        solved == complete \/ (full /\ speed_up(p, s))
    IN  IF s.failed THEN s
        ELSE IF solved /\ s.novar = 1 THEN Saved(s)
        ELSE calculate_minimal_set(p,
               IF complete THEN Shorter(p, LastTaken(Saved(s)))
               ELSE IF solved THEN Shorter(p, [Saved(s) EXCEPT !.actlevel = @ - 1])
               ELSE IF full THEN [s EXCEPT !.actlevel = @ - 1] ELSE s)

calculate_minimal_set(p, s) ==
    IF s.actlevel = 0 THEN s ELSE GoOn(p, find_next_partial_solution(p, s))

-----------------------------------------------------------------------------
\* The NFA that has the taken grids as its states.
calculate_d(grids, taken, table, f) ==
    [NewNfa(Cardinality(taken), f.alphabet_size, FALSE, New(taken, table.i_gr), New(taken, table.f_gr),
            UNION {{<<l, Renumbered(taken, g), h>> : h \in New(taken, grid_is_covered(grids, table, g, l))} :
                      l \in Letters(f), g \in taken})
     EXCEPT !.minimal = TRUE]

\* The sets of grids that may be taken besides the essential ones, given the sums; {} if the
\* best automaton stays.  Without any sum the number to beat is what an earlier call left.
AllTaken(end, essential, goal) == IF end.minimal = goal THEN {} ELSE essential \cup end.current_best
Searched(p, essential, goal) == AllTaken(calculate_minimal_set(p, FirstLevel(p, goal)), essential, goal)
TakenGrids(terms, grids, essential, goal) ==
    IF terms = <<>> THEN {{}, essential} ELSE {Searched(copy_list(terms, grids), essential, goal)}

calc_sol(table, rows, grids, essential, best, f) ==
    {IF taken = {} THEN best
     ELSE IF rows THEN revnfa(calculate_d(grids, taken, table, f))
     ELSE calculate_d(grids, taken, table, f) :
        taken \in TakenGrids(calculate_other_terms(grids, essential, table, Letters(f),
                                  calculate_initial_terms(grids, essential, table, f)),
                             grids, essential, best.highest_state + 1 - Cardinality(essential))}

\* The search is based on some lines of the "RAM", those of the automaton da.
Lines(rows, da, lines, across) ==
    [rows |-> rows, da |-> da, lines |-> lines, across |-> across,
     ones |-> calculate_necessary_grids(lines, across)]

\* The rows if there are fewer of them than columns.
BasisOf(b, c, row, column) ==
    [c |-> c, row |-> row, column |-> column] @@
        IF b.highest_state < c.highest_state THEN Lines(TRUE, b, row, column)
                                             ELSE Lines(FALSE, c, column, row)

\* The "RAM" of b and the minimal DFA of the reversed language.
Ram(b, reversed) ==
    BasisOf(b, reversed.da,
            [i \in States(b) |-> {j \in States(reversed.da) : i \in reversed.tra[j + 1]}],
            [j \in States(reversed.da) |-> reversed.tra[j + 1]])
Basis(b) == Ram(b, modnfa2dfa(invers_d(b)))

\* Whether the grids are made of all lines that they should be made of.
LinesInOrder(on) ==
    Range(new2old(on.lines, on.ones)) = {i \in DOMAIN on.lines : on.lines[i] # {}} \ on.ones

\* The best automaton before the search: of na1, b and the reverse of c the one with the
\* fewest states, or an irreducible automaton if it has no more.
Smallest(known, b, on, mrows, mcolumns) ==
    IF known.highest_state < Min({mrows, mcolumns}) THEN known
    ELSE IF mrows < mcolumns THEN compute_irreducible_automaton(b, on.row)
    ELSE revnfa(compute_irreducible_automaton(on.c, on.column))
BestKnown(na1, b, on) ==
    Smallest(IF na1.highest_state <= Min({b.highest_state, on.c.highest_state}) THEN na1
             ELSE IF b.highest_state <= on.c.highest_state THEN dfa2nfa(b) ELSE invers_d(on.c),
             b, on, b.highest_state - Cardinality(compact(on.row)),
             on.c.highest_state - Cardinality(compact(on.column)))

\* The search for fewer grids than the best automaton has states.
FewerGrids(best, on, f, grids) ==
    calc_sol(fundamental_table(grids, f), on.rows, grids, 1..Cardinality(on.ones), best, f)
Improved(best, on) ==
    IF Cardinality(on.ones) > best.highest_state THEN {best}
    ELSE FewerGrids(best, on, [dfa2nfa(on.da) EXCEPT !.init = @ \cup covered(on.lines)[on.da.init]],
                    [i \in 1..Cardinality(on.ones) |-> {Ascending(on.ones)[i]}]
                      \o calculate_grids(new2old(on.lines, on.ones), on.across))

\* The automata that may result, given the minimal DFA b.
nfa2mnfa(na, b) ==
    IF na.highest_state < 1 THEN {na}
    ELSE UNION {IF na1.highest_state < 1 THEN {na1}
                ELSE UNION {Improved(BestKnown(na1, b, on), on) : on \in {Basis(b)}} : na1 \in {delsta(na)}}
=============================================================================
