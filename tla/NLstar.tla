------------------------------- MODULE NLstar -------------------------------
(***************************************************************************)
(* NLstar_table: the learning algorithm for residual finite-state automata *)
(* (algorithm_NLstar.h).  Its states are the prime rows of the upper       *)
(* table, those that are not joins of other rows they cover; the           *)
(* conjecture is a nondeterministic automaton.  Acceptances are "yes" or   *)
(* "no" (the code: only bool).                                             *)
(*                                                                         *)
(* There is no undo: sync_to_knowledgebase() always refuses.               *)
(***************************************************************************)
EXTENDS AngluinTable

covers(r, s) == \A c \in DOMAIN r.acceptance : s.acceptance[c] = "yes" => r.acceptance[c] = "yes"

\* The join of rows, as an acceptance with n columns.
Joined(n, rows) == [c \in 1..n |-> IF \E r \in rows : r.acceptance[c] = "yes" THEN "yes" ELSE "no"]

\* Whether the row is a join of those of the rows that it covers.
Composed(row, rows) ==
    LET below == {r \in rows : covers(row, r)}
    IN  below # {} /\ Joined(Len(row.acceptance), below) = row.acceptance

AllRows(t) == Range(t.upper_table) \cup Range(t.lower_table)
row_is_prime(t, row) == ~Composed(row, {r \in AllRows(t) : r.acceptance # row.acceptance})
UpperPrimes(t) == OnlyIn(t.upper_table, {r \in Range(t.upper_table) : row_is_prime(t, r)})

nl_add_word_to_upper_table(t, w) ==
    LET below == SelectInSeq(t.lower_table, LAMBDA r : r.index = w)
        upper == Append(t.upper_table, IF below > 0 THEN t.lower_table[below] ELSE Row(w, 0, 0))
        all == Successors(w, Reverse(Letters(0, t.alphabet_size)))
        new == OnlyIn(all, Range(all) \ Words(upper))
    IN  IF w \in Words(t.upper_table) THEN t
        ELSE [t EXCEPT !.upper_table = upper,
                       !.lower_table = (IF below > 0 THEN RemoveAt(@, below) ELSE @)
                                       \o [i \in DOMAIN new |-> Row(new[i], 0, 0)]]

nl_initialize_table(t) ==
    [nl_add_word_to_upper_table(t, <<>>) EXCEPT !.column_names = <<<<>>>>, !.initialized = TRUE]

nl_add_column(t, w) == IF w \in Range(t.column_names) THEN t ELSE [t EXCEPT !.column_names = Append(@, w)]

\* The loop over the upper table sets the new size after its first row, which leaves nothing
\* to add for the others.
nl_increase_alphabet_size(t, asize) ==
    LET new == Successors(t.upper_table[1].index, Letters(t.alphabet_size, asize))
    IN  IF asize <= t.alphabet_size \/ t.upper_table = <<>> THEN t
        ELSE [t EXCEPT !.alphabet_size = asize,
                       !.lower_table = @ \o [i \in DOMAIN new |-> Row(new[i], 0, 0)]]

is_closed(t) == \A r \in Range(t.lower_table) : Composed(r, Range(UpperPrimes(t)))

\* The first prime of the lower table that is not an upper prime moves up.
nl_close(t) ==
    LET i == SelectInSeq(t.lower_table, LAMBDA r : /\ row_is_prime(t, r)
                                                   /\ r.acceptance \notin Patterns(UpperPrimes(t)))
    IN  nl_add_word_to_upper_table(t, t.lower_table[i].index)

(***************************************************************************)
(* The reasons why the table is inconsistent, as the loops come across     *)
(* them: upper rows i < j, which of the two covers the other (0: the       *)
(* first), a letter and a column in which its successor does not.          *)
(***************************************************************************)
NLConflicts(t) ==
    LET upper == DOMAIN t.upper_table
        row(x, k) == t.upper_table[IF x[3] = k THEN x[1] ELSE x[2]]
        after(r, a) == search_tables(t, Append(r.index, a)).acceptance
        pairs == {x \in upper \X upper \X {0, 1} : x[1] < x[2] /\ covers(row(x, 0), row(x, 1))}
    IN  {x \in {<<p[1], p[2], p[3], a, c>> : p \in pairs, a \in 0..(t.alphabet_size - 1),
                                             c \in DOMAIN t.column_names} :
            after(row(x, 0), x[4])[x[5]] = "no" /\ after(row(x, 1), x[4])[x[5]] = "yes"}

nl_make_consistent(t) ==
    LET x == CHOOSE y \in NLConflicts(t) : \A z \in NLConflicts(t) \ {y} : Before(y, z)
    IN  nl_add_column(t, <<x[4]>> \o t.column_names[x[5]])

nl_conjecture_ready(t) == t.initialized /\ columns_filled(t) /\ is_closed(t) /\ NLConflicts(t) = {}

nl_complete(t, k) ==
    LET next(f) ==
            CASE ~f.ready -> f
              [] f.ready /\ ~is_closed(f.alg) -> Again(nl_close(f.alg), f.kb)
              [] f.ready /\ is_closed(f.alg) ->
                    IF NLConflicts(f.alg) # {} THEN Again(nl_make_consistent(f.alg), f.kb) ELSE f
    IN  next(FillTables(IF t.initialized THEN t ELSE nl_initialize_table(t), k))

nl_derive_conjecture(t) ==
    LET primes == UpperPrimes(t)
        ids == 0..(Len(primes) - 1)
        below(row) == {i \in ids : covers(row, primes[i + 1])}
    IN  [state_count |-> Len(primes),
         input_alphabet_size |-> t.alphabet_size,
         initial_states |-> below(t.upper_table[1]),
         output_mapping |-> [q \in ids |-> Head(primes[q + 1].acceptance)],
         transitions |-> [q \in ids |-> [a \in 0..(t.alphabet_size - 1) |->
                             below(search_tables(t, Append(primes[q + 1].index, a)))]]]

\* The word and its suffixes become columns, up to the first that is one.
nl_add_counterexample(t, w) ==
    LET suffixes == [i \in 1..Len(w) |-> SubSeq(w, i, Len(w))]
        old == {i \in DOMAIN suffixes : suffixes[i] \in Range(t.column_names)}
        new == SubSeq(suffixes, 1, Min({Len(w) + 1} \cup old) - 1)
    IN  IF w \in Range(t.column_names) THEN t
        ELSE nl_increase_alphabet_size(FoldLeft(nl_add_column, t, new), AlphabetOf(t, w))

\* serialize() and deserialize(), which also hold for a table that is not initialized.
nl_reload(t) ==
    [EmptyTable("nl", t.alphabet_size) EXCEPT !.column_names = t.column_names, !.initialized = t.initialized,
                                              !.upper_table = t.upper_table, !.lower_table = t.lower_table]

=============================================================================
