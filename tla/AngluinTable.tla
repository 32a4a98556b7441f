---------------------------- MODULE AngluinTable ----------------------------
(***************************************************************************)
(* The observation table of Angluin's L*: template angluin_table with its  *)
(* two classes angluin_simple_table (counterexamples become rows) and      *)
(* angluin_col_table (counterexamples become columns).  A table is a       *)
(* record with the members of the class.  The methods that also ask the    *)
(* knowledgebase return the two together.                                  *)
(*                                                                         *)
(* Abstracted: no normalizer is set.                                       *)
(***************************************************************************)
EXTENDS Conjecture

Row(w, ut, lt) ==
    [index |-> w, acceptance |-> <<>>, ut_timestamp |-> ut, lt_timestamp |-> lt]

EmptyTable(type, asize) ==
    [type |-> type, alphabet_size |-> asize, initialized |-> FALSE,
     column_names |-> <<>>, column_timestamps |-> <<>>,
     upper_table |-> <<>>, lower_table |-> <<>>]

\* The elements of the sequences in ss, one sequence after the other.
Flattened(ss) == FoldLeft(\o, <<>>, ss)

Words(rows) == {rows[i].index : i \in DOMAIN rows}
Patterns(rows) == {rows[i].acceptance : i \in DOMAIN rows}

\* search_tables(): the upper table first.
InTables(t, w) == w \in Words(t.upper_table) \cup Words(t.lower_table)
search_tables(t, w) ==
    LET rows == IF w \in Words(t.upper_table) THEN t.upper_table ELSE t.lower_table
    IN  rows[SelectInSeq(rows, LAMBDA r : r.index = w)]

Successors(w, letters) == [i \in 1..Len(letters) |-> Append(w, letters[i])]
Letters(from, to) == [i \in 1..(to - from) |-> from + i - 1]

-----------------------------------------------------------------------------
(* Growing the table. *)

\* A row that is found in the lower table moves; its successors follow unless
\* they are in the upper table already.  close() skips both checks.
add_word_to_upper_table(t, now, w, check_uniq) ==
    LET below == IF check_uniq THEN SelectInSeq(t.lower_table, LAMBDA r : r.index = w)
                               ELSE 0
        row == IF below > 0 THEN [t.lower_table[below] EXCEPT !.ut_timestamp = now]
                            ELSE Row(w, now, 0)
        upper == Append(t.upper_table, row)
        lower == IF below > 0 THEN RemoveAt(t.lower_table, below) ELSE t.lower_table
        all == Successors(w, Letters(0, t.alphabet_size))
        new == OnlyIn(all, {v \in Range(all) : check_uniq => v \notin Words(upper)})
    IN  IF check_uniq /\ w \in Words(t.upper_table) THEN t
        ELSE [t EXCEPT !.upper_table = upper,
                       !.lower_table = lower \o [i \in DOMAIN new |-> Row(new[i], 0, now)]]

initialize_table(t, now) ==
    [add_word_to_upper_table(t, now, <<>>, TRUE) EXCEPT
        !.column_names = Append(@, <<>>),
        !.column_timestamps = Append(@, 0),
        !.initialized = TRUE]

add_column(t, now, w) ==
    IF w \in Range(t.column_names) THEN t
    ELSE [t EXCEPT !.column_names = Append(@, w),
                   !.column_timestamps = Append(@, now)]

\* The new rows' timestamps are never set: both hold whatever was on the stack.
increase_alphabet_size(t, asize, garbage) ==
    LET suffixed(r) == Successors(r.index, Letters(t.alphabet_size, asize))
        new == Flattened([i \in DOMAIN t.upper_table |-> suffixed(t.upper_table[i])])
    IN  IF asize <= t.alphabet_size THEN t
        ELSE [t EXCEPT !.alphabet_size = asize,
                       !.lower_table = @ \o [i \in DOMAIN new |-> Row(new[i], garbage, garbage)]]

-----------------------------------------------------------------------------
(* Filling it from the knowledgebase. *)

\* The words of the cells that a row does not have yet.
Missing(r, columns) ==
    [c \in 1..(Len(columns) - Len(r.acceptance)) |-> r.index \o columns[Len(r.acceptance) + c]]
AllMissing(rows, columns) ==
    [i \in DOMAIN rows |-> Missing(rows[i], columns)]

\* The known answers are entered, in each row only up to the first unknown one.
Filled(rows, columns, k) ==
    LET known(ws) == Min({Len(ws) + 1} \cup {c \in DOMAIN ws : ~is_answered(k, ws[c])}) - 1
        answers(ws) == [c \in 1..known(ws) |-> k.node[ws[c]].ans]
    IN  [rows |-> [i \in DOMAIN rows |->
                      [rows[i] EXCEPT !.acceptance = @ \o answers(Missing(rows[i], columns))]],
         complete |-> \A i \in DOMAIN rows :
                         \A w \in Range(AllMissing(rows, columns)[i]) : is_answered(k, w),
         kb |-> k]

\* All missing cells are asked for.
Asked(k, words) == FoldLeft(resolve_or_add_query, k, words)
fill_missing_columns(rows, columns, k) ==
    Filled(rows, columns, FoldLeft(Asked, k, AllMissing(rows, columns)))

-----------------------------------------------------------------------------
(* Closing it and making it consistent. *)

\* The first lower row that no upper row matches; 0 when the table is closed.
Unmatched(t) ==
    SelectInSeq(t.lower_table, LAMBDA r : r.acceptance \notin Patterns(t.upper_table))

close(t, now) ==
    add_word_to_upper_table(t, now, t.lower_table[Unmatched(t)].index, FALSE)

\* Mutant: the comparison stops one column early.
Conflicts_but_in_last(t) ==
    LET n == Len(t.upper_table)
        after(i, a) == search_tables(t, Append(t.upper_table[i].index, a)).acceptance
    IN  {x \in (1..n) \X (1..n) \X (0..(t.alphabet_size - 1))
                \X (1..(Len(t.column_names) - 1)) :
            /\ x[1] < x[2]
            /\ t.upper_table[x[1]].acceptance = t.upper_table[x[2]].acceptance
            /\ after(x[1], x[3])[x[4]] # after(x[2], x[3])[x[4]]}

(***************************************************************************)
(* The reasons why the table is inconsistent: two equal upper rows i < j,  *)
(* a letter and a column in which their successors differ.                 *)
(***************************************************************************)
Conflicts(t) ==
    LET n == Len(t.upper_table)
        after(i, a) == search_tables(t, Append(t.upper_table[i].index, a)).acceptance
    IN  {x \in (1..n) \X (1..n) \X (0..(t.alphabet_size - 1)) \X DOMAIN t.column_names :
            /\ x[1] < x[2]
            /\ t.upper_table[x[1]].acceptance = t.upper_table[x[2]].acceptance
            /\ after(x[1], x[3])[x[4]] # after(x[2], x[3])[x[4]]}

\* The loops find the first one, in this order.
Before(x, y) ==
    \E p \in DOMAIN x : x[p] < y[p] /\ \A q \in 1..(p - 1) : x[q] = y[q]

make_consistent(t, now) ==
    LET x == CHOOSE y \in Conflicts(t) : \A z \in Conflicts(t) \ {y} : Before(y, z)
    IN  add_column(t, now, <<x[3]>> \o t.column_names[x[4]])

-----------------------------------------------------------------------------
(* The virtual methods. *)

columns_filled(t) ==
    \A r \in Range(t.upper_table) \cup Range(t.lower_table) :
        Len(r.acceptance) = Len(t.column_names)

\* Mutant: the columns are not looked at.
conjecture_ready_unfilled(t) ==
    t.initialized /\ Unmatched(t) = 0 /\ (t.type # "col" => Conflicts(t) = {})

\* angluin_col_table's tables are always consistent.
conjecture_ready(t) ==
    /\ t.initialized
    /\ columns_filled(t)
    /\ Unmatched(t) = 0
    /\ t.type # "col" => Conflicts(t) = {}

\* What complete() returns, or that it calls itself as its last action.
Result(t, k, ready) == [alg |-> t, kb |-> k, ready |-> ready, again |-> FALSE]
Again(t, k) == [alg |-> t, kb |-> k, ready |-> FALSE, again |-> TRUE]

\* The lower table is filled once the upper table is full.
FillLower(t, l) == Result([t EXCEPT !.lower_table = l.rows], l.kb, l.complete)
FillUpper(t, u) ==
    IF u.complete THEN FillLower([t EXCEPT !.upper_table = u.rows],
                                 fill_missing_columns(t.lower_table, t.column_names, u.kb))
                  ELSE Result([t EXCEPT !.upper_table = u.rows], u.kb, FALSE)
FillTables(t, k) ==
    FillUpper(t, fill_missing_columns(t.upper_table, t.column_names, k))

complete(t, k) ==
    LET next(f) ==
            CASE ~f.ready -> f
              [] f.ready /\ Unmatched(f.alg) > 0 ->
                    Again(close(f.alg, f.kb.timestamp), f.kb)
              [] f.ready /\ Unmatched(f.alg) = 0 ->
                    IF f.alg.type = "simple" /\ Conflicts(f.alg) # {}
                    THEN Again(make_consistent(f.alg, f.kb.timestamp), f.kb)
                    ELSE f
    IN  next(FillTables(IF t.initialized THEN t ELSE initialize_table(t, k.timestamp), k))

\* The upper rows that stand for a state: the first of each acceptance.
StateRows(t) ==
    OnlyIn([i \in DOMAIN t.upper_table |-> i],
           {i \in DOMAIN t.upper_table : \A j \in 1..(i - 1) :
               t.upper_table[j].acceptance # t.upper_table[i].acceptance})

derive_conjecture(t) ==
    LET rows == StateRows(t)
        entry(q) == t.upper_table[rows[q + 1]]
        ids == 0..(Len(rows) - 1)
        target(q, a) == search_tables(t, Append(entry(q).index, a)).acceptance
    IN  [state_count |-> Len(rows),
         input_alphabet_size |-> t.alphabet_size,
         initial_states |-> {0},
         output_mapping |-> [q \in ids |-> Head(entry(q).acceptance)],
         transitions |-> [q \in ids |-> [a \in 0..(t.alphabet_size - 1) |->
                             {p \in ids : entry(p).acceptance = target(q, a)}]]]

\* A letter that is not yet in the alphabet enlarges it.
AlphabetOf(t, w) == Max({t.alphabet_size} \cup {w[i] + 1 : i \in DOMAIN w})

\* Mutant: the prefixes are added without looking for them.
simple_add_counterexample_unchecked(t, now, w, garbage) ==
    LET g == increase_alphabet_size(t, AlphabetOf(t, w), garbage)
        prefixes == [i \in 1..Len(w) |-> SubSeq(w, 1, Len(w) - i + 1)]
        add(s, p) == add_word_to_upper_table(s, now, p, FALSE)
    IN  IF InTables(t, w) THEN t ELSE FoldLeft(add, g, prefixes)

\* The word and its prefixes become rows, the longest first.
simple_add_counterexample(t, now, w, garbage) ==
    LET g == increase_alphabet_size(t, AlphabetOf(t, w), garbage)
        prefixes == [i \in 1..Len(w) |-> SubSeq(w, 1, Len(w) - i + 1)]
        add(s, p) == add_word_to_upper_table(s, now, p, TRUE)
    IN  IF InTables(t, w) THEN t ELSE FoldLeft(add, g, prefixes)

\* Mutant: only the word itself becomes a column.
col_add_counterexample_whole(t, now, w, garbage) ==
    add_column(increase_alphabet_size(t, AlphabetOf(t, w), garbage), now, w)

\* The word and its suffixes become columns, up to the first that is one.
col_add_counterexample(t, now, w, garbage) ==
    LET g == increase_alphabet_size(t, AlphabetOf(t, w), garbage)
        suffixes == [i \in 1..Len(w) |-> SubSeq(w, i, Len(w))]
        old == {i \in DOMAIN suffixes : suffixes[i] \in Range(t.column_names)}
        new == SubSeq(suffixes, 1, Min({Len(w) + 1} \cup old) - 1)
        add(s, v) == add_column(s, now, v)
    IN  IF w \in Range(t.column_names) THEN t ELSE FoldLeft(add, g, new)

-----------------------------------------------------------------------------
(* sync_to_knowledgebase(), to be called after an undo. *)

\* Columns are popped from the back until one is old enough.
sync_columns(t, now) ==
    LET n == Max({0} \cup {i \in DOMAIN t.column_timestamps : t.column_timestamps[i] < now})
    IN  [t EXCEPT !.column_names = SubSeq(@, 1, n),
                  !.column_timestamps = SubSeq(@, 1, n)]

Reset(t) ==
    [t EXCEPT !.upper_table = <<>>, !.lower_table = <<>>, !.initialized = FALSE]

\* Mutant: a row keeps its cells, whatever the knowledgebase knows.
sync_acceptance_not(r, columns, k) ==
    [r EXCEPT !.acceptance = SubSeq(@, 1, Min({Len(columns), Len(@)}))]

\* What the knowledgebase still knows of a row, up to the first gap.
sync_acceptance(r, columns, k) ==
    LET cells == 1..Min({Len(columns), Len(r.acceptance)})
        word(c) == r.index \o columns[c]
        gaps == {c \in cells : ~Resolvable(k, word(c))}
        n == Min({Cardinality(cells) + 1} \cup gaps) - 1
    IN  [r EXCEPT !.acceptance = [c \in 1..n |-> resolve_query(k, word(c))]]

\* Mutant: no row goes down.
goes_down_never(r, now) == FALSE

\* A row that had been in the lower table before it went up.
goes_down(r, now) == r.lt_timestamp \in 1..(now - 1)

\* Young rows of the upper table go, down if they came from there.
sync_tables(t, k) ==
    LET now == k.timestamp
        old == Range(t.upper_table)
        down == OnlyIn(t.upper_table, {r \in old : r.ut_timestamp >= now /\ goes_down(r, now)})
        upper == OnlyIn(t.upper_table, {r \in old : r.ut_timestamp < now})
        lower == OnlyIn(t.lower_table, {r \in Range(t.lower_table) : r.lt_timestamp < now})
                 \o [i \in DOMAIN down |-> [down[i] EXCEPT !.lt_timestamp = 0]]
        synced(rows) == [i \in DOMAIN rows |-> sync_acceptance(rows[i], t.column_names, k)]
    IN  IF upper = <<>> \/ lower = <<>> THEN Reset(t)
        ELSE [t EXCEPT !.upper_table = synced(upper), !.lower_table = synced(lower)]

\* Returns false, here by an uninitialized table, when nothing is left.
sync_to_knowledgebase(t, k) ==
    LET c == sync_columns(t, k.timestamp)
    IN  IF ~t.initialized THEN t
        ELSE IF c.column_names = <<>> THEN Reset(c)
        ELSE sync_tables(c, k)

-----------------------------------------------------------------------------
\* What serialize() wrote, read by deserialize().  It takes the word before the flag
\* initialized for the flag, and that word is never 0; it refuses an empty lower table, and
\* then nothing is left.
table_reload(t) ==
    IF t.lower_table = <<>> THEN EmptyTable(t.type, 0) ELSE [t EXCEPT !.initialized = TRUE]

=============================================================================
