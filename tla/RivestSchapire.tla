--------------------------- MODULE RivestSchapire ---------------------------
(***************************************************************************)
(* rivest_schapire_table: an observation table that analyses each          *)
(* counterexample by binary search for the one suffix that splits a state. *)
(* The search asks membership queries, so it is spread over many calls of  *)
(* advance().                                                              *)
(***************************************************************************)
EXTENDS AngluinTable

\* cex_answer is NoAnswer until it is set; latest_cj is NoConjecture unless valid.
EmptyRSTable(asize) ==
    [type |-> "rs", alphabet_size |-> asize, initialized |-> FALSE,
     column_names |-> <<>>, column_timestamps |-> <<>>,
     upper_table |-> <<>>, lower_table |-> <<>>,
     counterexample_mode |-> FALSE, counterexample |-> <<>>, cex_answer |-> NoAnswer,
     cex_front |-> -1, cex_back |-> -1, cex_latest_bad |-> -1,
     latest_cj |-> NoConjecture, latest_cj_statemapping |-> <<>>]

CexModeOff(t) ==
    [t EXCEPT !.counterexample_mode = FALSE, !.cex_front = -1, !.cex_back = -1,
              !.cex_latest_bad = -1, !.cex_answer = NoAnswer]

\* The latest conjecture and a search in progress are not saved.
rs_reload(t) ==
    IF t.lower_table = <<>> THEN EmptyRSTable(0)
    ELSE [CexModeOff(table_reload(t)) EXCEPT !.counterexample = <<>>, !.latest_cj = NoConjecture,
                                             !.latest_cj_statemapping = <<>>]

rs_add_counterexample(t, w, garbage) ==
    LET asize == AlphabetOf(t, w)
    IN  IF t.latest_cj = NoConjecture THEN t
        ELSE IF asize > t.alphabet_size THEN increase_alphabet_size(t, asize, garbage)
        ELSE IF w = <<>> THEN [CexModeOff(t) EXCEPT !.latest_cj = NoConjecture,
                                                    !.latest_cj_statemapping = <<>>]
        ELSE [t EXCEPT !.counterexample_mode = TRUE, !.counterexample = w,
                       !.cex_answer = NoAnswer, !.cex_front = 0,
                       !.cex_back = Len(w) - 1, !.cex_latest_bad = -1]

\* derive_conjecture() keeps the machine and the row that stands for each state.
rs_remember(t) ==
    LET rows == StateRows(t)
    IN  [t EXCEPT !.latest_cj = derive_conjecture(t),
                  !.latest_cj_statemapping =
                     [i \in DOMAIN rows |-> t.upper_table[rows[i]].index]]

\* The counterexample with its first i letters replaced by the access word of the
\* state they lead to.
Replaced(t, i) ==
    LET q == CHOOSE s \in run(t.latest_cj, {0}, SubSeq(t.counterexample, 1, i)) : TRUE
    IN  t.latest_cj_statemapping[q + 1]
        \o SubSeq(t.counterexample, i + 1, Len(t.counterexample))

\* Mutant: the suffix is one letter too short.
PickSuffix_off_by_one(t, now) ==
    LET from == IF t.cex_latest_bad > 0 THEN t.cex_latest_bad ELSE 0
    IN  CexModeOff(add_column(t, now,
                      SubSeq(t.counterexample, from + 2, Len(t.counterexample))))

\* The suffix that starts at the first bad position becomes a column.
PickSuffix(t, now) ==
    LET from == IF t.cex_latest_bad > 0 THEN t.cex_latest_bad ELSE 0
    IN  CexModeOff(add_column(t, now,
                      SubSeq(t.counterexample, from + 1, Len(t.counterexample))))

-----------------------------------------------------------------------------
(* complete(): normal operation, or one step of the search. *)

\* What resolve_or_add_query() returned for w, having made k.
Reply(k, w) == [kb |-> k, ans |-> IF is_answered(k, w) THEN k.node[w].ans ELSE NoAnswer]

\* The range shrinks to the left or to the right of position i.
Narrowed(t, i, bad) ==
    LET searching == t.cex_front # t.cex_back
    IN  [t EXCEPT !.cex_latest_bad = IF bad THEN i ELSE @,
                  !.cex_back = IF bad /\ searching THEN i - 1 ELSE @,
                  !.cex_front = IF ~bad /\ searching THEN i + 1 ELSE @]

\* The search goes on in the narrowed range n, or it has found the suffix.
Proceed(t, n, k) ==
    Again(IF t.cex_front # t.cex_back /\ n.cex_front <= n.cex_back
          THEN n ELSE PickSuffix(n, k.timestamp), k)

\* new answers for the replaced word; the counterexample's answer may be missing.
Compare(t, i, new) ==
    IF new.ans = NoAnswer \/ t.cex_answer = NoAnswer THEN Result(t, new.kb, FALSE)
    ELSE Proceed(t, Narrowed(t, i, new.ans # t.cex_answer), new.kb)

Ask(t, i, w, k) == Compare(t, i, Reply(resolve_or_add_query(k, w), w))

\* A counterexample that turns out to be none is dropped.
Checked(t, cex) ==
    LET i == (t.cex_front + t.cex_back) \div 2
    IN  IF /\ t.cex_answer = NoAnswer /\ cex.ans # NoAnswer
           /\ classify(t.latest_cj, t.counterexample, NoAnswer) = cex.ans
        THEN Result(CexModeOff(t), cex.kb, FALSE)
        ELSE Ask([t EXCEPT !.cex_answer = cex.ans], i, Replaced(t, i), cex.kb)

analyse_counterexample(t, k) ==
    Checked(t, IF t.cex_answer # NoAnswer THEN [kb |-> k, ans |-> t.cex_answer]
               ELSE Reply(resolve_or_add_query(k, t.counterexample), t.counterexample))

rs_complete(t, k) ==
    LET next(f) == IF f.ready /\ Unmatched(f.alg) > 0
                   THEN Again(close(f.alg, f.kb.timestamp), f.kb) ELSE f
        start == [initialize_table(t, k.timestamp) EXCEPT
                     !.counterexample_mode = FALSE, !.latest_cj = NoConjecture]
    IN  IF t.initialized /\ t.counterexample_mode THEN analyse_counterexample(t, k)
        ELSE next(FillTables(IF t.initialized THEN t ELSE start, k))

=============================================================================
