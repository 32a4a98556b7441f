---------------------------- MODULE KnowledgeLog ----------------------------
(***************************************************************************)
(* What a knowledgebase promises, without its tree, its queries and its    *)
(* timestamps: an account of everything known at each tick of its clock.   *)
(* Knowledge only grows as the clock ticks, and an undo goes back to what  *)
(* was known then.                                                         *)
(***************************************************************************)
EXTENDS Sequences, Integers, Functions

VARIABLE
    history     \* history[t]: the partial function from words to answers that
                \* was known when the clock showed t; the last entry is now

Nothing == [w \in {} |-> w]

Init == history = <<Nothing>>

Now == history[Len(history)]

(***************************************************************************)
(* Any number of ticks that each keep what was known before them.          *)
(***************************************************************************)
Learn ==
    /\ Len(history') >= Len(history)
    /\ SubSeq(history', 1, Len(history)) = history
    /\ \A t \in Len(history)..(Len(history') - 1) :
          IsRestriction(history'[t], history'[t + 1])

\* The last n ticks did not happen.  Before the first tick nothing is known.
Undo(n) ==
    history' = SubSeq(history, 1, IF n < Len(history) THEN Len(history) - n ELSE 1)

(***************************************************************************)
(* The answer for w is replaced by a.  The old one is gone for good: an    *)
(* undo will not bring it back.                                            *)
(***************************************************************************)
Alter(w, a) ==
    LET without(f) == Restrict(f, DOMAIN f \ {w})
        with(f) == [v \in DOMAIN f \cup {w} |-> IF v = w THEN a ELSE f[v]]
    IN  history' = Append([t \in DOMAIN history |-> without(history[t])], with(Now))

Reset == history' = <<Nothing>>

Next ==
    \/ Learn
    \/ \E n \in 1..Len(history) : Undo(n)
    \/ \E w \in DOMAIN history'[Len(history')] : Alter(w, history'[Len(history')][w])
    \/ Reset

Spec == Init /\ [][Next]_history

=============================================================================
