----------------------------- MODULE MCLearner -----------------------------
(***************************************************************************)
(* Instances of Learner for TLC.  Languages over two letters: the words    *)
(* whose number of 0s is divisible by three, the words that contain two 1s *)
(* in a row, the words whose last letter but one is 1, and the language    *)
(* of a machine without such a pattern, of which NL* makes a conjecture    *)
(* that rejects a word its own table accepts.  All of them need            *)
(* counterexamples.                                                        *)
(***************************************************************************)
EXTENDS Learner

MCSymbols == {0, 1}
MCFilter == [w \in {} |-> "no"]

Output(accepting, n) == [q \in 0..(n - 1) |-> IF q \in accepting THEN "yes" ELSE "no"]

ZerosModThree ==
    Deterministic(3, 2, [q \in 0..2 |-> [a \in 0..1 |-> IF a = 0 THEN (q + 1) % 3 ELSE q]],
                  Output({0}, 3))
TwoOnes ==
    Deterministic(3, 2, [q \in 0..2 |-> [a \in 0..1 |->
                             IF q = 2 THEN 2 ELSE IF a = 1 THEN q + 1 ELSE 0]],
                  Output({2}, 3))
LastButOne ==
    Deterministic(4, 2, [q \in 0..3 |-> [a \in 0..1 |-> (2 * q + a) % 4]],
                  Output({2, 3}, 4))

Uneven ==
    Deterministic(4, 2, [q \in 0..3 |-> [a \in 0..1 |->
                             CASE q = 0 -> a + 2 [] q = 1 -> 2 [] q = 2 -> 2 - a [] q = 3 -> 3 * a]],
                  Output({0, 2, 3}, 4))

MCSmallTargets == {ZerosModThree, TwoOnes}
MCTargets == MCSmallTargets \cup {LastButOne, Uneven}

\* An alphabet that grows is explored without undos, and not with NL*, which then forgets
\* the new successors of all upper rows but the first.
MCMaxUndos ==
    [start \in ({"simple", "col", "rs"} \X (1..2)) \cup {<<"nl", 2>>} |->
        CASE start = <<"simple", 2>> -> 1
          [] start = <<"col", 2>> -> 2
          [] OTHER -> 0]
MCTwoUndos == <<"simple", 2>> :> 2
=============================================================================
