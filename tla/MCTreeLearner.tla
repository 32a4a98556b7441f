--------------------------- MODULE MCTreeLearner ---------------------------
(***************************************************************************)
(* Instances of TreeLearner for TLC.  Languages over two letters: the      *)
(* words whose number of 0s is divisible by three, the words that contain  *)
(* three 1s in a row, and the words whose last letter but one is 1.  In    *)
(* the second a leaf is split by a word that is two inner nodes deep.      *)
(***************************************************************************)
EXTENDS TreeLearner

MCSymbols == {0, 1}
MCFilter == [w \in {} |-> "no"]

Output(accepting, n) == [q \in 0..(n - 1) |-> IF q \in accepting THEN "yes" ELSE "no"]

ZerosModThree ==
    Deterministic(3, 2, [q \in 0..2 |-> [a \in 0..1 |-> IF a = 0 THEN (q + 1) % 3 ELSE q]],
                  Output({0}, 3))
ThreeOnes ==
    Deterministic(4, 2, [q \in 0..3 |-> [a \in 0..1 |->
                             IF q = 3 THEN 3 ELSE IF a = 1 THEN q + 1 ELSE 0]],
                  Output({3}, 4))
LastButOne ==
    Deterministic(4, 2, [q \in 0..3 |-> [a \in 0..1 |-> (2 * q + a) % 4]],
                  Output({2, 3}, 4))

MCTargets == {ZerosModThree, ThreeOnes, LastButOne}
=============================================================================
