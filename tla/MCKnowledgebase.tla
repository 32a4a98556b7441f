-------------------------- MODULE MCKnowledgebase --------------------------
(***************************************************************************)
(* Instances of Knowledgebase for TLC.  One word is a prefix of the other, *)
(* so add_query with a prefix count asks both, and cleanup deletes or      *)
(* keeps an inner node.  The filter decides the shorter one.               *)
(***************************************************************************)
EXTENDS Knowledgebase

MCSymbols == {0, 1}
MCUserWords == {<<0>>, <<0, 1>>}
MCFilter == [w \in {<<0>>} |-> "yes"]
=============================================================================
