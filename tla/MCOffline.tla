----------------------------- MODULE MCOffline -----------------------------
(***************************************************************************)
(* Instances of OfflineLearner for TLC: the words over one letter whose    *)
(* length is divisible by three, and over two letters the words with an    *)
(* odd number of 1s and the words that end with 1.                         *)
(***************************************************************************)
EXTENDS OfflineLearner

MCSymbols == {0, 1}
MCFilter == [w \in {} |-> FALSE]

Accepting(F, n) == [q \in 0..(n - 1) |-> q \in F]

ModThree == Deterministic(3, 1, [q \in 0..2 |-> [a \in 0..0 |-> (q + 1) % 3]], Accepting({0}, 3))
OddOnes == Deterministic(2, 2, [q \in 0..1 |-> [a \in 0..1 |-> (q + a) % 2]], Accepting({1}, 2))
LastOne == Deterministic(2, 2, [q \in 0..1 |-> [a \in 0..1 |-> a]], Accepting({1}, 2))

MCTargets == {ModThree, OddOnes, LastOne}

Z3(c) == {[class |-> c, use_variables |-> v, use_enum |-> e] : v, e \in BOOLEAN}
Csp == {[class |-> "csp_MiniSat", unary_encoding |-> u] : u \in BOOLEAN} \cup Z3("csp_Z3")
Moore == {[class |-> "moore_MiniSat", symmetry_breaking |-> TRUE]} \cup Z3("moore_Z3")
Dfa == {[class |-> "dfa_MiniSat", symmetry_breaking |-> TRUE]} \cup Z3("dfa_Z3")
Only(c) == {[class |-> c]}
Doubling == {[class |-> "csp_MiniSat", unary_encoding |-> TRUE]}

With(language, samples, algs, wraps, increments) ==
    [target : {language}, sample : samples, alg : algs, wrapped : wraps, increment : increments]

Empty == {{}}
Short(n) == UNION {[1..i -> {0, 1}] : i \in 0..n}

TwoLetters(l) == With(l, Empty, Csp \cup Moore, {FALSE}, {1})
                 \cup With(l, Empty, Dfa, BOOLEAN, {1})
                 \cup With(l, SUBSET Short(2), Only("RPNI") \cup Only("DeLeTe2"), {FALSE}, {1})
                 \cup With(l, Empty, Only("MiniSat_biermann"), {FALSE}, {1})
MCSettings ==
    TwoLetters(OddOnes) \cup TwoLetters(LastOne)
        \cup With(ModThree, Empty, Csp \cup Moore \cup Dfa \cup Only("nfa_MiniSat"), {FALSE}, {1})
        \cup With(ModThree, Empty, Dfa, {TRUE}, {2})
        \cup With(ModThree, Empty, Doubling, {FALSE}, {0})
        \cup With(ModThree, Empty, {[class |-> c] : c \in {"RPNI", "MiniSat_biermann",
                                                   "original_biermann"}}, {FALSE}, {1})

MCWrapped == With(OddOnes, Empty, Csp \cup Moore, {TRUE}, {1})
MCUnbroken == With(ModThree, Empty, {[class |-> c, symmetry_breaking |-> FALSE] :
                                       c \in {"moore_MiniSat", "dfa_MiniSat"}}, {FALSE}, {2})
MCRootless == With(LastOne, {{<<0>>, <<1>>}}, Only("MiniSat_biermann"), {FALSE}, {1})
=============================================================================
