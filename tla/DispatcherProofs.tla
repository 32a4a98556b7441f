-------------------------- MODULE DispatcherProofs --------------------------
(***************************************************************************)
(* Theorems about the objects of the dispatcher's servants: references     *)
(* between them stay mutual, and no iterator points at a freed node, for   *)
(* any number of clients and objects and all commands in any order.        *)
(*                                                                         *)
(* The objects of one servant are good if their references, taken apart    *)
(* into the four directions in which they are followed, agree.  There is   *)
(* one lemma for each way in which a command changes them, one for the     *)
(* commands of each class, and an induction over the steps of the system.  *)
(***************************************************************************)
EXTENDS Dispatcher, FiniteSetTheorems, WellFoundedInduction, TLAPS

USE DEF None, Freed, NULL, OBJ_LOGGER, OBJ_KNOWLEDGEBASE, OBJ_KNOWLEDGEBASE_ITERATOR,
        OBJ_LEARNING_ALGORITHM, OBJ_NORMALIZER, ObjectTypes

Ref == Nat \cup {None}

Linkable == {OBJ_LOGGER, OBJ_KNOWLEDGEBASE, OBJ_NORMALIZER}

-----------------------------------------------------------------------------
(* The inductive invariant of the objects of one servant.                    *)

WellFormed(S) == \E n \in Nat : S \in [0..(n - 1) -> Objects \cup {NULL}]

\* Who is noted as referring to an object does refer to it, and is there.
ReferrersReal(S) ==
    \A i, a : i \in DOMAIN S /\ S[i] # NULL /\ a \in S[i].referring_algorithms =>
        /\ S[i].type \in Linkable
        /\ a \in DOMAIN S /\ S[a] # NULL /\ S[a].type = OBJ_LEARNING_ALGORITHM
        /\ S[a][Member(S[i].type)] = i
IteratorsReal(S) ==
    \A i, t : i \in DOMAIN S /\ S[i] # NULL /\ t \in S[i].referring_iterators =>
        /\ S[i].type = OBJ_KNOWLEDGEBASE
        /\ t \in DOMAIN S /\ S[t] # NULL /\ S[t].type = OBJ_KNOWLEDGEBASE_ITERATOR
        /\ S[t].knowledgebase = i

\* What an object refers to is there, and knows of it.
ReferencesNoted(S) ==
    \A a, type, i :
        a \in DOMAIN S /\ S[a] # NULL /\ S[a].type = OBJ_LEARNING_ALGORITHM
          /\ type \in Linkable /\ i = S[a][Member(type)] /\ i # None =>
            /\ i \in DOMAIN S /\ S[i] # NULL /\ S[i].type = type
            /\ a \in S[i].referring_algorithms
KnowledgebasesNoted(S) ==
    \A t, i :
        t \in DOMAIN S /\ S[t] # NULL /\ S[t].type = OBJ_KNOWLEDGEBASE_ITERATOR
          /\ i = S[t].knowledgebase /\ i # None =>
            /\ i \in DOMAIN S /\ S[i] # NULL /\ S[i].type = OBJ_KNOWLEDGEBASE
            /\ t \in S[i].referring_iterators

\* Only iterators have a position, in the tree of their knowledgebase.
CursorsRight(S) ==
    \A t : t \in DOMAIN S /\ S[t] # NULL /\ S[t].cursor # None =>
        /\ S[t].type = OBJ_KNOWLEDGEBASE_ITERATOR
        /\ S[t].cursor = S[t].knowledgebase

Good(S) ==
    /\ WellFormed(S)
    /\ ReferrersReal(S) /\ IteratorsReal(S)
    /\ ReferencesNoted(S) /\ KnowledgebasesNoted(S)
    /\ CursorsRight(S)

(***************************************************************************)
(* The four directions together are what ReferencesMutual says.            *)
(***************************************************************************)
LEMMA GoodIsMutual == ASSUME NEW S, Good(S) PROVE MutualSlots(S)
BY DEF MutualSlots, Good, ReferrersReal, IteratorsReal, ReferencesNoted, KnowledgebasesNoted,
       Refers, Exists, Linkable

(***************************************************************************)
(* Where no objects are, no reference is wrong.                            *)
(***************************************************************************)
LEMMA EmptyGood == ASSUME NEW S, DOMAIN S = {}, WellFormed(S) PROVE Good(S)
<1>1. ReferrersReal(S)
  BY DEF ReferrersReal
<1>2. IteratorsReal(S)
  BY DEF IteratorsReal
<1>3. ReferencesNoted(S)
  BY DEF ReferencesNoted
<1>4. KnowledgebasesNoted(S)
  BY DEF KnowledgebasesNoted
<1>5. CursorsRight(S)
  BY DEF CursorsRight
<1> QED BY <1>1, <1>2, <1>3, <1>4, <1>5 DEF Good

(***************************************************************************)
(* A servant without objects is good.                                      *)
(***************************************************************************)
LEMMA NoObjectsGood == Good(<<>>)
<1>1. DOMAIN <<>> = {} /\ 0..(0 - 1) = {}
  OBVIOUS
<1>2. <<>> \in [0..(0 - 1) -> Objects \cup {NULL}]
  BY <1>1
<1>3. WellFormed(<<>>)
  BY <1>2 DEF WellFormed
<1> QED BY <1>1, <1>3, EmptyGood

-----------------------------------------------------------------------------
(* Single objects.                                                           *)

(***************************************************************************)
(* Every set of numbers has a least member.                                *)
(***************************************************************************)
LEMMA SmallestNumber ==
    ASSUME NEW S \in SUBSET Nat, S # {}
    PROVE  \E m \in S : \A j \in S : m <= j
<1> DEFINE Below == {0..m : m \in S}
<1>1. Below \subseteq FiniteSubsetsOf(Nat) /\ Below # {}
  <2>1. \A m \in S : IsFiniteSet(0..m) /\ 0..m \subseteq Nat
    BY FS_Interval
  <2> QED BY <2>1 DEF FiniteSubsetsOf
<1>2. PICK T \in Below : \A U \in Below : ~(<<U, T>> \in StrictSubsetOrdering(Nat))
  <2> HIDE DEF Below
  <2> QED BY <1>1, FS_StrictSubsetOrderingWellFounded, WFMin, Zenon
<1>3. PICK m \in S : T = 0..m
  OBVIOUS
<1>4. \A j \in S : m <= j
  <2> SUFFICES ASSUME NEW j \in S, j < m PROVE FALSE
    OBVIOUS
  <2>1. 0..j \subseteq 0..m /\ 0..j # 0..m
    <3>1. m \in 0..m /\ m \notin 0..j
      OBVIOUS
    <3> QED BY <3>1
  <2>2. 0..j \in FiniteSubsetsOf(Nat) /\ 0..m \in FiniteSubsetsOf(Nat) /\ 0..j \in Below
    BY <1>1
  <2> QED BY <1>2, <1>3, <2>1, <2>2 DEF StrictSubsetOrdering, FiniteSubsetsOf
<1> QED BY <1>4

(***************************************************************************)
(* store_object() never takes a slot that is in use, and leaves no gap.    *)
(***************************************************************************)
LEMMA NextSlotIsFree ==
    ASSUME NEW slots, WellFormed(slots)
    PROVE  /\ NextSlot(slots) \in Nat
           /\ NextSlot(slots) \in DOMAIN slots => slots[NextSlot(slots)] = NULL
           /\ \E n \in Nat : DOMAIN slots \cup {NextSlot(slots)} = 0..(n - 1)
<1>1. PICK n \in Nat : slots \in [0..(n - 1) -> Objects \cup {NULL}]
  BY DEF WellFormed
<1> DEFINE free == {i \in DOMAIN slots : slots[i] = NULL}
<1>2. DOMAIN slots = 0..(n - 1) /\ Cardinality(0..(n - 1)) = n
  BY <1>1, FS_Interval
<1> HIDE DEF free
<1>3. CASE free = {}
  <2>1. NextSlot(slots) = n
    BY <1>2, <1>3 DEF NextSlot, free
  <2>2. 0..(n - 1) \cup {n} = 0..((n + 1) - 1) /\ n \in Nat /\ n + 1 \in Nat
    OBVIOUS
  <2>3. n \notin 0..(n - 1)
    OBVIOUS
  <2> QED BY <1>2, <2>1, <2>2, <2>3
<1>4. CASE free # {}
  <2>1. free \subseteq Nat
    BY <1>2 DEF free
  <2>3. \E m \in free : \A j \in free : m <= j
    BY <1>4, <2>1, SmallestNumber
  <2>4. NextSlot(slots) \in free
    BY <1>4, <2>3 DEF NextSlot, free
  <2>5. DOMAIN slots \cup {NextSlot(slots)} = 0..(n - 1)
    BY <1>2, <2>4 DEF free
  <2> QED BY <2>1, <2>4, <2>5 DEF free
<1> QED BY <1>3, <1>4

(***************************************************************************)
(* What a slot holds.                                                      *)
(***************************************************************************)
LEMMA SlotFacts ==
    ASSUME NEW S, WellFormed(S)
    PROVE  \A j \in DOMAIN S : j \in Nat /\ (S[j] # NULL => S[j] \in Objects)
BY DEF WellFormed

(***************************************************************************)
(* The data members of an object.                                          *)
(***************************************************************************)
LEMMA ObjectFields ==
    ASSUME NEW o \in Objects
    PROVE  /\ o.type \in ObjectTypes
           /\ o.referring_algorithms \in SUBSET Nat
           /\ o.referring_iterators \in SUBSET Nat
           /\ o.knowledgebase \in Ref /\ o.logger \in Ref /\ o.normalizer \in Ref
           /\ o.cursor \in Ref \cup {Freed}
           /\ \A t \in Linkable : o[Member(t)] \in Ref
           /\ o # NULL
BY DEF Objects, Ref, Linkable, Member

\* An object after an assignment to one of its members.
WithMember(o, type, i) == [o EXCEPT ![Member(type)] = i]
WithReferrers(o, R) == [o EXCEPT !.referring_algorithms = R]
WithIterators(o, R) == [o EXCEPT !.referring_iterators = R]
WithCursor(o, c) == [o EXCEPT !.cursor = c]

(***************************************************************************)
(* What one assignment to a data member leaves as it was.                  *)
(***************************************************************************)
LEMMA MemberUpdate ==
    ASSUME NEW o \in Objects, NEW i \in Ref, NEW type \in Linkable
    PROVE  LET p == WithMember(o, type, i) IN
           /\ p \in Objects /\ p # NULL
           /\ p.type = o.type /\ p.cursor = o.cursor
           /\ p.referring_algorithms = o.referring_algorithms
           /\ p.referring_iterators = o.referring_iterators
           /\ p[Member(type)] = i
           /\ \A t \in Linkable : t # type => p[Member(t)] = o[Member(t)]
BY DEF WithMember, Objects, Ref, Member, Linkable

(***************************************************************************)
(* Noting who refers to an object.                                         *)
(***************************************************************************)
LEMMA ReferringUpdate ==
    ASSUME NEW o \in Objects, NEW R \in SUBSET Nat
    PROVE  LET p == WithReferrers(o, R) IN
           /\ p \in Objects /\ p # NULL
           /\ p.type = o.type /\ p.cursor = o.cursor
           /\ p.knowledgebase = o.knowledgebase
           /\ p.referring_iterators = o.referring_iterators
           /\ \A t \in Linkable : p[Member(t)] = o[Member(t)]
           /\ p.referring_algorithms = R
BY DEF WithReferrers, Objects, Member, Linkable

(***************************************************************************)
(* Noting which iterators a knowledgebase has.                             *)
(***************************************************************************)
LEMMA IteratorsUpdate ==
    ASSUME NEW o \in Objects, NEW R \in SUBSET Nat
    PROVE  LET p == WithIterators(o, R) IN
           /\ p \in Objects /\ p # NULL
           /\ p.type = o.type /\ p.cursor = o.cursor
           /\ p.knowledgebase = o.knowledgebase
           /\ p.referring_algorithms = o.referring_algorithms
           /\ \A t \in Linkable : p[Member(t)] = o[Member(t)]
           /\ p.referring_iterators = R
BY DEF WithIterators, Objects, Member, Linkable

(***************************************************************************)
(* Moving an iterator.                                                     *)
(***************************************************************************)
LEMMA CursorUpdate ==
    ASSUME NEW o \in Objects, NEW c \in Ref \cup {Freed}
    PROVE  LET p == WithCursor(o, c) IN
           /\ p \in Objects /\ p # NULL
           /\ p.type = o.type /\ p.cursor = c
           /\ p.knowledgebase = o.knowledgebase
           /\ p.referring_algorithms = o.referring_algorithms
           /\ p.referring_iterators = o.referring_iterators
           /\ \A t \in Linkable : p[Member(t)] = o[Member(t)]
BY DEF WithCursor, Objects, Ref, Member, Linkable

WithoutTree(o) == [o EXCEPT !.knowledgebase = None, !.cursor = None]

(***************************************************************************)
(* What an iterator keeps when its knowledgebase goes away.                *)
(***************************************************************************)
LEMMA TreeUpdate ==
    ASSUME NEW o \in Objects
    PROVE  LET p == WithoutTree(o) IN
           /\ p \in Objects /\ p # NULL
           /\ p.type = o.type /\ p.cursor = None /\ p.knowledgebase = None
           /\ p.referring_algorithms = o.referring_algorithms
           /\ p.referring_iterators = o.referring_iterators
BY DEF WithoutTree, Objects

(***************************************************************************)
(* A change of objects that leaves the slots as they are.                  *)
(***************************************************************************)
LEMMA SameSlots ==
    ASSUME NEW S, WellFormed(S), NEW T, T = [j \in DOMAIN S |-> T[j]],
           \A j \in DOMAIN S : T[j] \in Objects \cup {NULL}
    PROVE  WellFormed(T)
<1>1. PICK n \in Nat : DOMAIN S = 0..(n - 1)
  BY DEF WellFormed
<1>2. T \in [0..(n - 1) -> Objects \cup {NULL}]
  BY <1>1
<1> QED BY <1>2 DEF WellFormed

-----------------------------------------------------------------------------
(* Changes of the references between objects.                                *)

\* Algorithm a refers to i, or to none, for what it referred to before.
Relinked(S, a, type, i) ==
    [j \in DOMAIN S |->
        IF j = a THEN [S[a] EXCEPT ![Member(type)] = i]
        ELSE IF j = i THEN [S[i] EXCEPT !.referring_algorithms = @ \cup {a}]
        ELSE IF j = S[a][Member(type)]
        THEN [S[j] EXCEPT !.referring_algorithms = @ \ {a}]
        ELSE S[j]]

(***************************************************************************)
(* If T is S after algorithm a gave up one reference for another, and the  *)
(* objects it referred to were told, the four directions still agree.      *)
(***************************************************************************)
LEMMA RelinkedAgree ==
    ASSUME NEW S, ReferrersReal(S), IteratorsReal(S), ReferencesNoted(S), KnowledgebasesNoted(S),
           NEW a \in DOMAIN S, S[a] # NULL, S[a].type = OBJ_LEARNING_ALGORITHM,
           NEW type \in Linkable, NEW i,
           i # None => i \in DOMAIN S /\ S[i] # NULL /\ S[i].type = type,
           None \notin DOMAIN S, NEW old, old = S[a][Member(type)], i # a, old # a,
           NEW T, DOMAIN T = DOMAIN S, T[a] # NULL, T[a].type = S[a].type,
           T[a].referring_algorithms = S[a].referring_algorithms,
           T[a].referring_iterators = S[a].referring_iterators,
           T[a][Member(type)] = i,
           \A t \in Linkable : t # type => T[a][Member(t)] = S[a][Member(t)],
           \A j \in DOMAIN S : j # a /\ S[j] # NULL =>
              /\ T[j] # NULL /\ T[j].type = S[j].type
              /\ T[j].knowledgebase = S[j].knowledgebase
              /\ T[j].referring_iterators = S[j].referring_iterators
              /\ \A t \in Linkable : T[j][Member(t)] = S[j][Member(t)]
              /\ \A b : b \in T[j].referring_algorithms <=>
                    \/ b \in S[j].referring_algorithms /\ ~(b = a /\ j = old)
                    \/ b = a /\ j = i,
           \A j \in DOMAIN S : S[j] = NULL => T[j] = NULL
    PROVE  ReferrersReal(T) /\ IteratorsReal(T) /\ ReferencesNoted(T) /\ KnowledgebasesNoted(T)
<1>1. ReferrersReal(T)
  <2> SUFFICES ASSUME NEW n \in DOMAIN S, NEW b, T[n] # NULL, b \in T[n].referring_algorithms
               PROVE  /\ T[n].type \in Linkable
                      /\ b \in DOMAIN S /\ T[b] # NULL /\ T[b].type = OBJ_LEARNING_ALGORITHM
                      /\ T[b][Member(T[n].type)] = n
    BY DEF ReferrersReal
  <2>1. n # a /\ S[n] # NULL /\ T[n].type = S[n].type
    BY DEF ReferrersReal, Linkable
  <2>2. CASE b = a
    <3>1. CASE n = i
      BY <2>1, <2>2, <3>1
    <3>2. CASE n # i
      <4>1. a \in S[n].referring_algorithms /\ n # old
        BY <2>1, <2>2, <3>2
      <4>2. S[n].type \in Linkable /\ S[a][Member(S[n].type)] = n
        BY <2>1, <4>1 DEF ReferrersReal
      <4>3. S[n].type # type
        BY <4>1, <4>2
      <4> QED BY <2>1, <2>2, <4>2, <4>3
    <3> QED BY <3>1, <3>2
  <2>3. CASE b # a
    BY <2>1, <2>3 DEF ReferrersReal
  <2> QED BY <2>2, <2>3
<1>2. IteratorsReal(T)
  BY DEF IteratorsReal
<1>3. ReferencesNoted(T)
  BY DEF ReferencesNoted
<1>4. KnowledgebasesNoted(T)
  BY DEF KnowledgebasesNoted
<1> QED BY <1>1, <1>2, <1>3, <1>4

(***************************************************************************)
(* Setting and removing a logger, knowledgebase or normalizer.             *)
(***************************************************************************)
LEMMA RelinkedIsGood ==
    ASSUME NEW S, Good(S),
           NEW a \in DOMAIN S, S[a] # NULL, S[a].type = OBJ_LEARNING_ALGORITHM,
           NEW type \in Linkable, NEW i \in Ref,
           i # None => i \in DOMAIN S /\ S[i] # NULL /\ S[i].type = type
    PROVE  Good(Relinked(S, a, type, i))
<1> DEFINE T == Relinked(S, a, type, i)
           old == S[a][Member(type)]
<1>1. /\ WellFormed(S) /\ CursorsRight(S)
      /\ ReferrersReal(S) /\ IteratorsReal(S) /\ ReferencesNoted(S) /\ KnowledgebasesNoted(S)
  BY DEF Good
<1>2. \A j \in DOMAIN S : j \in Nat /\ (S[j] # NULL => S[j] \in Objects)
  BY <1>1, SlotFacts
<1>3. old \in Ref /\ a # i /\ old # a
  <2>1. S[a] \in Objects /\ a \in Nat
    BY <1>2
  <2>2. old \in Ref
    BY <2>1, ObjectFields
  <2>3. old # None => S[old].type = type
    BY <1>1 DEF ReferencesNoted
  <2> HIDE DEF old
  <2> QED BY <2>1, <2>2, <2>3 DEF Linkable
<1>4. DOMAIN T = DOMAIN S /\ T = [j \in DOMAIN S |-> T[j]]
  BY DEF Relinked
<1>5. /\ T[a] \in Objects /\ T[a] # NULL
      /\ T[a].type = S[a].type /\ T[a].cursor = S[a].cursor
      /\ T[a].referring_algorithms = S[a].referring_algorithms
      /\ T[a].referring_iterators = S[a].referring_iterators
      /\ T[a][Member(type)] = i
      /\ \A t \in Linkable : t # type => T[a][Member(t)] = S[a][Member(t)]
  <2>1. T[a] = WithMember(S[a], type, i)
    BY DEF Relinked, WithMember
  <2>2. S[a] \in Objects
    BY <1>2
  <2> HIDE DEF T
  <2> QED BY <2>1, <2>2, MemberUpdate
<1>6. \A j \in DOMAIN S : j # a /\ S[j] # NULL =>
        /\ T[j] \in Objects /\ T[j] # NULL
        /\ T[j].type = S[j].type /\ T[j].cursor = S[j].cursor
        /\ T[j].knowledgebase = S[j].knowledgebase
        /\ T[j].referring_iterators = S[j].referring_iterators
        /\ \A t \in Linkable : T[j][Member(t)] = S[j][Member(t)]
        /\ \A b : b \in T[j].referring_algorithms <=>
              \/ b \in S[j].referring_algorithms /\ ~(b = a /\ j = old)
              \/ b = a /\ j = i
  <2> SUFFICES ASSUME NEW j \in DOMAIN S, j # a, S[j] # NULL
               PROVE
        /\ T[j] \in Objects /\ T[j] # NULL
        /\ T[j].type = S[j].type /\ T[j].cursor = S[j].cursor
        /\ T[j].knowledgebase = S[j].knowledgebase
        /\ T[j].referring_iterators = S[j].referring_iterators
        /\ \A t \in Linkable : T[j][Member(t)] = S[j][Member(t)]
        /\ \A b : b \in T[j].referring_algorithms <=>
              \/ b \in S[j].referring_algorithms /\ ~(b = a /\ j = old)
              \/ b = a /\ j = i
    OBVIOUS
  <2>1. S[j] \in Objects /\ S[j].referring_algorithms \in SUBSET Nat /\ a \in Nat
    BY <1>2, ObjectFields
  <2>2. CASE j = i
    <3>1. T[j] = WithReferrers(S[j], S[j].referring_algorithms \cup {a})
      BY <2>2 DEF Relinked, WithReferrers
    <3>2. S[j].referring_algorithms \cup {a} \in SUBSET Nat
      BY <2>1
    <3> HIDE DEF T, old
    <3>3. /\ T[j] \in Objects /\ T[j] # NULL
          /\ T[j].type = S[j].type /\ T[j].cursor = S[j].cursor
          /\ T[j].knowledgebase = S[j].knowledgebase
          /\ T[j].referring_iterators = S[j].referring_iterators
          /\ \A t \in Linkable : T[j][Member(t)] = S[j][Member(t)]
          /\ T[j].referring_algorithms = S[j].referring_algorithms \cup {a}
      BY <2>1, <3>1, <3>2, ReferringUpdate
    <3> QED BY <1>3, <2>2, <3>3
  <2>3. CASE j # i /\ j = old
    <3>1. T[j] = WithReferrers(S[j], S[j].referring_algorithms \ {a})
      BY <2>3 DEF Relinked, WithReferrers
    <3>2. S[j].referring_algorithms \ {a} \in SUBSET Nat
      BY <2>1
    <3> HIDE DEF T, old
    <3> QED BY <2>1, <2>3, <3>1, <3>2, ReferringUpdate
  <2>4. CASE j # i /\ j # old
    <3>1. T[j] = S[j]
      BY <2>4 DEF Relinked
    <3> HIDE DEF T, old
    <3> QED BY <2>1, <2>4, <3>1
  <2> QED BY <2>2, <2>3, <2>4
<1>7. \A j \in DOMAIN S : S[j] = NULL => T[j] = NULL
  <2>1. \A j \in DOMAIN S : S[j] = NULL => j # a /\ j # i /\ j # old
    BY <1>1, <1>2 DEF ReferencesNoted
  <2> QED BY <2>1 DEF Relinked
<1>8. old = S[a][Member(type)]
  OBVIOUS
<1> HIDE DEF T, old
<1>9. WellFormed(T)
  BY <1>1, <1>4, <1>5, <1>6, <1>7, SameSlots
<1>10. ReferrersReal(T) /\ IteratorsReal(T) /\ ReferencesNoted(T) /\ KnowledgebasesNoted(T)
  <2>1. None \notin DOMAIN S
    BY <1>2
  <2> QED
  BY <2>1, <1>1, <1>3, <1>4, <1>5, <1>6, <1>7, <1>8, RelinkedAgree
<1>14. CursorsRight(T)
  BY <1>1, <1>4, <1>5, <1>6, <1>7 DEF CursorsRight
<1>15. Good(T)
  BY <1>9, <1>10, <1>14 DEF Good
<1> QED BY <1>15 DEF T

(***************************************************************************)
(* If T is S without object i, and every object that i referred to or that *)
(* referred to i was told, the references still agree.                     *)
(***************************************************************************)
LEMMA DeletedAgree ==
    ASSUME NEW S, ReferrersReal(S), IteratorsReal(S), ReferencesNoted(S), KnowledgebasesNoted(S),
           CursorsRight(S),
           NEW i \in DOMAIN S, S[i] # NULL,
           NEW T, DOMAIN T = DOMAIN S, T[i] = NULL,
           \A j \in DOMAIN S : j # i /\ S[j] # NULL =>
              /\ T[j] # NULL /\ T[j].type = S[j].type
              /\ \A b : b \in T[j].referring_algorithms <=> b \in S[j].referring_algorithms /\ b # i
              /\ \A b : b \in T[j].referring_iterators <=> b \in S[j].referring_iterators /\ b # i,
           \A j \in DOMAIN S : j # i /\ S[j] # NULL /\ S[j].type = OBJ_LEARNING_ALGORITHM =>
              \A t \in Linkable :
                 T[j][Member(t)] = IF S[j][Member(t)] = i THEN None ELSE S[j][Member(t)],
           \A j \in DOMAIN S : j # i /\ S[j] # NULL /\ S[j].type = OBJ_KNOWLEDGEBASE_ITERATOR =>
              T[j].knowledgebase = IF S[j].knowledgebase = i THEN None ELSE S[j].knowledgebase,
           \A j \in DOMAIN S : j # i /\ S[j] # NULL =>
              \/ T[j].cursor = None
              \/ T[j].cursor = S[j].cursor /\ S[j].cursor # i,
           \A j \in DOMAIN S : S[j] = NULL => T[j] = NULL
    PROVE  /\ ReferrersReal(T) /\ IteratorsReal(T) /\ ReferencesNoted(T) /\ KnowledgebasesNoted(T)
           /\ CursorsRight(T)
<1>1. \A j \in DOMAIN S : T[j] # NULL => j # i /\ S[j] # NULL
  OBVIOUS
<1>2. ReferrersReal(T)
  <2> SUFFICES ASSUME NEW n \in DOMAIN S, NEW b, T[n] # NULL, b \in T[n].referring_algorithms
               PROVE  /\ T[n].type \in Linkable
                      /\ b \in DOMAIN S /\ T[b] # NULL /\ T[b].type = OBJ_LEARNING_ALGORITHM
                      /\ T[b][Member(T[n].type)] = n
    BY DEF ReferrersReal
  <2>1. n # i /\ S[n] # NULL /\ b # i /\ b \in S[n].referring_algorithms /\ T[n].type = S[n].type
    BY <1>1
  <2>2. /\ S[n].type \in Linkable
        /\ b \in DOMAIN S /\ S[b] # NULL /\ S[b].type = OBJ_LEARNING_ALGORITHM
        /\ S[b][Member(S[n].type)] = n
    BY <2>1 DEF ReferrersReal
  <2> QED BY <2>1, <2>2
<1>3. IteratorsReal(T)
  <2> SUFFICES ASSUME NEW n \in DOMAIN S, NEW b, T[n] # NULL, b \in T[n].referring_iterators
               PROVE  /\ T[n].type = OBJ_KNOWLEDGEBASE
                      /\ b \in DOMAIN S /\ T[b] # NULL /\ T[b].type = OBJ_KNOWLEDGEBASE_ITERATOR
                      /\ T[b].knowledgebase = n
    BY DEF IteratorsReal
  <2>1. n # i /\ S[n] # NULL /\ b # i /\ b \in S[n].referring_iterators /\ T[n].type = S[n].type
    BY <1>1
  <2>2. /\ S[n].type = OBJ_KNOWLEDGEBASE
        /\ b \in DOMAIN S /\ S[b] # NULL /\ S[b].type = OBJ_KNOWLEDGEBASE_ITERATOR
        /\ S[b].knowledgebase = n
    BY <2>1 DEF IteratorsReal
  <2> QED BY <2>1, <2>2
<1>4. ReferencesNoted(T)
  <2> SUFFICES ASSUME NEW a \in DOMAIN S, NEW t \in Linkable, NEW n,
                      T[a] # NULL, T[a].type = OBJ_LEARNING_ALGORITHM,
                      n = T[a][Member(t)], n # None
               PROVE  /\ n \in DOMAIN S /\ T[n] # NULL /\ T[n].type = t
                      /\ a \in T[n].referring_algorithms
    BY DEF ReferencesNoted
  <2>1. a # i /\ S[a] # NULL /\ S[a].type = OBJ_LEARNING_ALGORITHM
    BY <1>1
  <2>2. n = S[a][Member(t)] /\ n # i
    BY <2>1
  <2>3. n \in DOMAIN S /\ S[n] # NULL /\ S[n].type = t /\ a \in S[n].referring_algorithms
    BY <2>1, <2>2 DEF ReferencesNoted
  <2> QED BY <2>1, <2>2, <2>3
<1>5. KnowledgebasesNoted(T)
  <2> SUFFICES ASSUME NEW b \in DOMAIN S, NEW n,
                      T[b] # NULL, T[b].type = OBJ_KNOWLEDGEBASE_ITERATOR,
                      n = T[b].knowledgebase, n # None
               PROVE  /\ n \in DOMAIN S /\ T[n] # NULL /\ T[n].type = OBJ_KNOWLEDGEBASE
                      /\ b \in T[n].referring_iterators
    BY DEF KnowledgebasesNoted
  <2>1. b # i /\ S[b] # NULL /\ S[b].type = OBJ_KNOWLEDGEBASE_ITERATOR
    BY <1>1
  <2>2. n = S[b].knowledgebase /\ n # i
    BY <2>1
  <2>3. /\ n \in DOMAIN S /\ S[n] # NULL /\ S[n].type = OBJ_KNOWLEDGEBASE
        /\ b \in S[n].referring_iterators
    BY <2>1, <2>2 DEF KnowledgebasesNoted
  <2> QED BY <2>1, <2>2, <2>3
<1>6. CursorsRight(T)
  <2> SUFFICES ASSUME NEW b \in DOMAIN S, T[b] # NULL, T[b].cursor # None
               PROVE  /\ T[b].type = OBJ_KNOWLEDGEBASE_ITERATOR
                      /\ T[b].cursor = T[b].knowledgebase
    BY DEF CursorsRight
  <2>1. /\ b # i /\ S[b] # NULL /\ T[b].type = S[b].type
        /\ T[b].cursor = S[b].cursor /\ S[b].cursor # i
    BY <1>1
  <2>2. S[b].type = OBJ_KNOWLEDGEBASE_ITERATOR /\ S[b].cursor = S[b].knowledgebase
    BY <2>1 DEF CursorsRight
  <2> QED BY <2>1, <2>2
<1> QED BY <1>2, <1>3, <1>4, <1>5, <1>6

\* Object o, as p, was told that object i goes away.
Told(o, p, i) ==
    /\ p \in Objects /\ p # NULL /\ p.type = o.type
    /\ \A b : b \in p.referring_algorithms <=> b \in o.referring_algorithms /\ b # i
    /\ \A b : b \in p.referring_iterators <=> b \in o.referring_iterators /\ b # i
    /\ o.type = OBJ_LEARNING_ALGORITHM =>
         \A t \in Linkable : p[Member(t)] = IF o[Member(t)] = i THEN None ELSE o[Member(t)]
    /\ o.type = OBJ_KNOWLEDGEBASE_ITERATOR =>
         p.knowledgebase = IF o.knowledgebase = i THEN None ELSE o.knowledgebase
    /\ p.cursor = None \/ (p.cursor = o.cursor /\ o.cursor # i)

(***************************************************************************)
(* The destructor of an object tells every object that has to know.        *)
(***************************************************************************)
LEMMA ReleasedIsTold ==
    ASSUME NEW S, Good(S), NEW i \in DOMAIN S, S[i] # NULL,
           NEW j \in DOMAIN S, j # i, S[j] # NULL
    PROVE  Told(S[j], Released(S, i, j), i)
<1> DEFINE dead == S[i]
           o == S[j]
           p == Released(S, i, j)
<1>1. /\ WellFormed(S) /\ CursorsRight(S)
      /\ ReferrersReal(S) /\ IteratorsReal(S) /\ ReferencesNoted(S) /\ KnowledgebasesNoted(S)
  BY DEF Good
<1>2. /\ i \in Nat /\ j \in Nat /\ dead \in Objects /\ o \in Objects
      /\ o.referring_algorithms \in SUBSET Nat /\ o.referring_iterators \in SUBSET Nat
  BY <1>1, SlotFacts, ObjectFields
<1>3. \A t \in Linkable : o.type = OBJ_LEARNING_ALGORITHM /\ o[Member(t)] = i =>
        dead.type = t /\ j \in dead.referring_algorithms
  BY <1>1, <1>2 DEF ReferencesNoted
<1>4. o.type = OBJ_KNOWLEDGEBASE_ITERATOR /\ o.knowledgebase = i =>
        dead.type = OBJ_KNOWLEDGEBASE /\ j \in dead.referring_iterators
  BY <1>1, <1>2 DEF KnowledgebasesNoted
<1>5. j \in dead.referring_algorithms =>
        /\ dead.type \in Linkable /\ o.type = OBJ_LEARNING_ALGORITHM
        /\ o[Member(dead.type)] = i
  BY <1>1 DEF ReferrersReal
<1>6. j \in dead.referring_iterators =>
        /\ dead.type = OBJ_KNOWLEDGEBASE /\ o.type = OBJ_KNOWLEDGEBASE_ITERATOR
        /\ o.knowledgebase = i
  BY <1>1 DEF IteratorsReal
<1>7. i \in o.referring_algorithms =>
        /\ o.type \in Linkable /\ dead.type = OBJ_LEARNING_ALGORITHM
        /\ j \in {dead.knowledgebase, dead.logger, dead.normalizer}
  BY <1>1 DEF ReferrersReal, Member, Linkable
<1>8. i \in o.referring_iterators =>
        /\ o.type = OBJ_KNOWLEDGEBASE /\ dead.type = OBJ_KNOWLEDGEBASE_ITERATOR
        /\ j = dead.knowledgebase
  BY <1>1 DEF IteratorsReal
<1>9. o.cursor # None => o.type = OBJ_KNOWLEDGEBASE_ITERATOR /\ o.cursor = o.knowledgebase
  BY <1>1 DEF CursorsRight
<1>10. CASE j \in dead.referring_algorithms
  <2>1. p = WithMember(o, dead.type, None)
    BY <1>5, <1>10 DEF Released, WithMember
  <2>2. /\ i \notin o.referring_algorithms /\ i \notin o.referring_iterators
        /\ o.cursor = None
    BY <1>5, <1>7, <1>8, <1>9, <1>10 DEF Linkable
  <2> HIDE DEF p, o, dead
  <2>3. dead.type \in Linkable /\ None \in Ref
    BY <1>5, <1>10 DEF Ref
  <2>4. /\ p \in Objects /\ p # NULL
        /\ p.type = o.type /\ p.cursor = o.cursor
        /\ p.referring_algorithms = o.referring_algorithms
        /\ p.referring_iterators = o.referring_iterators
        /\ p[Member(dead.type)] = None
        /\ \A t \in Linkable : t # dead.type => p[Member(t)] = o[Member(t)]
    BY <1>2, <2>1, <2>3, MemberUpdate
  <2>5. \A t \in Linkable : p[Member(t)] = IF o[Member(t)] = i THEN None ELSE o[Member(t)]
    BY <1>3, <1>5, <1>10, <2>4
  <2> QED BY <1>5, <1>10, <2>2, <2>4, <2>5 DEF Told, o, p, dead
<1>11. CASE j \in dead.referring_iterators
  <2>1. p = WithoutTree(o)
    BY <1>5, <1>6, <1>11 DEF Released, WithoutTree
  <2>2. i \notin o.referring_algorithms /\ i \notin o.referring_iterators
    BY <1>6, <1>7, <1>8, <1>11
  <2> HIDE DEF p, o, dead
  <2>3. /\ p \in Objects /\ p # NULL
        /\ p.type = o.type /\ p.cursor = None /\ p.knowledgebase = None
        /\ p.referring_algorithms = o.referring_algorithms
        /\ p.referring_iterators = o.referring_iterators
    BY <1>2, <2>1, TreeUpdate
  <2> QED BY <1>6, <1>11, <2>2, <2>3 DEF Told, o, p, dead
<1>12. CASE j \notin dead.referring_algorithms /\ j \notin dead.referring_iterators
  <2>1. /\ o.cursor # i
        /\ \A t \in Linkable : o.type = OBJ_LEARNING_ALGORITHM => o[Member(t)] # i
        /\ o.type = OBJ_KNOWLEDGEBASE_ITERATOR => o.knowledgebase # i
    BY <1>2, <1>3, <1>4, <1>9, <1>12
  <2>2. CASE /\ dead.type = OBJ_LEARNING_ALGORITHM
             /\ j \in {dead.knowledgebase, dead.logger, dead.normalizer}
    <3>1. p = WithReferrers(o, o.referring_algorithms \ {i})
      BY <1>12, <2>2 DEF Released, WithReferrers
    <3>2. o.referring_algorithms \ {i} \in SUBSET Nat /\ i \notin o.referring_iterators
      BY <1>2, <1>8, <2>2
    <3> HIDE DEF p, o, dead
    <3>3. /\ p \in Objects /\ p # NULL
          /\ p.type = o.type /\ p.cursor = o.cursor
          /\ p.knowledgebase = o.knowledgebase
          /\ p.referring_iterators = o.referring_iterators
          /\ \A t \in Linkable : p[Member(t)] = o[Member(t)]
          /\ p.referring_algorithms = o.referring_algorithms \ {i}
      BY <1>2, <3>1, <3>2, ReferringUpdate
    <3> QED BY <2>1, <3>2, <3>3 DEF Told, o, p, dead
  <2>3. CASE /\ dead.type = OBJ_KNOWLEDGEBASE_ITERATOR
             /\ j = dead.knowledgebase
    <3>1. p = WithIterators(o, o.referring_iterators \ {i})
      BY <1>12, <2>3 DEF Released, WithIterators
    <3>2. o.referring_iterators \ {i} \in SUBSET Nat /\ i \notin o.referring_algorithms
      BY <1>2, <1>7, <2>3
    <3> HIDE DEF p, o, dead
    <3>3. /\ p \in Objects /\ p # NULL
          /\ p.type = o.type /\ p.cursor = o.cursor
          /\ p.knowledgebase = o.knowledgebase
          /\ p.referring_algorithms = o.referring_algorithms
          /\ \A t \in Linkable : p[Member(t)] = o[Member(t)]
          /\ p.referring_iterators = o.referring_iterators \ {i}
      BY <1>2, <3>1, <3>2, IteratorsUpdate
    <3> QED BY <2>1, <3>2, <3>3 DEF Told, o, p, dead
  <2>4. CASE /\ ~(/\ dead.type = OBJ_LEARNING_ALGORITHM
                  /\ j \in {dead.knowledgebase, dead.logger, dead.normalizer})
             /\ ~(dead.type = OBJ_KNOWLEDGEBASE_ITERATOR /\ j = dead.knowledgebase)
    <3>1. p = o
      BY <1>12, <2>1, <2>4 DEF Released
    <3>2. i \notin o.referring_algorithms /\ i \notin o.referring_iterators
      BY <1>7, <1>8, <2>4
    <3> HIDE DEF p, o, dead
    <3> QED BY <1>2, <2>1, <3>1, <3>2 DEF Told, o, p, dead
  <2> QED BY <2>2, <2>3, <2>4
<1> QED BY <1>10, <1>11, <1>12

(***************************************************************************)
(* Deleting an object.                                                     *)
(***************************************************************************)
LEMMA DeletedIsGood ==
    ASSUME NEW S, Good(S), NEW i \in DOMAIN S, S[i] # NULL
    PROVE  Good(Deleted(S, i))
<1> DEFINE T == Deleted(S, i)
<1>1. /\ WellFormed(S) /\ CursorsRight(S)
      /\ ReferrersReal(S) /\ IteratorsReal(S) /\ ReferencesNoted(S) /\ KnowledgebasesNoted(S)
  BY DEF Good
<1>2. DOMAIN T = DOMAIN S /\ T = [j \in DOMAIN S |-> T[j]] /\ T[i] = NULL
  BY DEF Deleted
<1>3. \A j \in DOMAIN S : j # i /\ S[j] # NULL => Told(S[j], T[j], i)
  BY ReleasedIsTold DEF Deleted
<1>4. \A j \in DOMAIN S : S[j] = NULL => T[j] = NULL
  <2> SUFFICES ASSUME NEW j \in DOMAIN S, S[j] = NULL PROVE T[j] = NULL
    OBVIOUS
  <2>1. j \notin S[i].referring_algorithms /\ j \notin S[i].referring_iterators
    BY <1>1 DEF ReferrersReal, IteratorsReal
  <2> QED BY <2>1 DEF Deleted, Released
<1> HIDE DEF T
<1>5. WellFormed(T)
  BY <1>1, <1>2, <1>3, <1>4, SameSlots DEF Told
<1>6. /\ ReferrersReal(T) /\ IteratorsReal(T) /\ ReferencesNoted(T) /\ KnowledgebasesNoted(T)
      /\ CursorsRight(T)
  BY <1>1, <1>2, <1>3, <1>4, DeletedAgree DEF Told
<1>7. Good(T)
  BY <1>5, <1>6 DEF Good
<1> QED BY <1>7 DEF T

-----------------------------------------------------------------------------
(* New objects.                                                              *)

(***************************************************************************)
(* A new object that refers to nothing.                                    *)
(***************************************************************************)
LEMMA StoredIsGood ==
    ASSUME NEW S, Good(S), NEW o \in Objects,
           o.referring_algorithms = {}, o.referring_iterators = {}, o.cursor = None,
           o.knowledgebase = None, \A t \in Linkable : o[Member(t)] = None
    PROVE  Good(store_object(S, o))
<1> DEFINE n == NextSlot(S)
           T == store_object(S, o)
<1>1. /\ WellFormed(S) /\ CursorsRight(S)
      /\ ReferrersReal(S) /\ IteratorsReal(S) /\ ReferencesNoted(S) /\ KnowledgebasesNoted(S)
  BY DEF Good
<1>2. /\ n \in Nat
      /\ n \in DOMAIN S => S[n] = NULL
      /\ \E m \in Nat : DOMAIN S \cup {n} = 0..(m - 1)
  BY <1>1, NextSlotIsFree
<1>3. /\ T = [j \in DOMAIN S \cup {n} |-> T[j]]
      /\ T[n] = o
      /\ \A j \in DOMAIN S : j # n => T[j] = S[j]
  BY DEF store_object
<1>4. \A j \in DOMAIN S : S[j] \in Objects \cup {NULL}
  BY <1>1, SlotFacts
<1>5. o # NULL
  BY ObjectFields
<1> HIDE DEF T, n
<1>6. WellFormed(T)
  <2>1. PICK m \in Nat : DOMAIN S \cup {n} = 0..(m - 1)
    BY <1>2
  <2>2. \A j \in 0..(m - 1) : T[j] \in Objects \cup {NULL}
    BY <1>3, <1>4, <2>1
  <2>3. T \in [0..(m - 1) -> Objects \cup {NULL}]
    BY <1>3, <2>1, <2>2
  <2> QED BY <2>3 DEF WellFormed
<1>7. DOMAIN T = DOMAIN S \cup {n}
  BY <1>3
<1>8. \A j : j \in DOMAIN S /\ S[j] # NULL => j # n /\ T[j] = S[j] /\ j \in DOMAIN T
  BY <1>2, <1>3, <1>7
<1>9. \A j : j \in DOMAIN T /\ T[j] # NULL /\ j # n => j \in DOMAIN S /\ S[j] # NULL /\ T[j] = S[j]
  BY <1>3, <1>7
<1>10. ReferrersReal(T)
  <2> SUFFICES ASSUME NEW i, NEW b, i \in DOMAIN T, T[i] # NULL, b \in T[i].referring_algorithms
               PROVE  /\ T[i].type \in Linkable
                      /\ b \in DOMAIN T /\ T[b] # NULL /\ T[b].type = OBJ_LEARNING_ALGORITHM
                      /\ T[b][Member(T[i].type)] = i
    BY DEF ReferrersReal
  <2>1. i \in DOMAIN S /\ S[i] # NULL /\ T[i] = S[i]
    BY <1>3, <1>9
  <2> QED BY <1>1, <1>8, <2>1 DEF ReferrersReal
<1>11. IteratorsReal(T)
  <2> SUFFICES ASSUME NEW i, NEW b, i \in DOMAIN T, T[i] # NULL, b \in T[i].referring_iterators
               PROVE  /\ T[i].type = OBJ_KNOWLEDGEBASE
                      /\ b \in DOMAIN T /\ T[b] # NULL /\ T[b].type = OBJ_KNOWLEDGEBASE_ITERATOR
                      /\ T[b].knowledgebase = i
    BY DEF IteratorsReal
  <2>1. i \in DOMAIN S /\ S[i] # NULL /\ T[i] = S[i]
    BY <1>3, <1>9
  <2> QED BY <1>1, <1>8, <2>1 DEF IteratorsReal
<1>12. ReferencesNoted(T)
  <2> SUFFICES ASSUME NEW a, NEW t \in Linkable, NEW i, a \in DOMAIN T, T[a] # NULL,
                      T[a].type = OBJ_LEARNING_ALGORITHM, i = T[a][Member(t)], i # None
               PROVE  /\ i \in DOMAIN T /\ T[i] # NULL /\ T[i].type = t
                      /\ a \in T[i].referring_algorithms
    BY DEF ReferencesNoted
  <2>1. a \in DOMAIN S /\ S[a] # NULL /\ T[a] = S[a]
    BY <1>3, <1>9
  <2>2. i \in DOMAIN S /\ S[i] # NULL /\ S[i].type = t /\ a \in S[i].referring_algorithms
    BY <1>1, <2>1 DEF ReferencesNoted
  <2> QED BY <1>8, <2>2
<1>13. KnowledgebasesNoted(T)
  <2> SUFFICES ASSUME NEW b, NEW i, b \in DOMAIN T, T[b] # NULL,
                      T[b].type = OBJ_KNOWLEDGEBASE_ITERATOR, i = T[b].knowledgebase, i # None
               PROVE  /\ i \in DOMAIN T /\ T[i] # NULL /\ T[i].type = OBJ_KNOWLEDGEBASE
                      /\ b \in T[i].referring_iterators
    BY DEF KnowledgebasesNoted
  <2>1. b \in DOMAIN S /\ S[b] # NULL /\ T[b] = S[b]
    BY <1>3, <1>9
  <2>2. /\ i \in DOMAIN S /\ S[i] # NULL /\ S[i].type = OBJ_KNOWLEDGEBASE
        /\ b \in S[i].referring_iterators
    BY <1>1, <2>1 DEF KnowledgebasesNoted
  <2> QED BY <1>8, <2>2
<1>14. CursorsRight(T)
  BY <1>1, <1>3, <1>9 DEF CursorsRight
<1>15. Good(T)
  BY <1>6, <1>10, <1>11, <1>12, <1>13, <1>14 DEF Good
<1> QED BY <1>15 DEF T

(***************************************************************************)
(* create_object_*() makes an object that refers to nothing.               *)
(***************************************************************************)
LEMMA CreatedIsGood ==
    ASSUME NEW S, Good(S), NEW type \in ObjectTypes
    PROVE  Good(store_object(S, NewObject(type)))
<1> DEFINE o == NewObject(type)
<1>1. /\ o \in Objects
      /\ o.referring_algorithms = {} /\ o.referring_iterators = {} /\ o.cursor = None
      /\ o.knowledgebase = None /\ \A t \in Linkable : o[Member(t)] = None
  BY DEF NewObject, Objects, Linkable, Member
<1> HIDE DEF o
<1>2. Good(store_object(S, o))
  BY <1>1, StoredIsGood
<1> QED BY <1>2 DEF o

\* A new iterator of knowledgebase k, at c.
Iterated(S, k, c) ==
    [store_object(S, [NewObject(OBJ_KNOWLEDGEBASE_ITERATOR)
                        EXCEPT !.knowledgebase = k, !.cursor = c])
        EXCEPT ![k].referring_iterators = @ \cup {NextSlot(S)}]

(***************************************************************************)
(* A new iterator is noted by its knowledgebase.                           *)
(***************************************************************************)
LEMMA IteratedIsGood ==
    ASSUME NEW S, Good(S), NEW k \in DOMAIN S, S[k] # NULL, S[k].type = OBJ_KNOWLEDGEBASE,
           NEW c \in {None, k}
    PROVE  Good(Iterated(S, k, c))
<1> DEFINE n == NextSlot(S)
           T == Iterated(S, k, c)
           o == [NewObject(OBJ_KNOWLEDGEBASE_ITERATOR) EXCEPT !.knowledgebase = k, !.cursor = c]
<1>1. /\ WellFormed(S) /\ CursorsRight(S)
      /\ ReferrersReal(S) /\ IteratorsReal(S) /\ ReferencesNoted(S) /\ KnowledgebasesNoted(S)
  BY DEF Good
<1>2. /\ n \in Nat
      /\ n \in DOMAIN S => S[n] = NULL
      /\ \E m \in Nat : DOMAIN S \cup {n} = 0..(m - 1)
  BY <1>1, NextSlotIsFree
<1>3. k \in Nat /\ k # n /\ \A j \in DOMAIN S : S[j] \in Objects \cup {NULL}
  BY <1>1, <1>2, SlotFacts
<1>4. /\ o \in Objects /\ o.type = OBJ_KNOWLEDGEBASE_ITERATOR
      /\ o.referring_algorithms = {} /\ o.referring_iterators = {} /\ o.cursor = c
      /\ o.knowledgebase = k
  BY <1>3 DEF NewObject, Objects
<1> HIDE DEF o
<1>5. /\ T = [j \in DOMAIN S \cup {n} |-> T[j]]
      /\ T[n] = o
      /\ T[k] = WithIterators(S[k], S[k].referring_iterators \cup {n})
      /\ \A j \in DOMAIN S : j # n /\ j # k => T[j] = S[j]
  <2> DEFINE U == store_object(S, o)
  <2>1. /\ U = [j \in DOMAIN S \cup {n} |-> U[j]] /\ U[n] = o
        /\ \A j \in DOMAIN S : j # n => U[j] = S[j]
    BY DEF store_object
  <2>2. T = [U EXCEPT ![k].referring_iterators = @ \cup {n}]
    BY DEF Iterated, o
  <2> HIDE DEF U, n, T
  <2> QED BY <1>3, <2>1, <2>2 DEF WithIterators
<1>6. o # NULL /\ S[k].referring_iterators \cup {n} \in SUBSET Nat
  BY <1>2, <1>3, <1>4, ObjectFields
<1> HIDE DEF T, n
<1>7. /\ T[k] \in Objects /\ T[k] # NULL
      /\ T[k].type = S[k].type /\ T[k].cursor = S[k].cursor
      /\ T[k].referring_algorithms = S[k].referring_algorithms
      /\ T[k].referring_iterators = S[k].referring_iterators \cup {n}
  BY <1>3, <1>5, <1>6, IteratorsUpdate
<1>8. WellFormed(T)
  <2>1. PICK m \in Nat : DOMAIN S \cup {n} = 0..(m - 1)
    BY <1>2
  <2>2. \A j \in 0..(m - 1) : T[j] \in Objects \cup {NULL}
    BY <1>3, <1>4, <1>5, <1>7, <2>1
  <2>3. T \in [0..(m - 1) -> Objects \cup {NULL}]
    BY <1>5, <2>1, <2>2
  <2> QED BY <2>3 DEF WellFormed
<1>9. DOMAIN T = DOMAIN S \cup {n}
  BY <1>5
<1>10. \A j : j \in DOMAIN S /\ S[j] # NULL =>
         /\ j # n /\ j \in DOMAIN T /\ T[j] # NULL /\ T[j].type = S[j].type
         /\ T[j].referring_algorithms = S[j].referring_algorithms
         /\ \A b : b \in S[j].referring_iterators => b \in T[j].referring_iterators
         /\ j # k => T[j] = S[j]
  BY <1>2, <1>5, <1>7, <1>9
<1>11. \A j : j \in DOMAIN T /\ T[j] # NULL /\ j # n =>
         j \in DOMAIN S /\ S[j] # NULL /\ (j # k => T[j] = S[j])
  BY <1>3, <1>5, <1>9
<1>12. ReferrersReal(T)
  <2> SUFFICES ASSUME NEW i, NEW b, i \in DOMAIN T, T[i] # NULL, b \in T[i].referring_algorithms
               PROVE  /\ T[i].type \in Linkable
                      /\ b \in DOMAIN T /\ T[b] # NULL /\ T[b].type = OBJ_LEARNING_ALGORITHM
                      /\ T[b][Member(T[i].type)] = i
    BY DEF ReferrersReal
  <2>1. i # n
    BY <1>4, <1>5
  <2>2. i \in DOMAIN S /\ S[i] # NULL /\ T[i].type = S[i].type /\ b \in S[i].referring_algorithms
    BY <1>10, <1>11, <2>1
  <2>3. /\ S[i].type \in Linkable
        /\ b \in DOMAIN S /\ S[b] # NULL /\ S[b].type = OBJ_LEARNING_ALGORITHM
        /\ S[b][Member(S[i].type)] = i
    BY <1>1, <2>2 DEF ReferrersReal
  <2> QED BY <1>10, <2>2, <2>3
<1>13. IteratorsReal(T)
  <2> SUFFICES ASSUME NEW i, NEW b, i \in DOMAIN T, T[i] # NULL, b \in T[i].referring_iterators
               PROVE  /\ T[i].type = OBJ_KNOWLEDGEBASE
                      /\ b \in DOMAIN T /\ T[b] # NULL /\ T[b].type = OBJ_KNOWLEDGEBASE_ITERATOR
                      /\ T[b].knowledgebase = i
    BY DEF IteratorsReal
  <2>1. i # n
    BY <1>4, <1>5
  <2>2. i \in DOMAIN S /\ S[i] # NULL /\ T[i].type = S[i].type
    BY <1>10, <1>11, <2>1
  <2>3. CASE i = k /\ b = n
    BY <1>4, <1>5, <1>6, <1>9, <2>2, <2>3
  <2>4. CASE ~(i = k /\ b = n)
    <3>1. b \in S[i].referring_iterators
      BY <1>7, <1>10, <2>2, <2>4
    <3>2. /\ S[i].type = OBJ_KNOWLEDGEBASE
          /\ b \in DOMAIN S /\ S[b] # NULL /\ S[b].type = OBJ_KNOWLEDGEBASE_ITERATOR
          /\ S[b].knowledgebase = i
      BY <1>1, <2>2, <3>1 DEF IteratorsReal
    <3> QED BY <1>10, <2>2, <3>2
  <2> QED BY <2>3, <2>4
<1>14. ReferencesNoted(T)
  <2> SUFFICES ASSUME NEW a, NEW t \in Linkable, NEW i, a \in DOMAIN T, T[a] # NULL,
                      T[a].type = OBJ_LEARNING_ALGORITHM, i = T[a][Member(t)], i # None
               PROVE  /\ i \in DOMAIN T /\ T[i] # NULL /\ T[i].type = t
                      /\ a \in T[i].referring_algorithms
    BY DEF ReferencesNoted
  <2>1. a \in DOMAIN S /\ S[a] # NULL /\ T[a] = S[a]
    BY <1>4, <1>5, <1>7, <1>11
  <2>2. i \in DOMAIN S /\ S[i] # NULL /\ S[i].type = t /\ a \in S[i].referring_algorithms
    BY <1>1, <2>1 DEF ReferencesNoted
  <2> QED BY <1>10, <2>2
<1>15. KnowledgebasesNoted(T)
  <2> SUFFICES ASSUME NEW b, NEW i, b \in DOMAIN T, T[b] # NULL,
                      T[b].type = OBJ_KNOWLEDGEBASE_ITERATOR, i = T[b].knowledgebase, i # None
               PROVE  /\ i \in DOMAIN T /\ T[i] # NULL /\ T[i].type = OBJ_KNOWLEDGEBASE
                      /\ b \in T[i].referring_iterators
    BY DEF KnowledgebasesNoted
  <2>1. CASE b = n
    BY <1>4, <1>5, <1>7, <1>9, <2>1
  <2>2. CASE b # n
    <3>1. b \in DOMAIN S /\ S[b] # NULL /\ T[b] = S[b]
      BY <1>7, <1>11, <2>2
    <3>2. /\ i \in DOMAIN S /\ S[i] # NULL /\ S[i].type = OBJ_KNOWLEDGEBASE
          /\ b \in S[i].referring_iterators
      BY <1>1, <3>1 DEF KnowledgebasesNoted
    <3> QED BY <1>10, <3>2
  <2> QED BY <2>1, <2>2
<1>16. CursorsRight(T)
  <2> SUFFICES ASSUME NEW t, t \in DOMAIN T, T[t] # NULL, T[t].cursor # None
               PROVE  /\ T[t].type = OBJ_KNOWLEDGEBASE_ITERATOR
                      /\ T[t].cursor = T[t].knowledgebase
    BY DEF CursorsRight
  <2>1. CASE t = n
    BY <1>4, <1>5, <2>1
  <2>2. CASE t # n
    <3>1. t # k
      BY <1>1, <1>7 DEF CursorsRight
    <3> QED BY <1>1, <1>11, <2>2, <3>1 DEF CursorsRight
  <2> QED BY <2>1, <2>2
<1>17. Good(T)
  BY <1>8, <1>12, <1>13, <1>14, <1>15, <1>16 DEF Good
<1> QED BY <1>17 DEF T

(***************************************************************************)
(* An iterator that is moved within the tree of its knowledgebase, or out  *)
(* of it.                                                                  *)
(***************************************************************************)
LEMMA MovedIsGood ==
    ASSUME NEW S, Good(S), NEW t \in DOMAIN S, S[t] # NULL,
           S[t].type = OBJ_KNOWLEDGEBASE_ITERATOR,
           NEW c, c \in {None, S[t].knowledgebase}
    PROVE  Good([S EXCEPT ![t].cursor = c])
<1> DEFINE T == [S EXCEPT ![t].cursor = c]
<1>1. /\ WellFormed(S) /\ CursorsRight(S)
      /\ ReferrersReal(S) /\ IteratorsReal(S) /\ ReferencesNoted(S) /\ KnowledgebasesNoted(S)
  BY DEF Good
<1>2. \A j \in DOMAIN S : S[j] \in Objects \cup {NULL}
  BY <1>1, SlotFacts
<1>3. S[t] \in Objects /\ c \in Ref \cup {Freed}
  BY <1>2, ObjectFields DEF Ref
<1>4. /\ T = [j \in DOMAIN S |-> T[j]] /\ DOMAIN T = DOMAIN S
      /\ T[t] = WithCursor(S[t], c)
      /\ \A j \in DOMAIN S : j # t => T[j] = S[j]
  BY DEF WithCursor
<1> HIDE DEF T
<1>5. /\ T[t] \in Objects /\ T[t] # NULL
      /\ T[t].type = S[t].type /\ T[t].cursor = c
      /\ T[t].knowledgebase = S[t].knowledgebase
      /\ T[t].referring_algorithms = S[t].referring_algorithms
      /\ T[t].referring_iterators = S[t].referring_iterators
  BY <1>3, <1>4, CursorUpdate
<1>6. WellFormed(T)
  BY <1>1, <1>2, <1>4, <1>5, SameSlots
<1>7. ReferrersReal(T)
  BY <1>1, <1>4, <1>5 DEF ReferrersReal
<1>8. IteratorsReal(T)
  BY <1>1, <1>4, <1>5 DEF IteratorsReal
<1>9. ReferencesNoted(T)
  BY <1>1, <1>4, <1>5 DEF ReferencesNoted
<1>10. KnowledgebasesNoted(T)
  BY <1>1, <1>4, <1>5 DEF KnowledgebasesNoted
<1>11. CursorsRight(T)
  BY <1>1, <1>4, <1>5 DEF CursorsRight
<1>12. Good(T)
  BY <1>6, <1>7, <1>8, <1>9, <1>10, <1>11 DEF Good
<1> QED BY <1>12 DEF T

-----------------------------------------------------------------------------
(* The commands that set and remove references.                              *)

\* T is a table of the same slots as S.
SlotsOf(S, T) == T = [j \in DOMAIN S |-> T[j]]

\* The object o when it was told that a refers to it, or that it no longer does.
Noted(o, a) == [o EXCEPT !.referring_algorithms = @ \cup {a}]
Unnoted(o, a) == [o EXCEPT !.referring_algorithms = @ \ {a}]

(***************************************************************************)
(* To know the slots one by one is to know them.                           *)
(***************************************************************************)
LEMMA SlotBySlot ==
    ASSUME NEW S, NEW a \in DOMAIN S, NEW type \in Linkable, NEW i,
           NEW old, old = S[a][Member(type)], NEW T, SlotsOf(S, T),
           T[a] = WithMember(S[a], type, i),
           i # a /\ i \in DOMAIN S =>
              T[i] = Noted(S[i], a),
           old # a /\ old # i /\ old \in DOMAIN S =>
              T[old] = Unnoted(S[old], a),
           \A j \in DOMAIN S : j # a /\ j # i /\ j # old => T[j] = S[j]
    PROVE  T = Relinked(S, a, type, i)
<1>1. \A j \in DOMAIN S : T[j] = Relinked(S, a, type, i)[j]
  BY DEF Relinked, WithMember, Noted, Unnoted
<1>2. Relinked(S, a, type, i) = [j \in DOMAIN S |-> Relinked(S, a, type, i)[j]]
  BY DEF Relinked
<1> QED BY <1>1, <1>2 DEF SlotsOf

(***************************************************************************)
(* What an algorithm refers to, and that it is another object.             *)
(***************************************************************************)
LEMMA OldReference ==
    ASSUME NEW S, Good(S), NEW a \in DOMAIN S, S[a] # NULL,
           S[a].type = OBJ_LEARNING_ALGORITHM, NEW type \in Linkable
    PROVE  LET old == S[a][Member(type)] IN
           /\ old \in Ref /\ a \in Nat /\ old # a
           /\ old # None => old \in DOMAIN S /\ S[old] # NULL /\ S[old].type = type
<1> DEFINE old == S[a][Member(type)]
<1>1. WellFormed(S) /\ ReferencesNoted(S)
  BY DEF Good
<1>2. a \in Nat /\ S[a] \in Objects
  BY <1>1, SlotFacts
<1>3. old \in Ref
  BY <1>2, ObjectFields
<1>4. old # None => old \in DOMAIN S /\ S[old] # NULL /\ S[old].type = type
  BY <1>1 DEF ReferencesNoted
<1> HIDE DEF old
<1>5. old # a
  BY <1>2, <1>4 DEF Linkable
<1>6. /\ old \in Ref /\ a \in Nat /\ old # a
      /\ old # None => old \in DOMAIN S /\ S[old] # NULL /\ S[old].type = type
  BY <1>2, <1>3, <1>4, <1>5
<1> QED BY <1>6 DEF old

(***************************************************************************)
(* Removing the logger or the normalizer.                                  *)
(***************************************************************************)
LEMMA RemovedIsGood ==
    ASSUME NEW S, Good(S), NEW a \in DOMAIN S, S[a] # NULL,
           S[a].type = OBJ_LEARNING_ALGORITHM, NEW type \in Linkable,
           S[a][Member(type)] # None
    PROVE  Good(derefer(Dereferred(S, S[a][Member(type)], a), a, Member(type)))
<1> DEFINE old == S[a][Member(type)]
           U == [S EXCEPT ![old].referring_algorithms = @ \ {a}]
           T == derefer(Dereferred(S, old, a), a, Member(type))
<1>1. old \in DOMAIN S /\ old # a /\ old # None /\ a \in Nat
  BY OldReference
<1>2. S = [j \in DOMAIN S |-> S[j]]
  BY DEF Good, WellFormed
<1>3. T = [U EXCEPT ![a][Member(type)] = None]
  BY <1>1 DEF derefer, Dereferred
<1> HIDE DEF T, old
<1>4. /\ U = [j \in DOMAIN S |-> U[j]] /\ U[a] = S[a]
      /\ U[old] = [S[old] EXCEPT !.referring_algorithms = @ \ {a}]
      /\ \A j \in DOMAIN S : j # old => U[j] = S[j]
  BY <1>1, <1>2
<1> HIDE DEF U
<1>5. /\ T = [j \in DOMAIN S |-> T[j]]
      /\ T[a] = [S[a] EXCEPT ![Member(type)] = None]
      /\ \A j \in DOMAIN S : j # a => T[j] = U[j]
  BY <1>1, <1>3, <1>4
<1>6. None \notin DOMAIN S
  BY SlotFacts DEF Good
<1>7. T = Relinked(S, a, type, None)
  <2>1. old = S[a][Member(type)]
    BY DEF old
  <2>2. T[old] = Unnoted(S[old], a)
    BY <1>1, <1>4, <1>5 DEF Noted, Unnoted
  <2>3. \A j \in DOMAIN S : j # a /\ j # old => T[j] = S[j]
    BY <1>4, <1>5
  <2>4. T[a] = WithMember(S[a], type, None) /\ SlotsOf(S, T)
    BY <1>5 DEF WithMember, SlotsOf
  <2> QED BY <1>6, <2>1, <2>2, <2>3, <2>4, SlotBySlot
<1>8. Good(Relinked(S, a, type, None))
  BY RelinkedIsGood DEF Ref
<1>9. Good(T)
  BY <1>7, <1>8
<1> QED BY <1>9 DEF T, old

(***************************************************************************)
(* Setting the logger or the knowledgebase, to the same one as before too. *)
(***************************************************************************)
LEMMA AssociatedIsGood ==
    ASSUME NEW S, Good(S), NEW a \in DOMAIN S, S[a] # NULL,
           S[a].type = OBJ_LEARNING_ALGORITHM, NEW type \in Linkable,
           NEW i \in DOMAIN S, S[i] # NULL, S[i].type = type
    PROVE  Good(Referred(refer(S, a, Member(type), i), i, a))
<1> DEFINE old == S[a][Member(type)]
           D == Dereferred(S, old, a)
           U == [D EXCEPT ![a][Member(type)] = i]
           T == [U EXCEPT ![i].referring_algorithms = @ \cup {a}]
<1>1. /\ old \in Ref /\ old # a /\ a \in Nat
      /\ old # None => old \in DOMAIN S
  BY OldReference
<1>2. S = [j \in DOMAIN S |-> S[j]] /\ i # a /\ i \in Ref
  BY SlotFacts DEF Good, WellFormed, Linkable, Ref
<1>3. T = Referred(refer(S, a, Member(type), i), i, a)
  BY DEF Referred, refer
<1>4. old = S[a][Member(type)]
  OBVIOUS
<1> HIDE DEF old
<1>5. /\ D = [j \in DOMAIN S |-> D[j]] /\ D[a] = S[a]
      /\ old # None => D[old] = [S[old] EXCEPT !.referring_algorithms = @ \ {a}]
      /\ \A j \in DOMAIN S : j # old => D[j] = S[j]
  BY <1>1, <1>2 DEF Dereferred
<1> HIDE DEF D
<1>6. /\ U = [j \in DOMAIN S |-> U[j]]
      /\ U[a] = [S[a] EXCEPT ![Member(type)] = i]
      /\ \A j \in DOMAIN S : j # a => U[j] = D[j]
  BY <1>5
<1> HIDE DEF U
<1>7. /\ T = [j \in DOMAIN S |-> T[j]]
      /\ T[i] = [U[i] EXCEPT !.referring_algorithms = @ \cup {a}]
      /\ \A j \in DOMAIN S : j # i => T[j] = U[j]
  BY <1>6
<1> HIDE DEF T
<1>8. T[i] = [S[i] EXCEPT !.referring_algorithms = @ \cup {a}]
  <2>1. CASE i # old
    BY <1>2, <1>5, <1>6, <1>7, <2>1
  <2>2. CASE i = old
    <3>1. U[i] = [S[i] EXCEPT !.referring_algorithms = @ \ {a}] /\ S[i] \in Objects
      BY <1>2, <1>5, <1>6, <2>2, SlotFacts DEF Good, Ref
    <3>2. T[i] = [[S[i] EXCEPT !.referring_algorithms = @ \ {a}]
                    EXCEPT !.referring_algorithms = @ \cup {a}]
      BY <1>7, <3>1
    <3>3. (S[i].referring_algorithms \ {a}) \cup {a} = S[i].referring_algorithms \cup {a}
      OBVIOUS
    <3> QED BY <3>1, <3>2, <3>3 DEF Objects
  <2> QED BY <2>1, <2>2
<1>9. None \notin DOMAIN S
  BY SlotFacts DEF Good
<1>10. T = Relinked(S, a, type, i)
  <2>1. old # a /\ old # i /\ old \in DOMAIN S =>
          T[old] = Unnoted(S[old], a)
    BY <1>5, <1>6, <1>7, <1>9 DEF Noted, Unnoted
  <2>2. \A j \in DOMAIN S : j # a /\ j # i /\ j # old => T[j] = S[j]
    BY <1>5, <1>6, <1>7
  <2>3. T[a] = WithMember(S[a], type, i) /\ SlotsOf(S, T)
    BY <1>2, <1>6, <1>7 DEF WithMember, SlotsOf
  <2>4. T[i] = Noted(S[i], a)
    BY <1>8 DEF Noted, Unnoted
  <2> QED BY <1>4, <2>1, <2>2, <2>3, <2>4, SlotBySlot
<1>11. Good(Relinked(S, a, type, i))
  BY <1>2, RelinkedIsGood
<1> QED BY <1>3, <1>10, <1>11

(***************************************************************************)
(* Setting another normalizer: it is told first.                           *)
(***************************************************************************)
LEMMA NormalizedIsGood ==
    ASSUME NEW S, Good(S), NEW a \in DOMAIN S, S[a] # NULL,
           S[a].type = OBJ_LEARNING_ALGORITHM, NEW type \in Linkable,
           NEW i \in DOMAIN S, S[i] # NULL, S[i].type = type,
           S[a][Member(type)] # i
    PROVE  Good(refer(Referred(S, i, a), a, Member(type), i))
<1> DEFINE old == S[a][Member(type)]
           R == Referred(S, i, a)
           D == Dereferred(R, old, a)
           T == [D EXCEPT ![a][Member(type)] = i]
<1>1. /\ old \in Ref /\ old # a /\ a \in Nat
      /\ old # None => old \in DOMAIN S
  BY OldReference
<1>2. S = [j \in DOMAIN S |-> S[j]] /\ i # a /\ i \in Ref
  BY SlotFacts DEF Good, WellFormed, Linkable, Ref
<1>3. /\ R = [j \in DOMAIN S |-> R[j]] /\ R[a] = S[a]
      /\ R[i] = [S[i] EXCEPT !.referring_algorithms = @ \cup {a}]
      /\ \A j \in DOMAIN S : j # i => R[j] = S[j]
  BY <1>2 DEF Referred
<1> HIDE DEF R
<1>4. T = refer(R, a, Member(type), i)
  BY <1>3 DEF refer
<1>5. old = S[a][Member(type)] /\ old # i
  OBVIOUS
<1> HIDE DEF old
<1>6. /\ D = [j \in DOMAIN S |-> D[j]] /\ D[a] = S[a]
      /\ D[i] = R[i]
      /\ old # None => D[old] = [S[old] EXCEPT !.referring_algorithms = @ \ {a}]
      /\ \A j \in DOMAIN S : j # old => D[j] = R[j]
  BY <1>1, <1>2, <1>3, <1>5 DEF Dereferred
<1> HIDE DEF D
<1>7. /\ T = [j \in DOMAIN S |-> T[j]]
      /\ T[a] = [S[a] EXCEPT ![Member(type)] = i]
      /\ \A j \in DOMAIN S : j # a => T[j] = D[j]
  BY <1>6
<1> HIDE DEF T
<1>8. None \notin DOMAIN S
  BY SlotFacts DEF Good
<1>9. T = Relinked(S, a, type, i)
  <2>1. old # a /\ old # i /\ old \in DOMAIN S =>
          T[old] = Unnoted(S[old], a)
    BY <1>6, <1>7, <1>8 DEF Noted, Unnoted
  <2>2. \A j \in DOMAIN S : j # a /\ j # i /\ j # old => T[j] = S[j]
    BY <1>3, <1>6, <1>7
  <2>3. T[i] = Noted(S[i], a)
    BY <1>2, <1>3, <1>6, <1>7 DEF Noted, Unnoted
  <2>4. T[a] = WithMember(S[a], type, i) /\ SlotsOf(S, T)
    BY <1>7 DEF WithMember, SlotsOf
  <2> QED BY <1>5, <2>1, <2>2, <2>3, <2>4, SlotBySlot
<1>10. Good(Relinked(S, a, type, i))
  BY <1>2, RelinkedIsGood
<1> QED BY <1>4, <1>9, <1>10 DEF R

-----------------------------------------------------------------------------
(* Outcomes of commands.                                                     *)

AllGood(outcomes) == \A o \in outcomes : Good(o.objects)

(***************************************************************************)
(* Replies and crashes that leave the objects as they are.                 *)
(***************************************************************************)
LEMMA RepliesGood ==
    ASSUME NEW S, Good(S)
    PROVE  /\ \A replies : AllGood(Sent(S, replies))
           /\ \A code : AllGood(Errno(S, code))
           /\ AllGood(Success(S)) /\ AllGood(SuccessWithBool(S)) /\ AllGood(SuccessWithData(S))
           /\ AllGood(Crash(S))
<1>1. \A replies : AllGood(Sent(S, replies))
  BY DEF AllGood, Sent
<1>2. AllGood(Crash(S))
  BY DEF AllGood, Crash
<1> QED BY <1>1, <1>2 DEF Errno, Success, SuccessWithBool, SuccessWithData

(***************************************************************************)
(* Commands that check their parameters first.                             *)
(***************************************************************************)
LEMMA CheckedGood ==
    ASSUME NEW S, Good(S), NEW args, NEW outcomes
    PROVE  /\ AllGood(outcomes) => AllGood(WithoutParameters(S, args, outcomes))
           /\ \A type :
                (Len(args) = 1 /\ args[1] \in DOMAIN S /\ S[args[1]] # NULL
                   /\ S[args[1]].type = type => AllGood(outcomes))
                => AllGood(WithObject(S, args, type, outcomes))
           /\ \A t : AllGood(outcomes) => AllGood(WithNode(S, t, outcomes))
<1>1. AllGood(outcomes) => AllGood(WithoutParameters(S, args, outcomes))
  BY RepliesGood DEF WithoutParameters
<1>2. ASSUME NEW type,
             Len(args) = 1 /\ args[1] \in DOMAIN S /\ S[args[1]] # NULL
               /\ S[args[1]].type = type => AllGood(outcomes)
      PROVE  AllGood(WithObject(S, args, type, outcomes))
  BY <1>2, RepliesGood DEF WithObject
<1>3. ASSUME NEW t, AllGood(outcomes) PROVE AllGood(WithNode(S, t, outcomes))
  <2>1. AllGood(outcomes \cup Crash(S)) /\ AllGood(outcomes \cup {})
    BY <1>3, RepliesGood DEF AllGood
  <2> QED BY <2>1, RepliesGood DEF WithNode
<1> QED BY <1>1, <1>2, <1>3

(***************************************************************************)
(* Freeing nodes of a tree where no iterator stands changes no object.     *)
(***************************************************************************)
LEMMA NothingFreed ==
    ASSUME NEW S, Good(S), NEW k, \A j \in DOMAIN S : S[j] # NULL => S[j].cursor # k,
           NEW everything \in BOOLEAN
    PROVE  WithFreedNodes(S, k, everything) = {S}
<1> DEFINE inside == {i \in DOMAIN S : S[i] # NULL /\ S[i].cursor = k}
           freed(gone) == [i \in DOMAIN S |->
                             IF i \in gone THEN [S[i] EXCEPT !.cursor = Freed] ELSE S[i]]
           which == IF everything THEN {inside} ELSE SUBSET inside
<1>1. inside = {}
  OBVIOUS
<1>2. which = {{}}
  BY <1>1
<1>3. freed({}) = S
  BY DEF Good, WellFormed
<1>4. WithFreedNodes(S, k, everything) = {freed(gone) : gone \in which}
  BY DEF WithFreedNodes
<1> HIDE DEF freed, which
<1>5. {freed(gone) : gone \in which} = {S}
  BY <1>2, <1>3
<1> QED BY <1>4, <1>5

(***************************************************************************)
(* Loggers and normalizers.                                                *)
(***************************************************************************)
LEMMA LoggerGood ==
    ASSUME NEW S, Good(S), NEW code, NEW args
    PROVE  AllGood(logger_command(S, code, args))
<1>1. CASE code = 0
  BY <1>1, RepliesGood, CheckedGood DEF logger_command
<1>2. CASE code = 1
  BY <1>2, RepliesGood DEF logger_command
<1>3. CASE code \in {2, 3}
  BY <1>3, RepliesGood, CheckedGood DEF logger_command
<1>4. CASE code \notin {0, 1, 2, 3}
  BY <1>4, RepliesGood DEF logger_command
<1> QED BY <1>1, <1>2, <1>3, <1>4

(***************************************************************************)
(* Commands of normalizers change no object.                               *)
(***************************************************************************)
LEMMA NormalizerGood ==
    ASSUME NEW S, Good(S), NEW code, NEW args
    PROVE  AllGood(normalizer_command(S, code, args))
<1>1. CASE code \in {0, 10}
  BY <1>1, RepliesGood, CheckedGood DEF normalizer_command
<1>2. CASE code \in {1, 2, 20, 21}
  BY <1>2, RepliesGood DEF normalizer_command
<1>3. CASE code \notin {0, 10, 1, 2, 20, 21}
  BY <1>3, RepliesGood DEF normalizer_command
<1> QED BY <1>1, <1>2, <1>3

(***************************************************************************)
(* Knowledgebases.                                                         *)
(***************************************************************************)
LEMMA InspectedGood ==
    ASSUME NEW S, Good(S), NEW code, NEW args
    PROVE  AllGood(knowledgebase_inspected(S, code, args))
BY RepliesGood, CheckedGood DEF knowledgebase_inspected

(***************************************************************************)
(* Commands about words: the tree is freed only where no iterator is in it.*)
(***************************************************************************)
LEMMA ChangedGood ==
    ASSUME NEW S, Good(S), NEW k, NEW code, NEW args, code \in {1, 2, 25, 26, 27} \cup 20..22,
           code \in {1, 27} => \A j \in DOMAIN S : S[j] # NULL => S[j].cursor # k
    PROVE  AllGood(knowledgebase_changed(S, k, code, args))
<1>1. CASE code = 1
  <2>1. WithFreedNodes(S, k, TRUE) = {S}
    BY <1>1, NothingFreed
  <2>2. knowledgebase_changed(S, k, code, args) =
          UNION {Sent(o, {<<ERR_SUCCESS>>, <<ERR_BAD_PARAMETERS>>}) :
                    o \in WithFreedNodes(S, k, TRUE)}
    <3>1. /\ code = 1 /\ code # 2 /\ code \notin {20, 21}
          /\ code # 22 /\ code # 25 /\ code # 26 /\ code # 27
      BY <1>1
    <3> QED BY <3>1, Zenon DEF knowledgebase_changed
  <2>3. knowledgebase_changed(S, k, code, args) =
          Sent(S, {<<ERR_SUCCESS>>, <<ERR_BAD_PARAMETERS>>})
    <3>1. \A T : UNION {Sent(o, T) : o \in {S}} = Sent(S, T)
      OBVIOUS
    <3> QED BY <2>1, <2>2, <3>1, Zenon
  <2> QED BY <2>3, RepliesGood
<1>2. CASE code = 2
  BY <1>2, RepliesGood DEF knowledgebase_changed
<1>3. CASE code \in {20, 21}
  BY <1>3, RepliesGood DEF knowledgebase_changed
<1>4. CASE code = 22
  BY <1>4, RepliesGood DEF knowledgebase_changed
<1>5. CASE code = 25
  <2> DEFINE T == store_object(S, NewObject(OBJ_KNOWLEDGEBASE))
             outcomes == Sent(T, {<<ERR_SUCCESS, NextSlot(S)>>})
  <2>1. Good(T)
    BY CreatedIsGood
  <2>2. knowledgebase_changed(S, k, code, args) = WithoutParameters(S, args, outcomes)
    BY <1>5 DEF knowledgebase_changed
  <2> HIDE DEF T
  <2>3. AllGood(outcomes)
    BY <2>1, RepliesGood
  <2> HIDE DEF outcomes
  <2> QED BY <2>2, <2>3, CheckedGood
<1>6. CASE code = 26
  <2> DEFINE outcomes == SuccessWithBool(S)
  <2>1. knowledgebase_changed(S, k, code, args) = WithObject(S, args, OBJ_KNOWLEDGEBASE, outcomes)
    BY <1>6 DEF knowledgebase_changed
  <2>2. AllGood(outcomes)
    BY RepliesGood
  <2> HIDE DEF outcomes
  <2>3. AllGood(WithObject(S, args, OBJ_KNOWLEDGEBASE, outcomes))
    BY <2>2, CheckedGood
  <2> QED BY <2>1, <2>3
<1>7. CASE code = 27
  <2>1. WithFreedNodes(S, k, TRUE) = {S}
    BY <1>7, NothingFreed
  <2>2. knowledgebase_changed(S, k, code, args) =
          Success(S) \cup UNION {Errno(o, ERR_BAD_PARAMETERS) : o \in WithFreedNodes(S, k, TRUE)}
    <3>1. /\ code # 1 /\ code # 2 /\ code \notin {20, 21}
          /\ code # 22 /\ code # 25 /\ code # 26 /\ code = 27
      BY <1>7
    <3> QED BY <3>1, Zenon DEF knowledgebase_changed
  <2>3. UNION {Errno(o, ERR_BAD_PARAMETERS) : o \in WithFreedNodes(S, k, TRUE)}
          = Errno(S, ERR_BAD_PARAMETERS)
    BY <2>1
  <2> QED BY <2>2, <2>3, RepliesGood DEF AllGood
<1> QED BY <1>1, <1>2, <1>3, <1>4, <1>5, <1>6, <1>7

(***************************************************************************)
(* A new iterator, wherever the knowledgebase puts it.                     *)
(***************************************************************************)
LEMMA NewIteratorGood ==
    ASSUME NEW S, Good(S), NEW k \in DOMAIN S, S[k] # NULL, S[k].type = OBJ_KNOWLEDGEBASE,
           NEW cursors \in SUBSET {None, k}
    PROVE  AllGood(NewIterator(S, k, cursors))
<1> DEFINE replies == {<<ERR_SUCCESS, NextSlot(S)>>}
<1>1. NewIterator(S, k, cursors) = UNION {Sent(Iterated(S, k, c), replies) : c \in cursors}
  BY Zenon DEF NewIterator, Iterated
<1>2. \A c \in cursors : AllGood(Sent(Iterated(S, k, c), replies))
  <2> SUFFICES ASSUME NEW c \in cursors PROVE AllGood(Sent(Iterated(S, k, c), replies))
    OBVIOUS
  <2>1. Good(Iterated(S, k, c))
    BY IteratedIsGood
  <2> HIDE DEF replies
  <2> QED BY <2>1, RepliesGood
<1> HIDE DEF replies
<1> QED BY <1>1, <1>2 DEF AllGood

(***************************************************************************)
(* Commands that make iterators, and those that free nodes.                *)
(***************************************************************************)
LEMMA IteratedGood ==
    ASSUME NEW S, Good(S), NEW k \in DOMAIN S, S[k] # NULL, S[k].type = OBJ_KNOWLEDGEBASE,
           NEW code, NEW args, code \in {40, 41, 50} \cup 30..33,
           code \in {40, 41, 50} => \A j \in DOMAIN S : S[j] # NULL => S[j].cursor # k
    PROVE  AllGood(knowledgebase_iterated(S, k, code, args))
<1>1. /\ AllGood(NewIterator(S, k, {k})) /\ AllGood(NewIterator(S, k, {None}))
      /\ AllGood(NewIterator(S, k, {k, None}))
  BY NewIteratorGood
<1>2. CASE code = 30
  BY <1>1, <1>2, CheckedGood DEF knowledgebase_iterated
<1>3. CASE code = 32
  BY <1>1, <1>3, CheckedGood DEF knowledgebase_iterated
<1>4. CASE code \in {31, 33}
  BY <1>1, <1>4, CheckedGood DEF knowledgebase_iterated
<1>5. CASE code \in {40, 41}
  <2> DEFINE outcomes == UNION {Success(o) : o \in WithFreedNodes(S, k, code = 40)}
  <2>1. WithFreedNodes(S, k, code = 40) = {S}
    <3> DEFINE freed == (code = 40)
    <3>1. freed \in BOOLEAN
      OBVIOUS
    <3> HIDE DEF freed
    <3>2. WithFreedNodes(S, k, freed) = {S}
      BY <1>5, <3>1, NothingFreed
    <3> QED BY <3>2 DEF freed
  <2>2. outcomes = Success(S)
    BY <2>1
  <2>3. knowledgebase_iterated(S, k, code, args) = WithoutParameters(S, args, outcomes)
    <3>1. /\ code \in {40, 41} /\ code # 30 /\ code # 32 /\ code \notin {31, 33} /\ code # 50
      BY <1>5
    <3> QED BY <3>1, Zenon DEF knowledgebase_iterated
  <2> HIDE DEF outcomes
  <2> QED BY <2>2, <2>3, RepliesGood, CheckedGood
<1>6. CASE code = 50
  <2> DEFINE outcomes == UNION {SuccessWithBool(o) : o \in WithFreedNodes(S, k, FALSE)}
  <2>1. WithFreedNodes(S, k, FALSE) = {S}
    BY <1>6, NothingFreed
  <2>2. outcomes = SuccessWithBool(S)
    BY <2>1
  <2>3. knowledgebase_iterated(S, k, code, args) =
          IF Len(args) # 1 THEN Errno(S, ERR_BAD_PARAMETER_COUNT)
          ELSE IF args[1] < 1 THEN Errno(S, ERR_BAD_PARAMETERS) ELSE outcomes
    <3>1. code \notin {40, 41} /\ code # 30 /\ code # 32 /\ code \notin {31, 33} /\ code = 50
      BY <1>6
    <3> QED BY <3>1, Zenon DEF knowledgebase_iterated
  <2> HIDE DEF outcomes
  <2> QED BY <2>2, <2>3, RepliesGood
<1> QED BY <1>2, <1>3, <1>4, <1>5, <1>6

(***************************************************************************)
(* All commands of a knowledgebase.                                        *)
(***************************************************************************)
LEMMA KnowledgebaseGood ==
    ASSUME NEW S, Good(S), NEW k \in DOMAIN S, S[k] # NULL, S[k].type = OBJ_KNOWLEDGEBASE,
           NEW code, NEW args,
           code \in {1, 27, 40, 41, 50} => \A j \in DOMAIN S : S[j] # NULL => S[j].cursor # k
    PROVE  AllGood(knowledgebase_command(S, k, code, args))
<1>1. CASE code \in {0, 5, 6, 10, 11, 28, 29} \cup 12..17
  BY <1>1, InspectedGood DEF knowledgebase_command
<1>2. CASE code \in {1, 2, 25, 26, 27} \cup 20..22
  <2>1. AllGood(knowledgebase_changed(S, k, code, args))
    BY <1>2, ChangedGood
  <2> QED BY <1>2, <2>1 DEF knowledgebase_command
<1>3. CASE code \in {40, 41, 50} \cup 30..33
  <2>1. AllGood(knowledgebase_iterated(S, k, code, args))
    BY <1>3, IteratedGood
  <2> QED BY <1>3, <2>1 DEF knowledgebase_command
<1>4. CASE /\ code \notin {0, 5, 6, 10, 11, 28, 29} \cup 12..17
           /\ code \notin {1, 2, 25, 26, 27} \cup 20..22
           /\ code \notin {40, 41, 50} \cup 30..33
  <2>1. knowledgebase_command(S, k, code, args) = Errno(S, ERR_BAD_COMMAND)
    BY <1>4, Zenon DEF knowledgebase_command
  <2> QED BY <2>1, RepliesGood
<1> QED BY <1>1, <1>2, <1>3, <1>4

(***************************************************************************)
(* Iterators.                                                              *)
(***************************************************************************)
LEMMA IteratorGood ==
    ASSUME NEW S, Good(S), NEW t \in DOMAIN S, S[t] # NULL,
           S[t].type = OBJ_KNOWLEDGEBASE_ITERATOR, NEW code, NEW args,
           code = 1 /\ Exists(S, args[1]) => S[args[1]].cursor \in {None, S[t].knowledgebase}
    PROVE  AllGood(iterator_command(S, t, code, args))
<1>1. CASE code = 0
  BY <1>1, RepliesGood, CheckedGood DEF iterator_command
<1>2. CASE code = 1
  <2> DEFINE outcomes == Success([S EXCEPT ![t].cursor = S[args[1]].cursor])
  <2>1. iterator_command(S, t, code, args) =
          WithObject(S, args, OBJ_KNOWLEDGEBASE_ITERATOR, outcomes)
    BY <1>2 DEF iterator_command
  <2>2. args[1] \in DOMAIN S /\ S[args[1]] # NULL => AllGood(outcomes)
    <3> HAVE args[1] \in DOMAIN S /\ S[args[1]] # NULL
    <3>1. S[args[1]].cursor \in {None, S[t].knowledgebase}
      BY <1>2 DEF Exists
    <3>2. Good([S EXCEPT ![t].cursor = S[args[1]].cursor])
      BY <3>1, MovedIsGood
    <3> QED BY <3>2, RepliesGood
  <2> HIDE DEF outcomes
  <2> QED BY <2>1, <2>2, CheckedGood
<1>3. CASE code = 2
  <2>1. iterator_command(S, t, code, args) =
          WithObject(S, args, OBJ_KNOWLEDGEBASE_ITERATOR, SuccessWithBool(S))
    BY <1>3 DEF iterator_command
  <2> QED BY <2>1, RepliesGood, CheckedGood
<1>4. CASE code \in {10, 20}
  <2>1. CASE code = 10
    <3>1. iterator_command(S, t, code, args) =
             WithNode(S, t, WithoutParameters(S, args, SuccessWithBool(S)))
      BY <2>1 DEF iterator_command
    <3> QED BY <3>1, RepliesGood, CheckedGood
  <2>2. CASE code = 20
    <3>1. iterator_command(S, t, code, args) =
             WithNode(S, t, WithoutParameters(S, args, SuccessWithData(S)))
      BY <2>2 DEF iterator_command
    <3> QED BY <3>1, RepliesGood, CheckedGood
  <2> QED BY <1>4, <2>1, <2>2
<1>5. CASE code = 11
  BY <1>5, RepliesGood DEF iterator_command
<1>6. CASE code = 21
  <2> DEFINE replies == {<<ERR_SUCCESS, 0>>} \cup {<<ERR_SUCCESS, 1, b>> : b \in Bool}
  <2>1. iterator_command(S, t, code, args) =
          WithNode(S, t, WithoutParameters(S, args, Sent(S, replies)))
    BY <1>6 DEF iterator_command
  <2> HIDE DEF replies
  <2> QED BY <2>1, RepliesGood, CheckedGood
<1>7. CASE code = 30
  <2> DEFINE outcomes == Success(S) \cup Success([S EXCEPT ![t].cursor = None])
  <2>1. iterator_command(S, t, code, args) = WithNode(S, t, WithoutParameters(S, args, outcomes))
    BY <1>7 DEF iterator_command
  <2>2. Good([S EXCEPT ![t].cursor = None])
    BY MovedIsGood
  <2>3. AllGood(outcomes)
    <3>1. AllGood(Success(S)) /\ AllGood(Success([S EXCEPT ![t].cursor = None]))
      BY <2>2, RepliesGood
    <3> QED BY <3>1 DEF AllGood
  <2> HIDE DEF outcomes
  <2> QED BY <2>1, <2>3, CheckedGood
<1>8. CASE code = 31
  <2> DEFINE outcomes == IF Len(args) # 1 THEN Errno(S, ERR_BAD_PARAMETER_COUNT)
                         ELSE IF args[1] \notin 0..2 THEN Errno(S, ERR_BAD_PARAMETERS)
                         ELSE SuccessWithBool(S)
  <2>1. iterator_command(S, t, code, args) = WithNode(S, t, outcomes)
    BY <1>8 DEF iterator_command
  <2>2. AllGood(outcomes)
    BY RepliesGood
  <2> HIDE DEF outcomes
  <2> QED BY <2>1, <2>2, CheckedGood
<1>9. CASE code \notin {0, 1, 2, 10, 11, 20, 21, 30, 31}
  BY <1>9, RepliesGood DEF iterator_command
<1> QED BY <1>1, <1>2, <1>3, <1>4, <1>5, <1>6, <1>7, <1>8, <1>9

(***************************************************************************)
(* Learning algorithms.                                                    *)
(***************************************************************************)
LEMMA AssociatingGood ==
    ASSUME NEW S, Good(S), NEW a \in DOMAIN S, S[a] # NULL,
           S[a].type = OBJ_LEARNING_ALGORITHM, NEW type \in Linkable, NEW args,
           type = OBJ_NORMALIZER => args[1] # S[a].normalizer
    PROVE  AllGood(Associated(S, a, type, args))
<1> DEFINE i == args[1]
           old == S[a][Member(type)]
           link == IF type = OBJ_NORMALIZER
                   THEN refer(Referred(S, i, a), a, Member(type), i)
                   ELSE Referred(refer(S, a, Member(type), i), i, a)
           outcomes == IF old # None /\ S[old] = NULL THEN Crash(S) ELSE Success(link)
<1>1. Associated(S, a, type, args) = WithObject(S, args, type, outcomes)
  BY Zenon DEF Associated
<1>2. i \in DOMAIN S /\ S[i] # NULL /\ S[i].type = type => AllGood(outcomes)
  <2> HAVE i \in DOMAIN S /\ S[i] # NULL /\ S[i].type = type
  <2>1. Good(link)
    <3>1. CASE type = OBJ_NORMALIZER
      <4>1. Member(type) = "normalizer"
        BY <3>1 DEF Member
      <4>2. S[a][Member(type)] # i
        BY <3>1, <4>1
      <4> HIDE DEF i
      <4>3. Good(refer(Referred(S, i, a), a, Member(type), i))
        BY <4>2, NormalizedIsGood
      <4> QED BY <3>1, <4>3
    <3>2. CASE type # OBJ_NORMALIZER
      <4> HIDE DEF i
      <4>1. Good(Referred(refer(S, a, Member(type), i), i, a))
        BY AssociatedIsGood
      <4> QED BY <3>2, <4>1
    <3> QED BY <3>1, <3>2
  <2> HIDE DEF link, old
  <2> QED BY <2>1, RepliesGood
<1> HIDE DEF outcomes
<1> QED BY <1>1, <1>2, CheckedGood

(***************************************************************************)
(* remove_logger and remove_normalizer commands, with their checks.        *)
(***************************************************************************)
LEMMA RemovingGood ==
    ASSUME NEW S, Good(S), NEW a \in DOMAIN S, S[a] # NULL,
           S[a].type = OBJ_LEARNING_ALGORITHM, NEW type \in Linkable, NEW args
    PROVE  AllGood(Removed(S, a, Member(type), args))
<1> DEFINE old == S[a][Member(type)]
           outcomes == IF old = None THEN Crash(S)
                       ELSE IF S[old] = NULL THEN Crash(S)
                       ELSE Success(derefer(Dereferred(S, old, a), a, Member(type)))
<1>1. Removed(S, a, Member(type), args) = WithoutParameters(S, args, outcomes)
  BY Zenon DEF Removed
<1>2. old # None => Good(derefer(Dereferred(S, old, a), a, Member(type)))
  BY RemovedIsGood
<1> HIDE DEF old
<1>3. AllGood(outcomes)
  BY <1>2, RepliesGood
<1> HIDE DEF outcomes
<1> QED BY <1>1, <1>3, CheckedGood

(***************************************************************************)
(* The commands about logger, knowledgebase and normalizer.                *)
(***************************************************************************)
LEMMA LinkedGood ==
    ASSUME NEW S, Good(S), NEW a \in DOMAIN S, S[a] # NULL,
           S[a].type = OBJ_LEARNING_ALGORITHM, NEW code \in 10..16, NEW args,
           code = 14 => args[1] # S[a].normalizer
    PROVE  AllGood(algorithm_linked(S, a, code, args))
<1>1. /\ OBJ_LOGGER \in Linkable /\ OBJ_KNOWLEDGEBASE \in Linkable /\ OBJ_NORMALIZER \in Linkable
      /\ Member(OBJ_LOGGER) = "logger" /\ Member(OBJ_NORMALIZER) = "normalizer"
  BY DEF Linkable, Member
<1>2. CASE code = 10
  <2>1. AllGood(Associated(S, a, OBJ_LOGGER, args))
    BY <1>1, AssociatingGood
  <2> QED BY <1>2, <2>1 DEF algorithm_linked
<1>3. CASE code = 11
  <2>1. AllGood(Removed(S, a, "logger", args))
    BY <1>1, RemovingGood
  <2> QED BY <1>3, <2>1 DEF algorithm_linked
<1>4. CASE code = 12
  <2>1. AllGood(Associated(S, a, OBJ_KNOWLEDGEBASE, args))
    BY <1>1, AssociatingGood
  <2> QED BY <1>4, <2>1 DEF algorithm_linked
<1>5. CASE code = 13
  <2>1. algorithm_linked(S, a, code, args) =
          WithoutParameters(S, args, Sent(S, {<<ERR_SUCCESS, S[a].knowledgebase>>}))
    BY <1>5 DEF algorithm_linked
  <2> QED BY <2>1, RepliesGood, CheckedGood
<1>6. CASE code = 14
  <2>1. AllGood(Associated(S, a, OBJ_NORMALIZER, args))
    BY <1>1, <1>6, AssociatingGood
  <2> QED BY <1>6, <2>1 DEF algorithm_linked
<1>7. CASE code = 15
  <2>1. algorithm_linked(S, a, code, args) =
          WithoutParameters(S, args, Sent(S, {<<ERR_SUCCESS, S[a].normalizer>>}))
    BY <1>7 DEF algorithm_linked
  <2> QED BY <2>1, RepliesGood, CheckedGood
<1>8. CASE code = 16
  <2>1. AllGood(Removed(S, a, "normalizer", args))
    BY <1>1, RemovingGood
  <2> QED BY <1>8, <2>1 DEF algorithm_linked
<1> QED BY <1>2, <1>3, <1>4, <1>5, <1>6, <1>7, <1>8

(***************************************************************************)
(* The other commands of an algorithm change no object.                    *)
(***************************************************************************)
LEMMA WorkedGood ==
    ASSUME NEW S, Good(S), NEW a, NEW code, NEW args
    PROVE  AllGood(algorithm_worked(S, a, code, args))
<1>1. CASE code \in {0, 2, 4, 20, 21, 30}
  BY <1>1, RepliesGood, CheckedGood DEF algorithm_worked
<1>2. CASE code = 1
  BY <1>2, RepliesGood DEF algorithm_worked
<1>3. CASE code = 3
  <2>1. AllGood(SuccessWithData(S) \cup Errno(S, ERR_BAD_PARAMETERS))
    BY RepliesGood DEF AllGood
  <2> QED BY <1>3, <2>1, RepliesGood DEF algorithm_worked
<1>4. CASE code \in {22, 23, 24}
  BY <1>4, RepliesGood, CheckedGood DEF algorithm_worked
<1>5. CASE code = 31
  BY <1>5, RepliesGood DEF algorithm_worked
<1>6. CASE code \in {40, 50}
  BY <1>6, RepliesGood, CheckedGood DEF algorithm_worked
<1>7. CASE code = 41
  <2>1. algorithm_worked(S, a, code, args) =
          WithoutParameters(S, args, Sent(S, {<<ERR_SUCCESS, 0>>, <<ERR_SUCCESS, 1, Data, Data>>}))
    BY <1>7 DEF algorithm_worked
  <2> QED BY <2>1, RepliesGood, CheckedGood
<1>8. CASE code = 42
  BY <1>8, RepliesGood DEF algorithm_worked
<1>9. CASE code = 51
  BY <1>9, RepliesGood, CheckedGood DEF algorithm_worked
<1>10. CASE code \notin {0, 1, 2, 3, 4, 20, 21, 22, 23, 24, 30, 31, 40, 41, 42, 50, 51}
  BY <1>10, RepliesGood DEF algorithm_worked
<1> QED BY <1>1, <1>2, <1>3, <1>4, <1>5, <1>6, <1>7, <1>8, <1>9, <1>10

(***************************************************************************)
(* All commands of a learning algorithm.                                   *)
(***************************************************************************)
LEMMA AlgorithmGood ==
    ASSUME NEW S, Good(S), NEW a \in DOMAIN S, S[a] # NULL,
           S[a].type = OBJ_LEARNING_ALGORITHM, NEW code, NEW args,
           code = 14 => args[1] # S[a].normalizer
    PROVE  AllGood(algorithm_command(S, a, code, args))
<1>1. CASE code \in 10..16
  <2>1. AllGood(algorithm_linked(S, a, code, args))
    BY <1>1, LinkedGood
  <2> QED BY <1>1, <2>1 DEF algorithm_command
<1>2. CASE code \notin 10..16
  <2>1. AllGood(algorithm_worked(S, a, code, args))
    BY WorkedGood
  <2> QED BY <1>2, <2>1, Zenon DEF algorithm_command
<1> QED BY <1>1, <1>2

-----------------------------------------------------------------------------
(* Requests.                                                                 *)

Served == {"create", "delete", "type", "count", "object", "capa", "hello", "disconnect"}

Careful == {"same_normalizer", "assign_iterator", "shrink_under_iterator"} \cap Careless = {}

(***************************************************************************)
(* handle_command() of an object that is there, for what a careful client  *)
(* asks of it.                                                             *)
(***************************************************************************)
LEMMA HandledGood ==
    ASSUME Careful, NEW S, Good(S), NEW request, request.cmd = "object",
           Allowed(S, request), Exists(S, request.id)
    PROVE  AllGood(handle_command(S, request.id, request.code, request.args))
<1> DEFINE i == request.id
           o == S[i]
           outcomes == handle_command(S, i, request.code, request.args)
<1>1. i \in DOMAIN S /\ o # NULL /\ o.type \in ObjectTypes
  BY SlotFacts, ObjectFields DEF Exists, Good
<1>2. CASE o.type = OBJ_LOGGER
  <2>1. outcomes = logger_command(S, request.code, request.args)
    BY <1>2 DEF handle_command
  <2> QED BY <2>1, LoggerGood
<1>3. CASE o.type = OBJ_KNOWLEDGEBASE
  <2>1. outcomes = knowledgebase_command(S, i, request.code, request.args)
    BY <1>3 DEF handle_command
  <2>2. request.code \in {1, 27, 40, 41, 50} =>
          \A j \in DOMAIN S : S[j] # NULL => S[j].cursor # i
    BY <1>3 DEF Allowed, Careful, Shrinks, Exists
  <2> QED BY <1>1, <1>3, <2>1, <2>2, KnowledgebaseGood
<1>4. CASE o.type = OBJ_KNOWLEDGEBASE_ITERATOR
  <2>1. outcomes = iterator_command(S, i, request.code, request.args)
    BY <1>4 DEF handle_command
  <2>2. request.code = 1 /\ Exists(S, request.args[1]) =>
          S[request.args[1]].cursor \in {None, o.knowledgebase}
    BY <1>4 DEF Allowed, Careful
  <2> QED BY <1>1, <1>4, <2>1, <2>2, IteratorGood
<1>5. CASE o.type = OBJ_LEARNING_ALGORITHM
  <2>1. outcomes = algorithm_command(S, i, request.code, request.args)
    BY <1>5 DEF handle_command
  <2>2. request.code = 14 => request.args[1] # o.normalizer
    BY <1>5 DEF Allowed, Careful
  <2> QED BY <1>1, <1>5, <2>1, <2>2, AlgorithmGood
<1>6. CASE o.type = OBJ_NORMALIZER
  <2>1. outcomes = normalizer_command(S, request.code, request.args)
    BY <1>6 DEF handle_command
  <2> QED BY <2>1, NormalizerGood
<1> QED BY <1>1, <1>2, <1>3, <1>4, <1>5, <1>6

(***************************************************************************)
(* Whatever a careful client asks for, the objects stay good.              *)
(***************************************************************************)
LEMMA OutcomesGood ==
    ASSUME Careful, NEW S, Good(S), NEW request, request.cmd \in Served, Allowed(S, request)
    PROVE  AllGood(Outcomes(S, request))
<1> DEFINE i == request.id
<1>1. CASE request.cmd = "create"
  <2>1. Outcomes(S, request) = reply_create_object(S, request.type, request.args)
    BY <1>1 DEF Outcomes
  <2>2. request.type \in ObjectTypes =>
          AllGood(Sent(store_object(S, NewObject(request.type)), {<<ERR_SUCCESS, NextSlot(S)>>}))
    BY CreatedIsGood, RepliesGood
  <2> QED BY <2>1, <2>2, RepliesGood, Zenon DEF reply_create_object
<1>2. CASE request.cmd = "delete"
  <2>1. Outcomes(S, request) = reply_delete_object(S, i)
    BY <1>2 DEF Outcomes
  <2>2. ASSUME Exists(S, i) PROVE \A code : AllGood(Errno(Deleted(S, i), code))
    BY <2>2, DeletedIsGood, RepliesGood DEF Exists
  <2> QED BY <2>1, <2>2, RepliesGood, Zenon DEF reply_delete_object
<1>3. CASE request.cmd = "type"
  <2>1. Outcomes(S, request) = reply_get_objecttype(S, i)
    BY <1>3 DEF Outcomes
  <2> QED BY <2>1, RepliesGood, Zenon DEF reply_get_objecttype
<1>4. CASE request.cmd = "count"
  <2>1. Outcomes(S, request) = reply_count_dispatcher_references(S, i)
    BY <1>4 DEF Outcomes
  <2> QED BY <2>1, RepliesGood, Zenon DEF reply_count_dispatcher_references
<1>5. CASE request.cmd = "object"
  <2>1. Outcomes(S, request) = reply_object_command(S, i, request.code, request.args)
    BY <1>5 DEF Outcomes
  <2>2. Exists(S, i) => AllGood(handle_command(S, i, request.code, request.args))
    BY <1>5, HandledGood
  <2> QED BY <2>1, <2>2, RepliesGood, Zenon DEF reply_object_command
<1>6. CASE request.cmd \in {"capa", "hello"}
  <2>1. Outcomes(S, request) = SuccessWithData(S)
    BY <1>6 DEF Outcomes
  <2> QED BY <2>1, RepliesGood
<1>7. CASE request.cmd = "disconnect"
  <2>1. \E code : Outcomes(S, request) = Errno(S, code)
    BY <1>7 DEF Outcomes
  <2> QED BY <2>1, RepliesGood
<1> QED BY <1>1, <1>2, <1>3, <1>4, <1>5, <1>6, <1>7 DEF Served

(***************************************************************************)
(* The stubs send requests that the servant knows.                         *)
(***************************************************************************)
LEMMA RequestsServed ==
    ASSUME NEW c, NEW request \in Requests(c)
    PROVE  request.cmd \in Served /\ "served" \in DOMAIN request
<1>1. \A cmd, type, id, code, args :
        cmd \in Served => /\ Request(cmd, type, id, code, args).cmd \in Served
                         /\ "served" \in DOMAIN Request(cmd, type, id, code, args)
  BY DEF Request
<1>2. CASE request \in create_requests(c)
  <2>1. \E type, args : request = Request("create", type, 0, 0, args)
    BY <1>2, Zenon DEF create_requests
  <2> QED BY <1>1, <2>1 DEF Served
<1>3. CASE request \in object_requests(c)
  <2>1. \E type, id, code, args : request = Request("object", type, id, code, args)
    BY <1>3 DEF object_requests
  <2> QED BY <1>1, <2>1 DEF Served
<1>4. CASE request \in {Request(cmd, s.type, s.id, 0, <<>>) : cmd \in {"delete", "type"}, s \in stubs[c]}
  <2>1. \E type, id : \E cmd \in {"delete", "type"} : request = Request(cmd, type, id, 0, <<>>)
    BY <1>4
  <2> QED BY <1>1, <2>1 DEF Served
<1>5. CASE request \in {Request(cmd, None, 0, 0, <<>>) : cmd \in {"hello", "disconnect"}}
  <2>1. \E cmd \in {"hello", "disconnect"} : request = Request(cmd, None, 0, 0, <<>>)
    BY <1>5
  <2> QED BY <1>1, <2>1 DEF Served
<1> QED BY <1>2, <1>3, <1>4, <1>5 DEF Requests

-----------------------------------------------------------------------------
(* The invariant.                                                            *)

\* A request that a servant has not served yet is one of a careful client, and the
\* objects are still those for which it was asked.
Asked(c) ==
    /\ "served" \in DOMAIN call[c]
    /\ call[c] # NoCall /\ ~call[c].served =>
         call[c].cmd \in Served /\ Allowed(objects[c], call[c])

IInv ==
    /\ objects = [c \in Clients |-> objects[c]]
    /\ call = [c \in Clients |-> call[c]]
    /\ \A c \in Clients : Good(objects[c]) /\ Asked(c)

(***************************************************************************)
(* No servant has objects at first.                                        *)
(***************************************************************************)
LEMMA InitGood == Init => IInv
<1> SUFFICES ASSUME Init PROVE IInv
  OBVIOUS
<1>1. \A c \in Clients : objects[c] = <<>> /\ call[c] = NoCall
  BY DEF Init
<1>2. "served" \in DOMAIN NoCall
  BY DEF NoCall
<1>3. \A c \in Clients : Good(objects[c])
  BY <1>1, NoObjectsGood
<1>4. \A c \in Clients : Asked(c)
  BY <1>1, <1>2 DEF Asked
<1>5. objects = [c \in Clients |-> objects[c]] /\ call = [c \in Clients |-> call[c]]
  BY DEF Init
<1> QED BY <1>3, <1>4, <1>5 DEF IInv

(***************************************************************************)
(* A step that leaves the objects and the calls alone.                     *)
(***************************************************************************)
LEMMA UntouchedGood == IInv /\ UNCHANGED <<objects, call>> => IInv'
BY DEF IInv, Asked

(***************************************************************************)
(* A step that changes the objects and the call of one client.             *)
(***************************************************************************)
LEMMA OneClientGood ==
    ASSUME IInv, NEW c \in Clients, NEW O, NEW r,
           objects' = [objects EXCEPT ![c] = O], call' = [call EXCEPT ![c] = r],
           Good(O), "served" \in DOMAIN r,
           r # NoCall /\ ~r.served => r.cmd \in Served /\ Allowed(O, r)
    PROVE  IInv'
<1>1. /\ objects' = [d \in Clients |-> objects'[d]] /\ call' = [d \in Clients |-> call'[d]]
      /\ objects'[c] = O /\ call'[c] = r
      /\ \A d \in Clients : d # c => objects'[d] = objects[d] /\ call'[d] = call[d]
  BY DEF IInv
<1>2. ASSUME NEW d \in Clients PROVE Good(objects'[d]) /\ Asked(d)'
  <2>1. CASE d = c
    BY <1>1, <2>1 DEF Asked
  <2>2. CASE d # c
    BY <1>1, <2>2 DEF IInv, Asked
  <2> QED BY <2>1, <2>2
<1> QED BY <1>1, <1>2 DEF IInv

(***************************************************************************)
(* Without objects every request is one of a careful client.               *)
(***************************************************************************)
LEMMA NothingThere == \A request : Allowed(<<>>, request)
BY DEF Allowed, Exists

(***************************************************************************)
(* Every step of the main process, of a servant and of a client.           *)
(***************************************************************************)
LEMMA NextGood == ASSUME Careful, IInv, [Next]_vars PROVE IInv'
<1>1. \A c \in Clients : /\ Good(objects[c]) /\ Asked(c)
                         /\ objects = [objects EXCEPT ![c] = objects[c]]
                         /\ call = [call EXCEPT ![c] = call[c]]
  <2>1. objects = [c \in Clients |-> objects[c]] /\ call = [c \in Clients |-> call[c]]
    BY DEF IInv
  <2>2. \A c \in Clients : /\ objects = [objects EXCEPT ![c] = objects[c]]
                           /\ call = [call EXCEPT ![c] = call[c]]
    BY <2>1
  <2> QED BY <2>2 DEF IInv
<1>2. "served" \in DOMAIN NoCall
  BY DEF NoCall
<1>3. CASE MainLoop
  BY <1>3, UntouchedGood DEF MainLoop
<1>4. CASE ForkFails
  BY <1>4, UntouchedGood DEF ForkFails
<1>5. ASSUME NEW c \in Clients, SendCapabilities(c) PROVE IInv'
  <2> DEFINE r == [call[c] EXCEPT !.served = TRUE]
  <2>1. call' = [call EXCEPT ![c] = r] /\ objects' = [objects EXCEPT ![c] = objects[c]]
    BY <1>1, <1>5 DEF SendCapabilities
  <2>2. r.served /\ "served" \in DOMAIN r
    BY <1>1 DEF Asked
  <2> HIDE DEF r
  <2> QED BY <1>1, <2>1, <2>2, OneClientGood
<1>6. ASSUME NEW c \in Clients, Serve(c) PROVE IInv'
  <2> DEFINE r == [call[c] EXCEPT !.served = TRUE]
  <2>1. PICK outcome \in Outcomes(objects[c], call[c]) :
          objects' = [objects EXCEPT ![c] =
                        IF servant'[c] = "zombie" THEN <<>> ELSE outcome.objects]
    BY <1>6 DEF Serve
  <2>2. Good(outcome.objects)
    <3>1. call[c].cmd \in Served /\ Allowed(objects[c], call[c])
      BY <1>1, <1>6 DEF Serve, Asked
    <3> QED BY <1>1, <3>1, OutcomesGood DEF AllGood
  <2>3. Good(IF servant'[c] = "zombie" THEN <<>> ELSE outcome.objects)
    BY <2>2, NoObjectsGood
  <2>4. call' = [call EXCEPT ![c] = r]
    BY <1>6 DEF Serve
  <2>5. r.served /\ "served" \in DOMAIN r
    BY <1>1 DEF Asked
  <2> HIDE DEF r
  <2> DEFINE O == IF servant'[c] = "zombie" THEN <<>> ELSE outcome.objects
  <2>6. objects' = [objects EXCEPT ![c] = O] /\ Good(O)
    BY <2>1, <2>3
  <2> HIDE DEF O
  <2> QED BY <2>4, <2>5, <2>6, OneClientGood
<1>7. ASSUME NEW c \in Clients, Abandon(c) PROVE IInv'
  <2>1. objects' = [objects EXCEPT ![c] = <<>>] /\ call' = [call EXCEPT ![c] = call[c]]
    BY <1>1, <1>7 DEF Abandon
  <2>2. /\ "served" \in DOMAIN call[c]
        /\ call[c] # NoCall /\ ~call[c].served => call[c].cmd \in Served
    BY <1>1 DEF Asked
  <2> QED BY <2>1, <2>2, NoObjectsGood, NothingThere, OneClientGood
<1>8. ASSUME NEW c \in Clients, Connect(c) PROVE IInv'
  <2> DEFINE r == Request("capa", None, 0, 0, <<>>)
  <2>1. call' = [call EXCEPT ![c] = r] /\ objects' = [objects EXCEPT ![c] = objects[c]]
    BY <1>1, <1>8 DEF Connect
  <2>2. "served" \in DOMAIN r /\ r.cmd \in Served /\ Allowed(objects[c], r)
    BY DEF Request, Served, Allowed
  <2> HIDE DEF r
  <2> QED BY <1>1, <2>1, <2>2, OneClientGood
<1>9. ASSUME NEW c \in Clients, Call(c) PROVE IInv'
  <2>1. PICK r \in Requests(c) : Allowed(objects[c], r) /\ call' = [call EXCEPT ![c] = r]
    BY <1>9 DEF Call
  <2>2. objects' = [objects EXCEPT ![c] = objects[c]]
    BY <1>1, <1>9 DEF Call, serverVars
  <2>3. r.cmd \in Served /\ "served" \in DOMAIN r
    BY RequestsServed
  <2> QED BY <1>1, <2>1, <2>2, <2>3, OneClientGood
<1>10. ASSUME NEW c \in Clients, Return(c) \/ Broken(c) \/ Hangup(c) PROVE IInv'
  <2>1. call' = [call EXCEPT ![c] = NoCall] /\ objects' = [objects EXCEPT ![c] = objects[c]]
    BY <1>1, <1>10 DEF Return, Broken, Hangup, serverVars
  <2> QED BY <1>1, <1>2, <2>1, OneClientGood
<1>11. CASE UNCHANGED vars
  BY <1>11, UntouchedGood DEF vars
<1> QED BY <1>3, <1>4, <1>5, <1>6, <1>7, <1>8, <1>9, <1>10, <1>11 DEF Next, ServantStep, ClientStep

(***************************************************************************)
(* Good objects have references that are mutual, and iterators that stand  *)
(* where their knowledgebase knows of them.                                *)
(***************************************************************************)
LEMMA IInvSuffices == IInv => ReferencesMutual /\ IteratorsInPlace
<1> SUFFICES ASSUME IInv PROVE ReferencesMutual /\ IteratorsInPlace
  OBVIOUS
<1>1. ReferencesMutual
  BY GoodIsMutual DEF IInv, ReferencesMutual
<1>2. ASSUME NEW c \in Clients, NEW t \in DOMAIN objects[c], objects[c][t] # NULL,
             objects[c][t].cursor # None
      PROVE  LET k == objects[c][t].cursor IN
             /\ k = objects[c][t].knowledgebase
             /\ Exists(objects[c], k) /\ objects[c][k].type = OBJ_KNOWLEDGEBASE
             /\ t \in objects[c][k].referring_iterators
  <2> DEFINE S == objects[c]
  <2>1. CursorsRight(S) /\ KnowledgebasesNoted(S)
    BY DEF IInv, Good
  <2> HIDE DEF S
  <2>2. S[t].type = OBJ_KNOWLEDGEBASE_ITERATOR /\ S[t].cursor = S[t].knowledgebase
    BY <1>2, <2>1 DEF CursorsRight, S
  <2> QED BY <1>2, <2>1, <2>2 DEF KnowledgebasesNoted, Exists, S
<1>3. IteratorsInPlace
  BY <1>2 DEF IteratorsInPlace
<1> QED BY <1>1, <1>3

(***************************************************************************)
(* The invariant holds in every state if the clients are careful.          *)
(***************************************************************************)
LEMMA InvariantHolds == Careful => (Spec => []IInv)
<1> SUFFICES ASSUME Careful PROVE Spec => []IInv
  OBVIOUS
<1>1. IInv /\ [Next]_vars => IInv'
  BY NextGood
<1> QED BY InitGood, <1>1, PTL DEF Spec

(***************************************************************************)
(* ReferencesMutual, however many clients there are and however many       *)
(* objects they make, whatever commands they send and in whatever order    *)
(* they delete: if clients do not set the normalizer that is set, do not   *)
(* assign iterators of other knowledgebases, and do not shrink a tree that *)
(* an iterator stands in.  It does not matter whether they delete objects  *)
(* that are in use (co_learning_algorithm.cpp, co_knowledgebase.cpp,       *)
(* co_knowledgebase_iterator.cpp, co_normalizer.cpp, co_logger.cpp).       *)
(***************************************************************************)
THEOREM ReferencesStayMutual == Careful => (Spec => []ReferencesMutual)
BY InvariantHolds, IInvSuffices, PTL

(***************************************************************************)
(* IteratorsInPlace, under the same conditions: clients may delete a       *)
(* knowledgebase while iterators stand in it, in any order, and create new *)
(* objects in its slot; each of the iterators has been told, and is        *)
(* invalid, before the nodes are freed (co_knowledgebase.cpp,              *)
(* co_knowledgebase_iterator.cpp).                                         *)
(***************************************************************************)
THEOREM IteratorsStayInPlace == Careful => (Spec => []IteratorsInPlace)
BY InvariantHolds, IInvSuffices, PTL

=============================================================================
