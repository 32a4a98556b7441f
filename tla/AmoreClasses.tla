---------------------------- MODULE AmoreClasses ----------------------------
(***************************************************************************)
(* What libAMoRE makes of a transition monoid: its D-classes (mon2dcl.c),  *)
(* defining relations (mon2rel.c), and for an aperiodic monoid a star-free *)
(* expression of the language (mon2sfx.c).                                 *)
(*                                                                         *)
(* Generator g is also the element g.  A kernel is the partition of the    *)
(* states by their images.                                                 *)
(***************************************************************************)
EXTENDS AmoreMonoid

Image(mon, e) == Range(mon.no2trans[e + 1])
Rang(mon, e) == Cardinality(Image(mon, e))
Kernel(mon, e) ==
    LET t == mon.no2trans[e + 1] IN {{p \in DOMAIN t : t[p] = q} : q \in Range(t)}
Transversale(image, kernel) == \A part \in kernel : part \cap image # {}

\* Side "r" multiplies by a generator on the right, "l" on the left.
Times(mon, side, e, g) == IF side = "r" THEN mon.gensucc[e + 1][g] ELSE mult(mon, g, e)

Product(mon, A, B) == {mult(mon, a, b) : a \in A, b \in B}

-----------------------------------------------------------------------------
(* Regular D-classes, each from its first idempotent no.                   *)
(* s: mark (elements of the same rank that were looked at), isindclass,    *)
(* ds (the classes found); prefix, suffix, goodkernel, h_class for the     *)
(* class in progress.                                                      *)

\* The rank of e is that of no, and e was not looked at before.
Candidate(mon, s, no, e) == e \notin s.mark \cup s.isindclass /\ Rang(mon, e) = Rang(mon, no)

\* searchkernel() for the product of generator g, prefix y and no.
searchkernel(mon, s, no, y, g) ==
    LET test == mult(mon, g, mult(mon, y, no))
        new == Kernel(mon, test)
    IN  IF ~Candidate(mon, s, no, test) \/ new = Kernel(mon, no) THEN s
        ELSE [s EXCEPT !.mark = @ \cup {test},
                       !.prefix = IF \E x \in Range(@) : Kernel(mon, mult(mon, x, no)) = new THEN @
                                  ELSE Append(@, mult(mon, g, y))]

RECURSIVE l_reg_class(_, _, _, _)
\* One prefix for each kernel of the rank of no to its left.
l_reg_class(mon, s, no, next) ==
    IF next > Len(s.prefix) THEN s
    ELSE l_reg_class(mon, FoldLeft(LAMBDA r, g : searchkernel(mon, r, no, s.prefix[next], g), s,
                                   [g \in 1..mon.gno |-> g]), no, next + 1)

\* The prefixes whose kernel has this image as a transversal.
transversales(mon, s, no, image) ==
    {x \in Range(s.prefix) : Transversale(image, Kernel(mon, mult(mon, x, no)))}

\* searchimage() for the product of no, suffix x and generator g.
searchimage(mon, s, no, x, g) ==
    LET test == mon.gensucc[mult(mon, no, x) + 1][g]
        image == Image(mon, test)
        marked == [s EXCEPT !.mark = @ \cup {test}]
        good == transversales(mon, s, no, image)
    IN  IF ~Candidate(mon, s, no, test) THEN s
        ELSE IF image = Image(mon, no)
        THEN [marked EXCEPT !.h_class = @ \cup {test}, !.hstack = @ \cup {test}]
        ELSE IF \E y \in Range(s.suffix) : Image(mon, mult(mon, no, y)) = image
        THEN [marked EXCEPT !.hstack = @ \cup {test}]
        ELSE IF good # {}
        THEN [marked EXCEPT !.suffix = Append(@, mon.gensucc[x + 1][g]), !.goodkernel = @ \cup good]
        ELSE marked

RECURSIVE Images(_, _, _, _)
\* One suffix for each image of the rank of no that is a transversal of a kernel.
Images(mon, s, no, next) ==
    IF next > Len(s.suffix) THEN s
    ELSE Images(mon, FoldLeft(LAMBDA r, g : searchimage(mon, r, no, s.suffix[next], g), s,
                                [g \in 1..mon.gno |-> g]), no, next + 1)

RECURSIVE HClass(_, _, _)
\* The rest of the H-class: what is reached from hstack.
HClass(mon, s, no) ==
    IF s.hstack = {} THEN s
    ELSE LET tests == {t \in {mon.gensucc[e + 1][g] : e \in s.hstack, g \in 1..mon.gno} :
                          Candidate(mon, s, no, t)}
             images == {Image(mon, mult(mon, no, y)) : y \in Range(s.suffix)}
         IN  HClass(mon, [s EXCEPT !.mark = @ \cup tests,
                                   !.h_class = @ \cup {t \in tests : Image(mon, t) = Image(mon, no)},
                                   !.hstack = {t \in tests : Image(mon, t) \in images}], no)

r_h_reg_class(mon, s, no) ==
    HClass(mon, Images(mon, [s EXCEPT !.goodkernel = {0} \cup transversales(mon, s, no, Image(mon, no))],
                         no, 1), no)

\* rrep and lrep are the prefixes and suffixes that lead from H-class to H-class.
NewDClass(mon, no, regular, h_class, rrep, lrep) ==
    [org |-> no, regular |-> regular, rang |-> Rang(mon, no), hsize |-> Cardinality(h_class),
     rno |-> Cardinality(rrep), lno |-> Cardinality(lrep), hclass |-> h_class, rrep |-> rrep, lrep |-> lrep]
\* sftest() of a monoid with these D-classes: each H-class has one element.
test_htrivial(ds) == \A i \in DOMAIN ds : ds[i].hsize = 1
Members(mon, dc) == Product(mon, Product(mon, dc.rrep, dc.hclass), dc.lrep)
SizeOf(dc) == dc.hsize * dc.rno * dc.lno
Count(ds) == FoldLeft(LAMBDA n, dc : n + SizeOf(dc), 0, ds)

d_reg_class(mon, s, no) ==
    LET start == [mark |-> s.mark \cup {no}, isindclass |-> s.isindclass, ds |-> s.ds,
                  prefix |-> <<0>>, suffix |-> <<0>>, goodkernel |-> {0}, h_class |-> {no}, hstack |-> {}]
        end == r_h_reg_class(mon, l_reg_class(mon, start, no, 1), no)
        dc == NewDClass(mon, no, TRUE, end.h_class, end.goodkernel, Range(end.suffix))
    IN  [mark |-> end.mark, isindclass |-> s.isindclass \cup Members(mon, dc), ds |-> Append(s.ds, dc)]

-----------------------------------------------------------------------------
(* Irregular D-classes.                                                    *)

RECURSIVE Tree(_, _, _, _, _)
\* The queue of <<element, factor>> with the rank of no, reached by multiplication on a side.
Tree(mon, s, side, queue, next) ==
    IF next > Len(queue) THEN queue
    ELSE Tree(mon, s, side,
              FoldLeft(LAMBDA q, g :
                  LET new == Times(mon, side, queue[next][1], g)
                  IN  IF \/ new \in s.isindclass \/ \E i \in DOMAIN q : q[i][1] = new
                         \/ Rang(mon, new) # Rang(mon, queue[1][1])
                      THEN q ELSE Append(q, <<new, Times(mon, side, queue[next][2], g)>>),
                  queue, [g \in 1..mon.gno |-> g]), next + 1)

RECURSIVE Back(_, _, _, _)
\* Those of the queue from which the set S can be reached again.
Back(mon, side, queue, S) ==
    LET more == {q \in Range(queue) : q[1] \in S \/ \E g \in 1..mon.gno : Times(mon, side, q[1], g) \in S}
        T == {q[1] : q \in more}
    IN  IF T = S THEN SelectSeq(queue, LAMBDA q : q[1] \in S) ELSE Back(mon, side, queue, T)

\* r_irreg_class() and l_irreg_class(): the R-class or L-class of no.
irreg_class(mon, s, side, no) == Back(mon, side, Tree(mon, s, side, <<<<no, 0>>>>, 1), {no})

\* One factor for each H-class of such a class.
Representatives(mon, side, class, h_class) ==
    FoldLeft(LAMBDA r, q :
        IF q[1] \in r.seen THEN r
        ELSE [seen |-> r.seen \cup {q[1]} \cup (IF side = "r" THEN Product(mon, h_class, {q[2]})
                                               ELSE Product(mon, {q[2]}, h_class)),
              rep |-> r.rep \cup {q[2]}],
        [seen |-> h_class, rep |-> {0}], class)

d_irreg_class(mon, s, no) ==
    LET R == irreg_class(mon, s, "r", no)
        L == irreg_class(mon, s, "l", no)
        h_class == {q[1] : q \in Range(R)} \cap {q[1] : q \in Range(L)}
        right == Representatives(mon, "r", R, h_class)
        left == Representatives(mon, "l", L, h_class \cup right.seen)
        dc == [NewDClass(mon, no, FALSE, h_class, left.rep, right.rep)
                 EXCEPT !.lno = Len(R) \div Cardinality(h_class), !.rno = Len(L) \div Cardinality(h_class)]
    IN  [s EXCEPT !.isindclass = @ \cup right.seen \cup left.seen \cup Members(mon, dc),
                  !.ds = Append(@, dc)]

dc1gedc2(dc1, dc2) ==
    IF dc1.rang # dc2.rang THEN dc1.rang > dc2.rang
    ELSE IF dc1.regular # dc2.regular THEN dc1.regular
    ELSE IF dc1.rno # dc2.rno THEN dc1.rno < dc2.rno
    ELSE IF dc1.lno # dc2.lno THEN dc1.lno < dc2.lno
    ELSE IF dc1.hsize # dc2.hsize THEN dc1.hsize < dc2.hsize
    ELSE dc1.org < dc2.org

mon2dcl(mon) ==
    LET numbers == [i \in 1..Len(mon.no2trans) |-> i - 1]
        mno == Len(numbers)
        regular == FoldLeft(LAMBDA s, e : IF /\ Count(s.ds) < mno /\ e \notin s.isindclass
                                             /\ idempotent(e, mon) THEN d_reg_class(mon, s, e) ELSE s,
                            [mark |-> {}, isindclass |-> {}, ds |-> <<>>], numbers)
        all == FoldLeft(LAMBDA s, e : IF Count(s.ds) < mno /\ e \notin s.isindclass
                                      THEN d_irreg_class(mon, s, e) ELSE s, regular, Tail(numbers))
    IN  SortSeq(all.ds, dc1gedc2)

-----------------------------------------------------------------------------
(* Relations <<left, gen>>: word(left).gen equals another word.  They are  *)
(* kept in a search tree <<relation, lsucc, rsucc>>, the empty one <<>>.   *)

Side(mon, rel) == Append(mon.word[rel[1] + 1], rel[2])

\* 1: rel2 implies rel1; 0: rel1 is greater; 2: rel2 is greater, as words read from the right.
revlex(mon, rel1, rel2) ==
    LET a == Reverse(Side(mon, rel1))
        b == Reverse(Side(mon, rel2))
        differ == {i \in 1..Min({Len(a), Len(b)}) : a[i] # b[i]}
    IN  IF differ = {} THEN (IF Len(a) < Len(b) THEN 2 ELSE 1)
        ELSE IF a[Min(differ)] < b[Min(differ)] THEN 2 ELSE 0

RECURSIVE inrel(_, _, _)
\* The tree stays as it is for a relation that another one implies.
inrel(mon, tree, rel) ==
    IF tree = <<>> THEN <<rel, <<>>, <<>>>>
    ELSE CASE revlex(mon, rel, tree[1]) = 1 -> tree
           [] revlex(mon, rel, tree[1]) = 0 -> [tree EXCEPT ![2] = inrel(mon, @, rel)]
           [] OTHER -> [tree EXCEPT ![3] = inrel(mon, @, rel)]

\* The word of the zero, as a relation.
ZeroRelation(mon) ==
    LET w == mon.word[zero(mon) + 1]
    IN  IF w = <<>> THEN <<0, 0>> ELSE <<NumberOf(mon.word, Front(w)), Last(w)>>

mon2rel(mon) ==
    LET hasZero == zero(mon) # Len(mon.no2trans)
        products == [k \in 1..(Len(mon.no2trans) * mon.gno) |-> <<(k - 1) \div mon.gno, ((k - 1) % mon.gno) + 1>>]
        goes(rel) == mon.gensucc[rel[1] + 1][rel[2]]
        new(rel) == /\ mon.word[goes(rel) + 1] # Side(mon, rel)
                    /\ hasZero /\ goes(rel) = zero(mon) =>
                          zero(mon) \notin {rel[1], rel[2]} /\ revlex(mon, rel, ZeroRelation(mon)) # 1
        add(r, rel) == LET tree == inrel(mon, r.tree, rel)
                       IN  IF ~new(rel) \/ tree = r.tree THEN r
                           ELSE [tree |-> tree, list |-> Append(r.list, rel)]
    IN  FoldLeft(add, [tree |-> <<>>, list |-> IF hasZero THEN <<ZeroRelation(mon)>> ELSE <<>>], products).list

-----------------------------------------------------------------------------
(* mon2sfx.c.  Classes are numbered as the code does: D-classes by their   *)
(* position from 0, R- and L-classes by their D-class and representative.  *)

elem2class(mon, ds) ==
    [e \in Elements(mon) |->
        LET d == CHOOSE i \in DOMAIN ds : e \in Members(mon, ds[i])
        IN  [dno |-> d - 1, rang |-> ds[d].rang,
             rno |-> <<d, CHOOSE x \in ds[d].rrep :
                             e \in Product(mon, Product(mon, {x}, ds[d].hclass), ds[d].lrep)>>,
             lno |-> <<d, CHOOSE y \in ds[d].lrep :
                             e \in Product(mon, Product(mon, ds[d].rrep, ds[d].hclass), {y})>>]]

\* c2ccompute(): moves between R-classes ("r") or L-classes ("l") of one rank, from one
\* element of each.
c2ccompute(mon, ds, class, side) ==
    LET number(e) == IF side = "r" THEN class[e].rno ELSE class[e].lno
        chosen == UNION {IF side = "r" THEN Product(mon, dc.rrep, {dc.org}) ELSE Product(mon, {dc.org}, dc.lrep)
                         : dc \in Range(ds)}
    IN  {<<number(m[1]), number(m[2])>> :
            m \in {p \in {<<e, Times(mon, side, e, g)>> : e \in chosen, g \in 1..mon.gno} :
                      class[p[1]].rang = class[p[2]].rang}}

RECURSIVE testc2c(_, _, _)
\* Whether a class in "to" can be reached from those in "from".
testc2c(from, to, c2c) ==
    LET more == from \cup {m[2] : m \in {p \in c2c : p[1] \in from}}
    IN  to \in from \/ (more # from /\ testc2c(more, to, c2c))

RECURSIVE d2dcomplete(_, _, _)
\* d: the pairs of D-classes and those that are complete.  (The code's loops run from 1 to the
\* number of classes: number 0, that of the identity, follows no class, and behind the last
\* number there is a byte 0 as long as a row has room for it.)
d2dcomplete(d, dno, last) ==
    IF dno \in d.complete THEN d
    ELSE FoldLeft(LAMBDA c, i : IF <<dno, i>> \notin c.pairs THEN c
                     ELSE LET below == d2dcomplete(c, i, last)
                          IN  [below EXCEPT !.pairs = @ \cup {<<dno, p[2]>> : p \in {q \in @ : q[1] = i /\ q[2] # 0}}],
                  [d EXCEPT !.complete = @ \cup {dno}], [i \in 1..last |-> i])

d2dcompute(mon, ds, class) ==
    LET around(e) == {mon.gensucc[e + 1][g] : g \in 1..mon.gno} \cup {mult(mon, g, e) : g \in 1..mon.gno}
                     \cup {mon.gensucc[mult(mon, g, e) + 1][h] : g, h \in 1..mon.gno}
        direct == UNION {{<<class[e].dno, class[f].dno>> : f \in around(e)} : e \in Elements(mon)}
        last == Len(ds) - 1
        all == FoldLeft(LAMBDA d, i : d2dcomplete(d, i, last), [pairs |-> direct, complete |-> {}],
                        [i \in 1..(last + 1) |-> i - 1])
    IN  all.pairs \cup {<<i, i>> : i \in 0..last}

\* inversphi(m): the factors for one element; k has the classes and their relations.
inversphi(mon, k, m) ==
    LET G == 1..mon.gno
        higher == {n \in Elements(mon) : k.class[n].rang >= k.class[m].rang}
        above(n) == k.class[n].rang > k.class[m].rang
        isin(e) == <<k.class[e].dno, k.class[m].dno>> \in k.d2d     \* m in M.e.M
    IN  [u |-> {p \in higher \X G : /\ k.class[mon.gensucc[p[1] + 1][p[2]]].rno = k.class[m].rno
                                    /\ above(p[1]) \/ ~testc2c({k.class[m].rno}, k.class[p[1]].rno, k.r2r)},
         v |-> {p \in G \X higher : /\ k.class[mult(mon, p[1], p[2])].lno = k.class[m].lno
                                    /\ above(p[2]) \/ ~testc2c({k.class[m].lno}, k.class[p[2]].lno, k.l2l)},
         w0 |-> {p \in G \X higher \X G :
                    LET left == mult(mon, p[1], p[2])
                    IN  isin(left) /\ isin(mon.gensucc[p[2] + 1][p[3]]) /\ ~isin(mon.gensucc[left + 1][p[3]])},
         w1 |-> {g \in G : ~isin(g)}]

RECURSIVE Computed(_, _, _)
\* The elements that the expressions of those in S use.
Computed(mon, k, S) ==
    LET f == [m \in S \ {0} |-> inversphi(mon, k, m)]
        more == S \cup UNION {{p[1] : p \in f[m].u} \cup {p[2] : p \in f[m].v} \cup {p[2] : p \in f[m].w0}
                              : m \in S \ {0}}
    IN  IF more = S THEN f ELSE Computed(mon, k, more)

mon2sfx(da, mon, ds) ==
    LET class == elem2class(mon, ds)
        k == [class |-> class, r2r |-> c2ccompute(mon, ds, class, "r"), l2l |-> c2ccompute(mon, ds, class, "l"),
              d2d |-> d2dcompute(mon, ds, class)]
    IN  Computed(mon, k, {m \in Elements(mon) : mon.no2trans[m + 1][da.init] \in da.final})
=============================================================================
