---------------------------- MODULE LabelProofs ----------------------------
(***************************************************************************)
(* Labels: LabelsResolve of Optimizer.tla holds of every program.  A code  *)
(* is sound when its branches find their targets in it, no label has two   *)
(* targets in it or in its lambdas, and its lambdas are sound.  Each pass  *)
(* makes one code of sound ones that have no label in common, and of new   *)
(* labels.                                                                 *)
(***************************************************************************)
EXTENDS Compiler, NumberProofs, SequenceTheorems

IsSeq(s) == \E S : s \in Seq(S)

-----------------------------------------------------------------------------
(* Lambdas in lambdas.                                                     *)

\* s leads from code to l along the path p.
Leads(s, code, p, l) ==
  /\ s = [k \in 0 .. Len(p) |-> s[k]]
  /\ s[0] = code /\ s[Len(p)] = l
  /\ \A k \in 1 .. Len(p) :
       /\ p[k] \in DOMAIN s[k - 1] /\ IsLambda(s[k - 1][p[k]])
       /\ s[k] = s[k - 1][p[k]].code

\* l is code, or that of a lambda at path p in code.
Reaches(code, p, l) == p \in Seq(Nat) /\ \E s : Leads(s, code, p, l)

\* The path of no steps leads nowhere else.
LEMMA ReachesItself ==
  ASSUME NEW code, NEW l
  PROVE  Reaches(code, << >>, l) <=> l = code
<1>1. ASSUME Reaches(code, << >>, l)
      PROVE  l = code
  BY <1>1 DEF Reaches, Leads
<1>2. ASSUME l = code
      PROVE  Reaches(code, << >>, l)
  <2> DEFINE s == [k \in 0 .. Len(<< >>) |-> code]
  <2>1. Leads(s, code, << >>, l)
    BY <1>2 DEF Leads
  <2>2. << >> \in Seq(Nat)
    BY EmptySeq
  <2> HIDE DEF s
  <2> QED BY <2>1, <2>2 DEF Reaches
<1> QED BY <1>1, <1>2

\* A path and what it begins with.
LEMMA PathIs ==
  ASSUME NEW p \in Seq(Nat), NEW i \in Nat, NEW q, q = <<i>> \o p
  PROVE  /\ q \in Seq(Nat) /\ Len(p) \in Nat /\ Len(q) = Len(p) + 1 /\ q[1] = i
         /\ \A k \in 2 .. Len(q) : q[k] = p[k - 1]
<1>1. <<i>> \in Seq(Nat) /\ Len(<<i>>) = 1 /\ <<i>>[1] = i /\ Len(p) \in Nat
  BY LenProperties
<1> QED BY <1>1, ConcatProperties

\* A path begins with a lambda of the code, and goes on in it.
LEMMA ReachesOn ==
  ASSUME NEW code, NEW p \in Seq(Nat), NEW i \in Nat, NEW l,
         Reaches(code, <<i>> \o p, l)
  PROVE  i \in DOMAIN code /\ IsLambda(code[i]) /\ Reaches(code[i].code, p, l)
<1> DEFINE q == <<i>> \o p
<1>1. PICK s : Leads(s, code, q, l)
  BY DEF Reaches
<1>2. /\ Len(p) \in Nat /\ Len(q) = Len(p) + 1 /\ q[1] = i
      /\ \A k \in 2 .. Len(q) : q[k] = p[k - 1]
  BY PathIs
<1> HIDE DEF q
<1>3. /\ s[0] = code /\ s[Len(p) + 1] = l
      /\ \A k \in 1 .. Len(p) + 1 :
           /\ q[k] \in DOMAIN s[k - 1] /\ IsLambda(s[k - 1][q[k]])
           /\ s[k] = s[k - 1][q[k]].code
  BY <1>1, <1>2 DEF Leads
<1>4. i \in DOMAIN code /\ IsLambda(code[i]) /\ s[1] = code[i].code
  BY <1>2, <1>3
<1> DEFINE t == [k \in 0 .. Len(p) |-> s[k + 1]]
<1>5. ASSUME NEW k \in 1 .. Len(p)
      PROVE  /\ p[k] \in DOMAIN t[k - 1] /\ IsLambda(t[k - 1][p[k]])
             /\ t[k] = t[k - 1][p[k]].code
  <2>1. k + 1 \in 2 .. Len(q) /\ q[k + 1] = p[k] /\ k + 1 \in 1 .. Len(p) + 1
    BY <1>2
  <2>2. t[k - 1] = s[k] /\ t[k] = s[k + 1]
    BY <1>2
  <2>3. /\ q[k + 1] \in DOMAIN s[k] /\ IsLambda(s[k][q[k + 1]])
        /\ s[k + 1] = s[k][q[k + 1]].code
    BY <1>3, <2>1
  <2> QED BY <2>1, <2>2, <2>3
<1>6. t[0] = code[i].code /\ t[Len(p)] = l
  BY <1>2, <1>3, <1>4
<1>7. t = [k \in 0 .. Len(p) |-> t[k]]
  OBVIOUS
<1> HIDE DEF t
<1>8. Leads(t, code[i].code, p, l)
  BY <1>5, <1>6, <1>7 DEF Leads
<1> QED BY <1>4, <1>8 DEF Reaches

\* What a lambda of the code reaches, the code reaches.
LEMMA ReachesFrom ==
  ASSUME NEW code, NEW p \in Seq(Nat), NEW i \in Nat, NEW l,
         i \in DOMAIN code, IsLambda(code[i]), Reaches(code[i].code, p, l)
  PROVE  Reaches(code, <<i>> \o p, l)
<1> DEFINE q == <<i>> \o p
<1>1. PICK t : Leads(t, code[i].code, p, l)
  BY DEF Reaches
<1>2. /\ q \in Seq(Nat) /\ Len(p) \in Nat /\ Len(q) = Len(p) + 1 /\ q[1] = i
      /\ \A k \in 2 .. Len(q) : q[k] = p[k - 1]
  BY PathIs
<1> HIDE DEF q
<1> DEFINE s == [k \in 0 .. Len(q) |-> IF k = 0 THEN code ELSE t[k - 1]]
<1>3. /\ t[0] = code[i].code /\ t[Len(p)] = l
      /\ \A k \in 1 .. Len(p) :
           /\ p[k] \in DOMAIN t[k - 1] /\ IsLambda(t[k - 1][p[k]])
           /\ t[k] = t[k - 1][p[k]].code
  BY <1>1 DEF Leads
<1>4. s[0] = code /\ s[Len(q)] = l /\ s[1] = code[i].code
  BY <1>2, <1>3
<1>5. ASSUME NEW k \in 1 .. Len(q)
      PROVE  /\ q[k] \in DOMAIN s[k - 1] /\ IsLambda(s[k - 1][q[k]])
             /\ s[k] = s[k - 1][q[k]].code
  <2>1. CASE k = 1
    <3>1. s[k - 1] = code /\ s[k] = code[i].code /\ q[k] = i
      BY <1>2, <1>4, <2>1
    <3> HIDE DEF s
    <3> QED BY <3>1
  <2>2. CASE k > 1
    <3>1. k - 1 \in 1 .. Len(p) /\ q[k] = p[k - 1]
      BY <1>2, <2>2
    <3>2. s[k - 1] = t[(k - 1) - 1] /\ s[k] = t[k - 1]
      BY <1>2, <2>2
    <3> HIDE DEF s
    <3> QED BY <1>3, <3>1, <3>2
  <2> QED BY <1>2, <2>1, <2>2
<1>6. s = [k \in 0 .. Len(q) |-> s[k]]
  OBVIOUS
<1> HIDE DEF s
<1>7. Leads(s, code, q, l)
  BY <1>4, <1>5, <1>6 DEF Leads
<1> QED BY <1>2, <1>7 DEF Reaches, q

\* A path that is not empty has a first step.
LEMMA FirstStep ==
  ASSUME NEW p \in Seq(Nat), p # << >>
  PROVE  \E i \in Nat, q \in Seq(Nat) : p = <<i>> \o q
<1>1. p[1] \in Nat /\ Len(p) \in Nat /\ Len(p) >= 1
  BY EmptySeq, LenProperties, ElementOfSeq
<1>2. SubSeq(p, 1, Len(p)) = <<p[1]>> \o SubSeq(p, 2, Len(p))
  <2>1. 1 \in 1 .. Len(p) /\ Len(p) \in 1 .. Len(p)
    BY <1>1
  <2>2. SubSeq(p, 1, Len(p)) = <<p[1]>> \o SubSeq(p, 1 + 1, Len(p))
    BY <2>1, SubSeqRecursiveFirst
  <2> QED BY <2>2
<1>3. SubSeq(p, 1, Len(p)) = p
  BY SubSeqFull
<1>4. SubSeq(p, 2, Len(p)) \in Seq(Nat)
  <2>1. \A k \in 2 .. Len(p) : p[k] \in Nat
    BY <1>1, ElementOfSeq
  <2> QED BY <1>1, <2>1, SubSeqProperties
<1> QED BY <1>1, <1>2, <1>3, <1>4

-----------------------------------------------------------------------------
(* What is true of a code follows from what is true of its nodes.          *)

\* A target of l is at i in c, which is at path p in code.
TargetAt(code, p, c, i, l) ==
  /\ Reaches(code, p, c)
  /\ i \in DOMAIN c /\ c[i].op = "branch_target" /\ c[i].label = l

\* There is a target of l in code or in one of its lambdas.
Carries(code, l) == \E p, c, i : TargetAt(code, p, c, i, l)

IsNode(n) == n = Node(n.op, n.code, n.label)

\* c is a sequence of nodes, and every branch in it finds its target in it.
Closed(c) ==
  /\ IsSeq(c)
  /\ \A i \in DOMAIN c : IsNode(c[i])
  /\ \A i \in DOMAIN c : c[i].op \in Branches => Targets(c, c[i].label) # {}

\* Every branch finds its target, and no label has two.
Good(code) ==
  /\ \A p, c : Reaches(code, p, c) => Closed(c)
  /\ \A p, c, i, q, d, j, l :
       TargetAt(code, p, c, i, l) /\ TargetAt(code, q, d, j, l)
       => p = q /\ c = d /\ i = j

\* Node n is a target of l, or there is one in it.
Has(n, l) ==
  \/ n.op = "branch_target" /\ n.label = l
  \/ IsLambda(n) /\ Carries(n.code, l)

\* No two nodes have a label in common.
Apart(code) ==
  \A i, j \in DOMAIN code : \A l : Has(code[i], l) /\ Has(code[j], l) => i = j

\* The lambdas in it are good.
GoodWithin(code) == \A i \in DOMAIN code : IsLambda(code[i]) => Good(code[i].code)

\* The indices of a sequence are naturals.
LEMMA SeqIndices ==
  ASSUME NEW s, IsSeq(s)
  PROVE  Len(s) \in Nat /\ DOMAIN s = 1 .. Len(s)
  BY LenProperties DEF IsSeq

\* A target is one of the code's own, or in a lambda of it.
LEMMA TargetIs ==
  ASSUME NEW code, IsSeq(code), NEW p, NEW c, NEW i, NEW l,
         TargetAt(code, p, c, i, l)
  PROVE  \/ p = << >> /\ c = code /\ i \in DOMAIN code
            /\ code[i].op = "branch_target" /\ code[i].label = l
         \/ \E k \in DOMAIN code, q \in Seq(Nat) :
              p = <<k>> \o q /\ IsLambda(code[k]) /\ TargetAt(code[k].code, q, c, i, l)
<1>1. p \in Seq(Nat)
  BY DEF TargetAt, Reaches
<1>2. CASE p = << >>
  BY <1>2, ReachesItself DEF TargetAt
<1>3. CASE p # << >>
  <2>1. PICK k \in Nat, q \in Seq(Nat) : p = <<k>> \o q
    BY <1>1, <1>3, FirstStep
  <2>2. k \in DOMAIN code /\ IsLambda(code[k]) /\ Reaches(code[k].code, q, c)
    <3>1. Reaches(code, <<k>> \o q, c)
      BY <2>1 DEF TargetAt
    <3> QED BY <3>1, ReachesOn
  <2> QED BY <2>1, <2>2 DEF TargetAt
<1> QED BY <1>2, <1>3

\* A target in a lambda of the code is a target in the code.
LEMMA TargetWithin ==
  ASSUME NEW code, IsSeq(code), NEW k \in DOMAIN code, IsLambda(code[k]),
         NEW q, NEW c, NEW i, NEW l, TargetAt(code[k].code, q, c, i, l)
  PROVE  TargetAt(code, <<k>> \o q, c, i, l)
<1>1. k \in Nat /\ q \in Seq(Nat)
  BY SeqIndices DEF TargetAt, Reaches
<1> QED BY <1>1, ReachesFrom DEF TargetAt

\* A code has the labels that its nodes have.
LEMMA CarriesIs ==
  ASSUME NEW code, IsSeq(code), NEW l
  PROVE  Carries(code, l) <=> \E k \in DOMAIN code : Has(code[k], l)
<1>1. ASSUME Carries(code, l)
      PROVE  \E k \in DOMAIN code : Has(code[k], l)
  <2>1. PICK p, c, i : TargetAt(code, p, c, i, l)
    BY <1>1 DEF Carries
  <2>2. CASE p = << >> /\ c = code /\ i \in DOMAIN code
             /\ code[i].op = "branch_target" /\ code[i].label = l
    BY <2>2 DEF Has
  <2>3. CASE \E k \in DOMAIN code, q \in Seq(Nat) :
               /\ p = <<k>> \o q /\ IsLambda(code[k])
               /\ TargetAt(code[k].code, q, c, i, l)
    BY <2>3 DEF Has, Carries
  <2> QED BY <2>1, <2>2, <2>3, TargetIs
<1>2. ASSUME NEW k \in DOMAIN code, Has(code[k], l)
      PROVE  Carries(code, l)
  <2>1. CASE code[k].op = "branch_target" /\ code[k].label = l
    <3>1. Reaches(code, << >>, code)
      BY ReachesItself
    <3> QED BY <2>1, <3>1 DEF TargetAt, Carries
  <2>2. CASE IsLambda(code[k]) /\ Carries(code[k].code, l)
    <3>1. PICK q, c, i : TargetAt(code[k].code, q, c, i, l)
      BY <2>2 DEF Carries
    <3>2. TargetAt(code, <<k>> \o q, c, i, l)
      BY <2>2, <3>1, TargetWithin
    <3> QED BY <3>2 DEF Carries
  <2> QED BY <1>2, <2>1, <2>2 DEF Has
<1> QED BY <1>1, <1>2

\* Closed, apart and good within is good.
LEMMA ComposedGood ==
  ASSUME NEW code, Closed(code), Apart(code), GoodWithin(code)
  PROVE  Good(code)
<1>1. IsSeq(code)
  BY DEF Closed
<1>2. ASSUME NEW p, NEW c, Reaches(code, p, c)
      PROVE  Closed(c)
  <2>1. CASE p = << >>
    BY <1>2, <2>1, ReachesItself
  <2>2. CASE p # << >>
    <3>1. PICK k \in Nat, q \in Seq(Nat) : p = <<k>> \o q
      BY <1>2, <2>2, FirstStep DEF Reaches
    <3>2. k \in DOMAIN code /\ IsLambda(code[k]) /\ Reaches(code[k].code, q, c)
      BY <1>2, <3>1, ReachesOn
    <3> QED BY <3>2 DEF GoodWithin, Good
  <2> QED BY <2>1, <2>2
<1>3. ASSUME NEW p, NEW c, NEW i, NEW q, NEW d, NEW j, NEW l,
             TargetAt(code, p, c, i, l), TargetAt(code, q, d, j, l)
      PROVE  p = q /\ c = d /\ i = j
  <2> DEFINE Own(r, e, m) ==
               /\ r = << >> /\ e = code /\ m \in DOMAIN code
               /\ code[m].op = "branch_target" /\ code[m].label = l
             Inner(r, e, m) ==
               \E k \in DOMAIN code, s \in Seq(Nat) :
                 /\ r = <<k>> \o s /\ IsLambda(code[k])
                 /\ TargetAt(code[k].code, s, e, m, l)
  <2>1. Own(p, c, i) \/ Inner(p, c, i)
    BY <1>1, <1>3, TargetIs
  <2>2. Own(q, d, j) \/ Inner(q, d, j)
    BY <1>1, <1>3, TargetIs
  <2>3. ASSUME NEW r, NEW e, NEW m, Own(r, e, m)
        PROVE  Has(code[m], l)
    BY <2>3 DEF Has
  <2>4. ASSUME NEW k \in DOMAIN code, NEW s, NEW e, NEW m, IsLambda(code[k]),
               TargetAt(code[k].code, s, e, m, l)
        PROVE  Has(code[k], l)
    BY <2>4 DEF Has, Carries
  <2>5. ASSUME NEW k \in DOMAIN code, IsLambda(code[k])
        PROVE  code[k].op # "branch_target"
    BY <2>5 DEF IsLambda
  <2>6. CASE Own(p, c, i) /\ Own(q, d, j)
    BY <2>3, <2>6 DEF Apart
  <2>7. CASE Own(p, c, i) /\ Inner(q, d, j)
    BY <2>3, <2>4, <2>5, <2>7 DEF Apart
  <2>8. CASE Inner(p, c, i) /\ Own(q, d, j)
    BY <2>3, <2>4, <2>5, <2>8 DEF Apart
  <2>9. CASE Inner(p, c, i) /\ Inner(q, d, j)
    <3>1. PICK k \in DOMAIN code, s \in Seq(Nat) :
            /\ p = <<k>> \o s /\ IsLambda(code[k])
            /\ TargetAt(code[k].code, s, c, i, l)
      BY <2>9
    <3>2. PICK n \in DOMAIN code, t \in Seq(Nat) :
            /\ q = <<n>> \o t /\ IsLambda(code[n])
            /\ TargetAt(code[n].code, t, d, j, l)
      BY <2>9
    <3>3. k = n
      BY <2>4, <3>1, <3>2 DEF Apart
    <3>4. s = t /\ c = d /\ i = j
      BY <3>1, <3>2, <3>3 DEF GoodWithin, Good
    <3> QED BY <3>1, <3>2, <3>3, <3>4
  <2> HIDE DEF Own, Inner
  <2> QED BY <2>1, <2>2, <2>6, <2>7, <2>8, <2>9
<1> QED BY <1>2, <1>3 DEF Good

\* And the other way round.
LEMMA GoodComposed ==
  ASSUME NEW code, Good(code)
  PROVE  Closed(code) /\ Apart(code) /\ GoodWithin(code)
<1>1. Reaches(code, << >>, code)
  BY ReachesItself
<1>2. Closed(code) /\ IsSeq(code)
  BY <1>1 DEF Good, Closed
<1>3. ASSUME NEW k \in DOMAIN code, IsLambda(code[k])
      PROVE  Good(code[k].code)
  <2>1. k \in Nat
    BY <1>2, SeqIndices
  <2>2. ASSUME NEW p, NEW c, Reaches(code[k].code, p, c)
        PROVE  Closed(c)
    <3>1. Reaches(code, <<k>> \o p, c)
      BY <1>3, <2>1, <2>2, ReachesFrom DEF Reaches
    <3> QED BY <3>1 DEF Good
  <2>3. ASSUME NEW p, NEW c, NEW i, NEW q, NEW d, NEW j, NEW l,
               TargetAt(code[k].code, p, c, i, l), TargetAt(code[k].code, q, d, j, l)
        PROVE  p = q /\ c = d /\ i = j
    <3>1. TargetAt(code, <<k>> \o p, c, i, l) /\ TargetAt(code, <<k>> \o q, d, j, l)
      BY <1>2, <1>3, <2>3, TargetWithin
    <3>2. <<k>> \o p = <<k>> \o q /\ c = d /\ i = j
      BY <3>1 DEF Good
    <3>3. p \in Seq(Nat) /\ q \in Seq(Nat)
      BY <2>3 DEF TargetAt, Reaches
    <3>4. <<k>> \in Seq(Nat)
      BY <2>1
    <3>5. p = q
      BY <3>2, <3>3, <3>4, ConcatSimplifications
    <3> QED BY <3>2, <3>5
  <2> QED BY <2>2, <2>3 DEF Good
<1>4. Apart(code)
  <2> SUFFICES ASSUME NEW i \in DOMAIN code, NEW j \in DOMAIN code, NEW l,
                      Has(code[i], l), Has(code[j], l)
               PROVE  i = j
    BY DEF Apart
  <2>1. \A k \in DOMAIN code : Has(code[k], l) =>
          \/ TargetAt(code, << >>, code, k, l)
          \/ \E q \in Seq(Nat) : \E c, m : TargetAt(code, <<k>> \o q, c, m, l)
    <3> SUFFICES ASSUME NEW k \in DOMAIN code, Has(code[k], l)
                 PROVE  \/ TargetAt(code, << >>, code, k, l)
                        \/ \E q \in Seq(Nat) : \E c, m : TargetAt(code, <<k>> \o q, c, m, l)
      OBVIOUS
    <3>1. CASE code[k].op = "branch_target" /\ code[k].label = l
      BY <1>1, <3>1 DEF TargetAt
    <3>2. CASE IsLambda(code[k]) /\ Carries(code[k].code, l)
      <4>1. PICK q, c, m : TargetAt(code[k].code, q, c, m, l)
        BY <3>2 DEF Carries
      <4>2. TargetAt(code, <<k>> \o q, c, m, l) /\ q \in Seq(Nat)
        BY <1>2, <3>2, <4>1, TargetWithin DEF TargetAt, Reaches
      <4> QED BY <4>2
    <3> QED BY <3>1, <3>2 DEF Has
  <2>2. \A k \in DOMAIN code, q \in Seq(Nat) :
          <<k>> \o q # << >> /\ (<<k>> \o q)[1] = k
    <3> TAKE k \in DOMAIN code, q \in Seq(Nat)
    <3>1. k \in Nat
      BY <1>2, SeqIndices
    <3> DEFINE r == <<k>> \o q
    <3>2. Len(q) \in Nat /\ Len(r) = Len(q) + 1 /\ r[1] = k
      BY <3>1, PathIs
    <3>3. Len(<< >>) = 0
      BY EmptySeq
    <3> HIDE DEF r
    <3>4. r # << >>
      BY <3>2, <3>3
    <3> QED BY <3>2, <3>4 DEF r
  <2>3. \A p, c, m, q, d, n : TargetAt(code, p, c, m, l) /\ TargetAt(code, q, d, n, l)
                              => p = q /\ m = n
    BY DEF Good
  <2>4. CASE TargetAt(code, << >>, code, i, l) /\ TargetAt(code, << >>, code, j, l)
    BY <2>3, <2>4
  <2>5. ASSUME NEW k \in DOMAIN code, TargetAt(code, << >>, code, k, l),
               NEW n \in DOMAIN code, NEW q \in Seq(Nat), NEW c, NEW m,
               TargetAt(code, <<n>> \o q, c, m, l)
        PROVE  FALSE
    <3>1. << >> = <<n>> \o q
      BY <2>3, <2>5
    <3> QED BY <2>2, <3>1
  <2>6. CASE /\ \E q \in Seq(Nat) : \E c, m : TargetAt(code, <<i>> \o q, c, m, l)
             /\ \E q \in Seq(Nat) : \E c, m : TargetAt(code, <<j>> \o q, c, m, l)
    <3>1. PICK p \in Seq(Nat) : \E c, m : TargetAt(code, <<i>> \o p, c, m, l)
      BY <2>6
    <3>2. PICK q \in Seq(Nat) : \E d, n : TargetAt(code, <<j>> \o q, d, n, l)
      BY <2>6
    <3>3. <<i>> \o p = <<j>> \o q
      BY <2>3, <3>1, <3>2
    <3>4. (<<i>> \o p)[1] = i /\ (<<j>> \o q)[1] = j
      BY <2>2
    <3> QED BY <3>3, <3>4
  <2>7. /\ \/ TargetAt(code, << >>, code, i, l)
           \/ \E q \in Seq(Nat) : \E c, m : TargetAt(code, <<i>> \o q, c, m, l)
        /\ \/ TargetAt(code, << >>, code, j, l)
           \/ \E q \in Seq(Nat) : \E c, m : TargetAt(code, <<j>> \o q, c, m, l)
    BY <2>1
  <2> QED BY <2>4, <2>5, <2>6, <2>7
<1> QED BY <1>2, <1>3, <1>4 DEF GoodWithin

-----------------------------------------------------------------------------
(* Pieces of code.                                                         *)

\* One of the nodes of s is or has a target of l.
HasIn(s, l) == \E i \in DOMAIN s : Has(s[i], l)

\* Nodes that may be put next to one another.
Piece(s) == IsSeq(s) /\ Apart(s) /\ GoodWithin(s)

\* r is a piece made of the nodes that s has at the indices K.
Gathers(r, s, K) ==
  /\ Piece(r) /\ Range(r) = {s[k] : k \in K}
  /\ \A l : HasIn(r, l) <=> \E k \in K : Has(s[k], l)

\* r is a piece made of the nodes of a and b.
Combines(r, a, b) ==
  /\ Piece(r) /\ Range(r) = Range(a) \cup Range(b)
  /\ \A l : HasIn(r, l) <=> HasIn(a, l) \/ HasIn(b, l)

\* Branches find their targets wherever in the code they are.
LEMMA ClosedIs ==
  ASSUME NEW c, IsSeq(c)
  PROVE  Closed(c) <=>
           \A n \in Range(c) :
             /\ IsNode(n)
             /\ n.op \in Branches => Labelled("branch_target", n.label) \in Range(c)
<1>1. \A l : Targets(c, l) # {} <=> Labelled("branch_target", l) \in Range(c)
  BY DEF Targets, Range
<1>2. Closed(c) <=> \A i \in DOMAIN c :
        /\ IsNode(c[i])
        /\ c[i].op \in Branches => Labelled("branch_target", c[i].label) \in Range(c)
  <2>1. ASSUME NEW i \in DOMAIN c
        PROVE  (c[i].op \in Branches => Targets(c, c[i].label) # {})
               <=> (c[i].op \in Branches
                      => Labelled("branch_target", c[i].label) \in Range(c))
    BY <1>1
  <2> QED BY <2>1 DEF Closed
<1>3. ASSUME NEW n \in Range(c)
      PROVE  \E i \in DOMAIN c : c[i] = n
  BY DEF Range
<1>4. ASSUME NEW i \in DOMAIN c
      PROVE  c[i] \in Range(c)
  BY DEF Range
<1> QED BY <1>2, <1>3, <1>4

\* A good code is a piece, and has the labels its nodes have.
LEMMA GoodPiece ==
  ASSUME NEW s, Good(s)
  PROVE  Piece(s) /\ Closed(s) /\ \A l : Carries(s, l) <=> HasIn(s, l)
<1>1. Closed(s) /\ Apart(s) /\ GoodWithin(s) /\ IsSeq(s)
  BY GoodComposed DEF Closed
<1>2. \A l : Carries(s, l) <=> HasIn(s, l)
  BY <1>1, CarriesIs DEF HasIn
<1> QED BY <1>1, <1>2 DEF Piece

\* r is a with b behind it.
IsJoin(r, a, b) ==
  /\ IsSeq(r) /\ Len(r) = Len(a) + Len(b)
  /\ \A i \in 1 .. Len(r) : r[i] = IF i <= Len(a) THEN a[i] ELSE b[i - Len(a)]

\* r is what s has from m to n.
IsPart(r, s, m, n) ==
  /\ IsSeq(r) /\ Len(r) = IF m <= n THEN n - m + 1 ELSE 0
  /\ \A i \in 1 .. Len(r) : r[i] = s[m + i - 1]

\* One sequence behind another.
LEMMA JoinSeqs ==
  ASSUME NEW a, IsSeq(a), NEW b, IsSeq(b), NEW r, r = a \o b
  PROVE  IsJoin(r, a, b)
<1>1. PICK S : a \in Seq(S)
  BY DEF IsSeq
<1>2. PICK T : b \in Seq(T)
  BY DEF IsSeq
<1>3. a \in Seq(S \cup T) /\ b \in Seq(S \cup T)
  BY <1>1, <1>2, SeqMonotonic
<1>4. /\ a \o b \in Seq(S \cup T) /\ Len(a \o b) = Len(a) + Len(b)
      /\ \A i \in 1 .. Len(a) + Len(b) :
           (a \o b)[i] = IF i <= Len(a) THEN a[i] ELSE b[i - Len(a)]
  BY <1>3, ConcatProperties
<1> QED BY <1>4 DEF IsSeq, IsJoin

\* A part of a sequence.
LEMMA PartSeq ==
  ASSUME NEW s, IsSeq(s), NEW m \in Nat, m > 0, NEW n \in Nat, n <= Len(s),
         NEW r, r = SubSeq(s, m, n)
  PROVE  IsPart(r, s, m, n)
<1>1. PICK S : s \in Seq(S)
  BY DEF IsSeq
<1>2. Len(s) \in Nat
  BY SeqIndices
<1>3. \A i \in m .. n : s[i] \in S
  BY <1>1, <1>2, ElementOfSeq
<1>4. /\ SubSeq(s, m, n) \in Seq(S)
      /\ Len(SubSeq(s, m, n)) = IF m <= n THEN n - m + 1 ELSE 0
      /\ \A i \in 1 .. n - m + 1 : SubSeq(s, m, n)[i] = s[m + i - 1]
  BY <1>3, SubSeqProperties
<1>5. \A i \in 1 .. Len(r) : i \in 1 .. n - m + 1
  BY <1>4
<1> QED BY <1>4, <1>5 DEF IsSeq, IsPart

\* Pieces without a common label make a piece.
LEMMA JoinPieces ==
  ASSUME NEW a, Piece(a), NEW b, Piece(b), NEW r, r = a \o b,
         \A l : ~(HasIn(a, l) /\ HasIn(b, l))
  PROVE  Combines(r, a, b)
<1>0. IsSeq(a) /\ IsSeq(b)
  BY DEF Piece
<1>1a. IsJoin(r, a, b)
  BY <1>0, JoinSeqs
<1>1. /\ IsSeq(r) /\ Len(r) = Len(a) + Len(b)
      /\ \A i \in 1 .. Len(r) : r[i] = IF i <= Len(a) THEN a[i] ELSE b[i - Len(a)]
  BY <1>1a DEF IsJoin
<1>2. /\ Len(a) \in Nat /\ DOMAIN a = 1 .. Len(a)
      /\ Len(b) \in Nat /\ DOMAIN b = 1 .. Len(b)
      /\ DOMAIN r = 1 .. Len(r)
  BY <1>1, SeqIndices DEF Piece
<1>3. ASSUME NEW i \in DOMAIN r
      PROVE  \/ i \in DOMAIN a /\ r[i] = a[i]
             \/ i - Len(a) \in DOMAIN b /\ r[i] = b[i - Len(a)] /\ i \notin DOMAIN a
  BY <1>1, <1>2
<1>4. /\ \A i \in DOMAIN a : i \in DOMAIN r /\ r[i] = a[i]
      /\ \A i \in DOMAIN b : i + Len(a) \in DOMAIN r /\ r[i + Len(a)] = b[i]
  BY <1>1, <1>2
<1>5. Apart(r)
  <2> SUFFICES ASSUME NEW i \in DOMAIN r, NEW j \in DOMAIN r, NEW l,
                      Has(r[i], l), Has(r[j], l)
               PROVE  i = j
    BY DEF Apart
  <2>1. CASE i \in DOMAIN a /\ r[i] = a[i] /\ j \in DOMAIN a /\ r[j] = a[j]
    BY <2>1 DEF Piece, Apart
  <2>2. CASE /\ i - Len(a) \in DOMAIN b /\ r[i] = b[i - Len(a)]
             /\ j - Len(a) \in DOMAIN b /\ r[j] = b[j - Len(a)]
    <3>1. i - Len(a) = j - Len(a)
      BY <2>2 DEF Piece, Apart
    <3> QED BY <1>2, <3>1
  <2>3. CASE /\ i \in DOMAIN a /\ r[i] = a[i]
             /\ j - Len(a) \in DOMAIN b /\ r[j] = b[j - Len(a)]
    BY <2>3 DEF HasIn
  <2>4. CASE /\ j \in DOMAIN a /\ r[j] = a[j]
             /\ i - Len(a) \in DOMAIN b /\ r[i] = b[i - Len(a)]
    BY <2>4 DEF HasIn
  <2> QED BY <1>3, <2>1, <2>2, <2>3, <2>4
<1>6. GoodWithin(r)
  BY <1>3 DEF GoodWithin, Piece
<1>7. ASSUME NEW l
      PROVE  HasIn(r, l) <=> HasIn(a, l) \/ HasIn(b, l)
  BY <1>3, <1>4 DEF HasIn
<1>8. Range(r) = Range(a) \cup Range(b)
  <2>1. ASSUME NEW n \in Range(r)
        PROVE  n \in Range(a) \cup Range(b)
    BY <1>3 DEF Range
  <2>2. ASSUME NEW n \in Range(a) \cup Range(b)
        PROVE  n \in Range(r)
    BY <1>4 DEF Range
  <2> QED BY <2>1, <2>2
<1> QED BY <1>1, <1>5, <1>6, <1>7, <1>8 DEF Piece, Combines

\* One node that is no lambda.
LEMMA SinglePiece ==
  ASSUME NEW n, ~IsLambda(n), NEW r, r = <<n>>
  PROVE  /\ Piece(r) /\ Range(r) = {n}
         /\ \A l : HasIn(r, l) <=> n.op = "branch_target" /\ n.label = l
<1>1. r \in Seq({n}) /\ DOMAIN r = {1} /\ r[1] = n
  OBVIOUS
<1>2. Apart(r) /\ GoodWithin(r)
  BY <1>1 DEF Apart, GoodWithin
<1>3. \A l : HasIn(r, l) <=> n.op = "branch_target" /\ n.label = l
  BY <1>1 DEF HasIn, Has
<1>4. Range(r) = {n}
  BY <1>1 DEF Range
<1> QED BY <1>1, <1>2, <1>3, <1>4 DEF Piece, IsSeq

\* Two nodes that are no lambdas, the second a target.
LEMMA PairPiece ==
  ASSUME NEW n, ~IsLambda(n), n.op # "branch_target",
         NEW m, ~IsLambda(m), m.op = "branch_target", NEW r, r = <<n, m>>
  PROVE  Piece(r) /\ Range(r) = {n, m} /\ \A l : HasIn(r, l) <=> m.label = l
<1>1. r \in Seq({n, m}) /\ DOMAIN r = {1, 2} /\ r[1] = n /\ r[2] = m
  OBVIOUS
<1>2. \A l : ~Has(n, l) /\ (Has(m, l) <=> m.label = l)
  BY DEF Has
<1>3. Apart(r) /\ GoodWithin(r)
  BY <1>1, <1>2 DEF Apart, GoodWithin
<1>4. \A l : HasIn(r, l) <=> m.label = l
  BY <1>1, <1>2 DEF HasIn
<1>5. Range(r) = {n, m}
  BY <1>1 DEF Range
<1> QED BY <1>1, <1>3, <1>4, <1>5 DEF Piece, IsSeq

\* A part of a piece is one.
LEMMA PartPiece ==
  ASSUME NEW s, Piece(s), NEW m \in Nat, m > 0, NEW n \in Nat, n <= Len(s),
         NEW r, r = SubSeq(s, m, n)
  PROVE  Gathers(r, s, m .. n)
<1>0. IsSeq(s)
  BY DEF Piece
<1>1a. IsPart(r, s, m, n)
  BY <1>0, PartSeq
<1>1. /\ IsSeq(r) /\ Len(r) = IF m <= n THEN n - m + 1 ELSE 0
      /\ \A i \in 1 .. Len(r) : r[i] = s[m + i - 1]
  BY <1>1a DEF IsPart
<1>2. /\ Len(s) \in Nat /\ DOMAIN s = 1 .. Len(s)
      /\ Len(r) \in Nat /\ DOMAIN r = 1 .. Len(r)
  BY <1>1, SeqIndices DEF Piece
<1>3. ASSUME NEW i \in DOMAIN r
      PROVE  m + i - 1 \in m .. n /\ m + i - 1 \in DOMAIN s /\ r[i] = s[m + i - 1]
  BY <1>1, <1>2
<1>4. ASSUME NEW i \in m .. n
      PROVE  i - m + 1 \in DOMAIN r /\ r[i - m + 1] = s[i]
  <2>1. i - m + 1 \in DOMAIN r
    BY <1>1, <1>2
  <2>2. m + (i - m + 1) - 1 = i
    OBVIOUS
  <2> QED BY <1>3, <2>1, <2>2
<1>5. Apart(r)
  <2> SUFFICES ASSUME NEW i \in DOMAIN r, NEW j \in DOMAIN r, NEW l,
                      Has(r[i], l), Has(r[j], l)
               PROVE  i = j
    BY DEF Apart
  <2>1. m + i - 1 = m + j - 1
    BY <1>3 DEF Piece, Apart
  <2> QED BY <1>2, <2>1
<1>6. GoodWithin(r)
  BY <1>3 DEF GoodWithin, Piece
<1>7. ASSUME NEW l
      PROVE  HasIn(r, l) <=> \E i \in m .. n : Has(s[i], l)
  BY <1>3, <1>4 DEF HasIn
<1>8. Range(r) = {s[i] : i \in m .. n}
  <2>1. ASSUME NEW x \in Range(r)
        PROVE  x \in {s[i] : i \in m .. n}
    BY <1>3 DEF Range
  <2>2. ASSUME NEW x \in {s[i] : i \in m .. n}
        PROVE  x \in Range(r)
    BY <1>4 DEF Range
  <2> QED BY <2>1, <2>2
<1> QED BY <1>1, <1>5, <1>6, <1>7, <1>8 DEF Piece, Gathers

-----------------------------------------------------------------------------
(* What the passes take out.                                               *)

\* r has the nodes of s in some order, but for those at D.
Rest(r, s, D) ==
  /\ IsSeq(r)
  /\ \E f \in [DOMAIN r -> DOMAIN s \ D] :
       /\ \A i, j \in DOMAIN r : f[i] = f[j] => i = j
       /\ \A k \in DOMAIN s \ D : \E i \in DOMAIN r : f[i] = k
       /\ \A i \in DOMAIN r : r[i] = s[f[i]]

\* r has the nodes of s, but for the one at i, in whose place is the last.
LastMoved(r, s, i) ==
  /\ IsSeq(r) /\ Len(r) = Len(s) - 1
  /\ \A k \in 1 .. Len(r) : r[k] = IF k = i THEN s[Len(s)] ELSE s[k]

\* r has the nodes of s in order, but for n of them from i on.
TakenOut(r, s, i, n) ==
  /\ IsSeq(r) /\ Len(r) = Len(s) - n
  /\ \A k \in 1 .. Len(r) : r[k] = IF k < i THEN s[k] ELSE s[k + n]

\* What is left is a piece, and has the labels of what is left.
LEMMA RestPiece ==
  ASSUME NEW s, Piece(s), NEW D, NEW r, Rest(r, s, D)
  PROVE  Gathers(r, s, DOMAIN s \ D)
<1>1. PICK f \in [DOMAIN r -> DOMAIN s \ D] :
        /\ \A i, j \in DOMAIN r : f[i] = f[j] => i = j
        /\ \A k \in DOMAIN s \ D : \E i \in DOMAIN r : f[i] = k
        /\ \A i \in DOMAIN r : r[i] = s[f[i]]
  BY DEF Rest
<1>2. Apart(r)
  <2> SUFFICES ASSUME NEW i \in DOMAIN r, NEW j \in DOMAIN r, NEW l,
                      Has(r[i], l), Has(r[j], l)
               PROVE  i = j
    BY DEF Apart
  <2>1. f[i] \in DOMAIN s /\ f[j] \in DOMAIN s /\ Has(s[f[i]], l) /\ Has(s[f[j]], l)
    BY <1>1
  <2>2. f[i] = f[j]
    BY <2>1 DEF Piece, Apart
  <2> QED BY <1>1, <2>2
<1>3. GoodWithin(r)
  BY <1>1 DEF GoodWithin, Piece
<1>4. ASSUME NEW l
      PROVE  HasIn(r, l) <=> \E i \in DOMAIN s \ D : Has(s[i], l)
  <2>1. ASSUME NEW i \in DOMAIN r, Has(r[i], l)
        PROVE  f[i] \in DOMAIN s \ D /\ Has(s[f[i]], l)
    BY <1>1, <2>1
  <2>2. ASSUME NEW k \in DOMAIN s \ D, Has(s[k], l)
        PROVE  \E i \in DOMAIN r : Has(r[i], l)
    BY <1>1, <2>2
  <2> QED BY <2>1, <2>2 DEF HasIn
<1>5. Range(r) = {s[i] : i \in DOMAIN s \ D}
  <2>1. ASSUME NEW i \in DOMAIN r
        PROVE  r[i] \in {s[k] : k \in DOMAIN s \ D}
    BY <1>1
  <2>2. ASSUME NEW k \in DOMAIN s \ D
        PROVE  \E i \in DOMAIN r : r[i] = s[k]
    BY <1>1
  <2> QED BY <2>1, <2>2 DEF Range
<1>6. IsSeq(r)
  BY DEF Rest
<1> QED BY <1>2, <1>3, <1>4, <1>5, <1>6 DEF Piece, Gathers

\* r is s without its last.
Fronted(r, s) ==
  /\ IsSeq(r) /\ Len(s) \in Nat /\ Len(r) \in Nat /\ Len(s) = Len(r) + 1
  /\ \A k \in 1 .. Len(r) : r[k] = s[k]

\* Front leaves the last out.
LEMMA FrontIs ==
  ASSUME NEW s, IsSeq(s), Len(s) > 0, NEW r, r = Front(s)
  PROVE  Fronted(r, s)
<1>1. PICK n \in Nat : n = Len(s) - 1
  BY SeqIndices
<1>2. r = SubSeq(s, 1, n) /\ Len(s) \in Nat /\ Len(s) = n + 1
  <2>1. Len(s) \in Nat /\ DOMAIN s = 1 .. Len(s)
    BY SeqIndices
  <2> QED BY <1>1, <2>1 DEF Front
<1>3. IsPart(r, s, 1, n)
  <2>1. 1 \in Nat /\ 1 > 0 /\ n <= Len(s)
    BY <1>2
  <2> QED BY <1>2, <2>1, PartSeq, Zenon
<1>4. IsSeq(r) /\ Len(r) = n /\ \A k \in 1 .. n : r[k] = s[1 + k - 1]
  BY <1>3 DEF IsPart
<1>5. \A k \in 1 .. n : 1 + k - 1 = k
  OBVIOUS
<1> QED BY <1>2, <1>4, <1>5 DEF Fronted

\* unordered_remove.
LEMMA UnorderedRemoved ==
  ASSUME NEW s, IsSeq(s), NEW i \in 1 .. Len(s), NEW r, r = UnorderedRemove(s, i)
  PROVE  LastMoved(r, s, i)
<1>1. Len(s) \in Nat /\ Len(s) > 0
  BY SeqIndices
<1>2. PICK n \in Nat : n = Len(s) - 1
  BY <1>1
<1>3. Len(s) \in Nat /\ Len(s) = n + 1
  BY <1>1, <1>2
<1>4. PICK f : f = Front(s)
  OBVIOUS
<1>5. IsSeq(f) /\ Len(f) = n /\ \A k \in 1 .. n : f[k] = s[k]
  <2>1. Fronted(f, s)
    BY <1>1, <1>4, FrontIs
  <2>2. Len(f) = n
    BY <1>3, <2>1 DEF Fronted
  <2> QED BY <2>1, <2>2 DEF Fronted
<1>6. CASE i = Len(s)
  <2>1. r = f
    BY <1>4, <1>6 DEF UnorderedRemove
  <2>2. \A k \in 1 .. n : k # i
    BY <1>3, <1>6
  <2> QED BY <1>3, <1>5, <2>1, <2>2 DEF LastMoved
<1>7. CASE i # Len(s)
  <2>1. r = [f EXCEPT ![i] = s[Len(s)]]
    BY <1>4, <1>7 DEF UnorderedRemove, Last
  <2>2. i \in 1 .. Len(f)
    BY <1>3, <1>5, <1>7
  <2>3. PICK S : f \in Seq(S)
    BY <1>5 DEF IsSeq
  <2>4. PICK e : e = s[Len(s)]
    OBVIOUS
  <2>5. PICK T : T = S \cup {e}
    OBVIOUS
  <2>6. f \in Seq(T) /\ e \in T
    BY <2>3, <2>5, SeqMonotonic
  <2>7. /\ r \in Seq(T) /\ Len(r) = Len(f)
        /\ \A k \in 1 .. Len(f) : r[k] = IF k = i THEN e ELSE f[k]
    BY <2>1, <2>2, <2>4, <2>6, ExceptSeq
  <2> QED BY <1>3, <1>5, <2>4, <2>7 DEF LastMoved, IsSeq
<1> QED BY <1>6, <1>7

\* ordered_remove.
LEMMA OrderedRemoved ==
  ASSUME NEW s, IsSeq(s), NEW i \in 1 .. Len(s), NEW r, r = OrderedRemove(s, i)
  PROVE  TakenOut(r, s, i, 1)
<1> DEFINE a == SubSeq(s, 1, i - 1)
           b == SubSeq(s, i + 1, Len(s))
<1>1. Len(s) \in Nat
  BY SeqIndices
<1>2. IsPart(a, s, 1, i - 1) /\ IsPart(b, s, i + 1, Len(s))
  <2>1. PICK m \in Nat : m = i - 1
    BY <1>1
  <2>2. PICK n \in Nat : n = i + 1
    BY <1>1
  <2>3. IsPart(a, s, 1, m)
    <3>1. 1 \in Nat /\ 1 > 0 /\ m <= Len(s) /\ a = SubSeq(s, 1, m)
      BY <1>1, <2>1
    <3> HIDE DEF a
    <3> QED BY <3>1, PartSeq, Zenon
  <2>4. IsPart(b, s, n, Len(s))
    <3>1. n > 0 /\ b = SubSeq(s, n, Len(s)) /\ Len(s) <= Len(s)
      BY <1>1, <2>2
    <3> HIDE DEF b
    <3> QED BY <1>1, <3>1, PartSeq, Zenon
  <2> QED BY <2>1, <2>2, <2>3, <2>4
<1>3. r = a \o b
  BY DEF OrderedRemove, RemoveAt
<1> HIDE DEF a, b
<1>4. IsJoin(r, a, b)
  BY <1>2, <1>3, JoinSeqs DEF IsPart
<1>5. Len(a) = i - 1 /\ \A k \in 1 .. i - 1 : a[k] = s[k]
  BY <1>1, <1>2 DEF IsPart
<1>6. Len(b) = Len(s) - i /\ \A k \in 1 .. Len(s) - i : b[k] = s[k + i]
  <2>1. Len(b) = Len(s) - i /\ \A k \in 1 .. Len(s) - i : b[k] = s[i + 1 + k - 1]
    BY <1>1, <1>2 DEF IsPart
  <2>2. \A k \in 1 .. Len(s) - i : i + 1 + k - 1 = k + i
    BY <1>1
  <2> QED BY <2>1, <2>2
<1>7. Len(r) = Len(s) - 1
  BY <1>1, <1>4, <1>5, <1>6 DEF IsJoin
<1>8. ASSUME NEW k \in 1 .. Len(r)
      PROVE  r[k] = IF k < i THEN s[k] ELSE s[k + 1]
  <2>1. r[k] = IF k <= Len(a) THEN a[k] ELSE b[k - Len(a)]
    BY <1>4 DEF IsJoin
  <2>2. CASE k < i
    BY <1>5, <2>1, <2>2
  <2>3. CASE k >= i
    <3>1. k - (i - 1) \in 1 .. Len(s) - i /\ (k - (i - 1)) + i = k + 1
      BY <1>1, <1>7, <2>3
    <3>2. r[k] = b[k - (i - 1)]
      BY <1>5, <2>1, <2>3
    <3> QED BY <1>6, <2>3, <3>1, <3>2
  <2> QED BY <2>2, <2>3
<1> QED BY <1>4, <1>7, <1>8 DEF TakenOut, IsJoin

\* Taking out one before those that are taken out.
LEMMA TakenOutOneMore ==
  ASSUME NEW s, IsSeq(s), NEW i \in 1 .. Len(s), NEW n \in Nat, i + n <= Len(s),
         NEW t, TakenOut(t, s, i + 1, n), NEW r, r = OrderedRemove(t, i)
  PROVE  TakenOut(r, s, i, n + 1)
<1>1. /\ IsSeq(t) /\ Len(s) \in Nat /\ Len(t) = Len(s) - n
      /\ \A k \in 1 .. Len(t) : t[k] = IF k < i + 1 THEN s[k] ELSE s[k + n]
  BY SeqIndices DEF TakenOut
<1>2. i \in 1 .. Len(t)
  BY <1>1
<1>3. TakenOut(r, t, i, 1)
  BY <1>1, <1>2, OrderedRemoved
<1>4. IsSeq(r) /\ Len(r) = Len(s) - (n + 1)
  BY <1>1, <1>3 DEF TakenOut
<1>5. ASSUME NEW k \in 1 .. Len(r)
      PROVE  r[k] = IF k < i THEN s[k] ELSE s[k + (n + 1)]
  <2>1. r[k] = IF k < i THEN t[k] ELSE t[k + 1]
    BY <1>3 DEF TakenOut
  <2>2. k \in 1 .. Len(t) /\ k + 1 \in 1 .. Len(t) /\ (k + 1) + n = k + (n + 1)
    BY <1>1, <1>4
  <2>3. CASE k < i
    BY <1>1, <2>1, <2>2, <2>3
  <2>4. CASE k >= i
    <3>1. t[k + 1] = s[(k + 1) + n]
      BY <1>1, <2>2, <2>4
    <3> QED BY <2>1, <2>2, <2>4, <3>1
  <2> QED BY <2>3, <2>4
<1> QED BY <1>4, <1>5 DEF TakenOut

\* What is taken out in order leaves the rest.
LEMMA TakenOutRest ==
  ASSUME NEW s, IsSeq(s), NEW i \in 1 .. Len(s), NEW n \in Nat,
         i + n - 1 <= Len(s), NEW r, TakenOut(r, s, i, n)
  PROVE  Rest(r, s, i .. i + n - 1)
<1> DEFINE D == i .. i + n - 1
           f == [k \in DOMAIN r |-> IF k < i THEN k ELSE k + n]
<1>1. /\ IsSeq(r) /\ Len(s) \in Nat /\ DOMAIN s = 1 .. Len(s)
      /\ Len(r) = Len(s) - n /\ Len(r) \in Nat /\ DOMAIN r = 1 .. Len(r)
      /\ \A k \in 1 .. Len(r) : r[k] = IF k < i THEN s[k] ELSE s[k + n]
  BY SeqIndices DEF TakenOut
<1>2. ASSUME NEW k \in DOMAIN r
      PROVE  f[k] \in DOMAIN s \ D /\ r[k] = s[f[k]]
  BY <1>1
<1>3. ASSUME NEW k \in DOMAIN r, NEW m \in DOMAIN r, f[k] = f[m]
      PROVE  k = m
  BY <1>1, <1>3
<1>4. ASSUME NEW k \in DOMAIN s \ D
      PROVE  \E m \in DOMAIN r : f[m] = k
  <2>1. CASE k < i
    <3>1. k \in DOMAIN r /\ f[k] = k
      BY <1>1, <2>1
    <3> QED BY <3>1
  <2>2. CASE k >= i
    <3>1. k - n \in DOMAIN r /\ k - n >= i
      BY <1>1, <2>2
    <3>2. f[k - n] = k
      BY <1>1, <3>1
    <3> QED BY <3>1, <3>2
  <2> QED BY <1>1, <2>1, <2>2
<1>5. f \in [DOMAIN r -> DOMAIN s \ D]
  BY <1>2
<1> HIDE DEF f, D
<1>6. Rest(r, s, D)
  BY <1>1, <1>2, <1>3, <1>4, <1>5 DEF Rest
<1> QED BY <1>6 DEF D

\* inline_exec takes out the lambda and the call behind it.
LEMMA ExecRest ==
  ASSUME NEW s, IsSeq(s), NEW i \in 1 .. Len(s), i + 1 <= Len(s),
         NEW r, r = UnorderedRemove(UnorderedRemove(s, i + 1), i)
  PROVE  Rest(r, s, {i, i + 1}) /\ i <= Len(r) + 1
<1>1. PICK n \in Nat : n = Len(s) - 2
  BY SeqIndices
<1>2. PICK j \in Nat : j = i + 1
  BY SeqIndices
<1>3. PICK t : t = UnorderedRemove(s, j)
  OBVIOUS
<1>4. /\ Len(s) \in Nat /\ Len(s) = n + 2 /\ DOMAIN s = 1 .. n + 2
      /\ i \in 1 .. n + 1 /\ j \in 1 .. Len(s)
  BY <1>1, <1>2, SeqIndices
<1>5. /\ IsSeq(t) /\ Len(t) = n + 1
      /\ \A k \in 1 .. n + 1 : t[k] = IF k = j THEN s[n + 2] ELSE s[k]
  <2>1. LastMoved(t, s, j)
    BY <1>3, <1>4, UnorderedRemoved
  <2>2. Len(t) = n + 1
    BY <1>4, <2>1 DEF LastMoved
  <2> QED BY <1>4, <2>1, <2>2 DEF LastMoved
<1>6. /\ IsSeq(r) /\ Len(r) = n /\ DOMAIN r = 1 .. n
      /\ \A k \in 1 .. n : r[k] = IF k = i THEN t[n + 1] ELSE t[k]
  <2>1. LastMoved(r, t, i)
    BY <1>2, <1>3, <1>4, <1>5, UnorderedRemoved
  <2>2. Len(r) = n
    BY <1>5, <2>1 DEF LastMoved
  <2>3. DOMAIN r = 1 .. n
    BY <2>1, <2>2, SeqIndices DEF LastMoved
  <2> QED BY <1>5, <2>1, <2>2, <2>3 DEF LastMoved
<1> DEFINE f == [k \in 1 .. n |-> IF k = i
                                 THEN IF n + 1 = j THEN n + 2 ELSE n + 1
                                 ELSE IF k = j THEN n + 2 ELSE k]
           D == {i, j}
<1>7. ASSUME NEW k \in 1 .. n
      PROVE  f[k] \in DOMAIN s \ D /\ r[k] = s[f[k]]
  <2>1. CASE k = i
    <3>1. r[k] = t[n + 1] /\ f[k] = IF n + 1 = j THEN n + 2 ELSE n + 1
      BY <1>6, <2>1
    <3>2. t[n + 1] = IF n + 1 = j THEN s[n + 2] ELSE s[n + 1]
      BY <1>5
    <3>3. n + 1 # i /\ n + 2 # i /\ n + 2 # j
      BY <1>2, <2>1
    <3> HIDE DEF f
    <3> QED BY <1>4, <3>1, <3>2, <3>3
  <2>2. CASE k # i
    <3>1. r[k] = t[k] /\ f[k] = IF k = j THEN n + 2 ELSE k
      BY <1>6, <2>2
    <3>2. t[k] = IF k = j THEN s[n + 2] ELSE s[k]
      BY <1>5
    <3>3. k = j => n + 2 # i /\ n + 2 # j
      BY <1>2
    <3> HIDE DEF f
    <3> QED BY <1>4, <2>2, <3>1, <3>2, <3>3
  <2> QED BY <2>1, <2>2
<1>8. ASSUME NEW k \in 1 .. n, NEW m \in 1 .. n, f[k] = f[m]
      PROVE  k = m
  BY <1>2, <1>8
<1>9. ASSUME NEW k \in DOMAIN s \ D
      PROVE  \E m \in 1 .. n : f[m] = k
  <2>1. k \in 1 .. n + 2 /\ k # i /\ k # j
    BY <1>4
  <2>2. CASE k <= n
    <3>1. k \in 1 .. n /\ f[k] = k
      BY <2>1, <2>2
    <3> QED BY <3>1
  <2>3. CASE k = n + 1
    <3>1. i \in 1 .. n /\ f[i] = n + 1
      BY <1>4, <2>1, <2>3
    <3> QED BY <2>3, <3>1
  <2>4. CASE k = n + 2
    <3>1. CASE j = n + 1
      <4>1. i \in 1 .. n /\ f[i] = n + 2
        BY <1>2, <1>4, <3>1
      <4> QED BY <2>4, <4>1
    <3>2. CASE j # n + 1
      <4>1. j \in 1 .. n /\ f[j] = n + 2
        BY <1>2, <1>4, <2>1, <2>4, <3>2
      <4> QED BY <2>4, <4>1
    <3> QED BY <3>1, <3>2
  <2> QED BY <2>1, <2>2, <2>3, <2>4
<1>10. f \in [DOMAIN r -> DOMAIN s \ D]
  BY <1>6, <1>7
<1> HIDE DEF f, D
<1>11. Rest(r, s, D)
  BY <1>6, <1>7, <1>8, <1>9, <1>10 DEF Rest
<1>12. D = {i, i + 1} /\ i <= Len(r) + 1
  BY <1>2, <1>4, <1>6 DEF D
<1> QED BY <1>11, <1>12

-----------------------------------------------------------------------------
(* What the passes put in.                                                 *)

\* r is a good code, and has no labels but those of s and nodes.
Inlining(r, s, nodes) ==
  Good(r) /\ \A l : Carries(r, l) => HasIn(nodes, l) \/ Carries(s, l)

\* Nodes that find their own targets, put where other nodes were that are no
\* targets, make a good code if they share no label with what is left.
LEMMA Inlined ==
  ASSUME NEW s, Good(s), NEW D, \A k \in D : s[k].op # "branch_target",
         NEW rest, Rest(rest, s, D), NEW i \in Nat, i > 0, i <= Len(rest) + 1,
         NEW nodes, Piece(nodes), Closed(nodes),
         \A l : HasIn(nodes, l) => \A k \in DOMAIN s \ D : ~Has(s[k], l),
         NEW r, r = ExtendBefore(rest, i, nodes)
  PROVE  Inlining(r, s, nodes)
<1>1. Piece(s) /\ Closed(s) /\ \A l : Carries(s, l) <=> HasIn(s, l)
  BY GoodPiece
<1>2. /\ Piece(rest) /\ Range(rest) = {s[k] : k \in DOMAIN s \ D}
      /\ \A l : HasIn(rest, l) <=> \E k \in DOMAIN s \ D : Has(s[k], l)
  BY <1>1, RestPiece DEF Gathers
<1>3. Len(rest) \in Nat /\ DOMAIN rest = 1 .. Len(rest)
  BY <1>2, SeqIndices DEF Piece
<1>4. PICK n \in Nat : n = i - 1
  OBVIOUS
<1>5. PICK a : a = SubSeq(rest, 1, n)
  OBVIOUS
<1>6. PICK b : b = SubSeq(rest, i, Len(rest))
  OBVIOUS
<1>7. /\ Piece(a) /\ Range(a) = {rest[k] : k \in 1 .. n}
      /\ \A l : HasIn(a, l) <=> \E k \in 1 .. n : Has(rest[k], l)
  <2>1. 1 \in Nat /\ 1 > 0 /\ n <= Len(rest)
    BY <1>3, <1>4
  <2>2. Gathers(a, rest, 1 .. n)
    BY <1>2, <1>5, <2>1, PartPiece, Zenon
  <2> QED BY <2>2 DEF Gathers
<1>8. /\ Piece(b) /\ Range(b) = {rest[k] : k \in i .. Len(rest)}
      /\ \A l : HasIn(b, l) <=> \E k \in i .. Len(rest) : Has(rest[k], l)
  <2>1. Len(rest) <= Len(rest)
    BY <1>3
  <2>2. Gathers(b, rest, i .. Len(rest))
    BY <1>2, <1>3, <1>6, <2>1, PartPiece, Zenon
  <2> QED BY <2>2 DEF Gathers
<1>9. /\ \A l : ~(HasIn(a, l) /\ HasIn(b, l))
      /\ \A l : HasIn(a, l) \/ HasIn(b, l) => HasIn(rest, l)
  <2>1. \A k \in 1 .. n : k \in DOMAIN rest
    BY <1>3, <1>4
  <2>2. \A k \in i .. Len(rest) : k \in DOMAIN rest /\ k \notin 1 .. n
    BY <1>3, <1>4
  <2>3. \A j, k \in DOMAIN rest : \A l : Has(rest[j], l) /\ Has(rest[k], l) => j = k
    BY <1>2 DEF Piece, Apart
  <2> QED BY <1>7, <1>8, <2>1, <2>2, <2>3 DEF HasIn
<1>10. Range(rest) = Range(a) \cup Range(b)
  <2>1. \A k \in DOMAIN rest : k \in 1 .. n \/ k \in i .. Len(rest)
    BY <1>3, <1>4
  <2>2. /\ \A k \in 1 .. n : k \in DOMAIN rest
        /\ \A k \in i .. Len(rest) : k \in DOMAIN rest
    BY <1>3, <1>4
  <2> QED BY <1>7, <1>8, <2>1, <2>2 DEF Range
<1>11. \A l : ~(HasIn(nodes, l) /\ HasIn(rest, l))
  BY <1>2
<1>12. PICK c : c = a \o nodes
  OBVIOUS
<1>13. /\ Piece(c) /\ Range(c) = Range(a) \cup Range(nodes)
       /\ \A l : HasIn(c, l) <=> HasIn(a, l) \/ HasIn(nodes, l)
  <2>1. \A l : ~(HasIn(a, l) /\ HasIn(nodes, l))
    BY <1>9, <1>11
  <2>2. Combines(c, a, nodes)
    BY <1>7, <1>12, <2>1, JoinPieces
  <2> QED BY <2>2 DEF Combines
<1>14. r = c \o b
  BY <1>4, <1>5, <1>6, <1>12 DEF ExtendBefore
<1>15. /\ Piece(r) /\ Range(r) = Range(c) \cup Range(b)
       /\ \A l : HasIn(r, l) <=> HasIn(c, l) \/ HasIn(b, l)
  <2>1. \A l : ~(HasIn(c, l) /\ HasIn(b, l))
    BY <1>9, <1>11, <1>13
  <2>2. Combines(r, c, b)
    BY <1>8, <1>13, <1>14, <2>1, JoinPieces
  <2> QED BY <2>2 DEF Combines
<1>16. Range(r) = Range(rest) \cup Range(nodes)
  BY <1>10, <1>13, <1>15
<1>17. Closed(r)
  <2>0. \A n1 \in Range(r) : IsNode(n1)
    <3>1. \A n1 \in Range(nodes) : IsNode(n1)
      BY ClosedIs DEF Piece
    <3>2. \A n1 \in Range(rest) : IsNode(n1)
      BY <1>1, <1>2 DEF Closed
    <3> QED BY <1>16, <3>1, <3>2
  <2> SUFFICES ASSUME NEW n1 \in Range(r), n1.op \in Branches
               PROVE  Labelled("branch_target", n1.label) \in Range(r)
    BY <1>15, <2>0, ClosedIs DEF Piece
  <2> DEFINE target == Labelled("branch_target", n1.label)
  <2>1. CASE n1 \in Range(nodes)
    <3>1. target \in Range(nodes)
      BY <2>1, ClosedIs DEF Piece
    <3> QED BY <1>16, <3>1
  <2>2. CASE n1 \in Range(rest)
    <3>1. n1 \in Range(s)
      BY <1>2, <2>2 DEF Range
    <3>2. target \in Range(s)
      BY <1>1, <3>1, ClosedIs DEF Piece
    <3>3. PICK k \in DOMAIN s : s[k] = target
      BY <3>2 DEF Range
    <3>4. target.op = "branch_target"
      BY DEF Labelled, Node
    <3>5. k \in DOMAIN s \ D
      BY <3>3, <3>4
    <3>6. target \in Range(rest)
      BY <1>2, <3>3, <3>5
    <3> QED BY <1>16, <3>6
  <2> QED BY <1>16, <2>1, <2>2
<1>18. Good(r)
  BY <1>15, <1>17, ComposedGood DEF Piece
<1>19. ASSUME NEW l, Carries(r, l)
       PROVE  HasIn(nodes, l) \/ Carries(s, l)
  <2>1. HasIn(r, l)
    BY <1>18, <1>19, GoodPiece
  <2>2. HasIn(nodes, l) \/ HasIn(rest, l)
    BY <1>9, <1>13, <1>15, <2>1
  <2>3. HasIn(rest, l) => HasIn(s, l)
    BY <1>2 DEF HasIn
  <2> QED BY <1>1, <2>2, <2>3
<1> QED BY <1>18, <1>19 DEF Inlining

\* The body of a lambda has its labels to itself.
LEMMA BodyOwn ==
  ASSUME NEW s, Good(s), NEW i \in DOMAIN s, IsLambda(s[i])
  PROVE  /\ Good(s[i].code) /\ Piece(s[i].code) /\ Closed(s[i].code)
         /\ s[i].op # "branch_target"
         /\ \A l : HasIn(s[i].code, l) => Has(s[i], l) /\ Carries(s, l)
         /\ \A l : HasIn(s[i].code, l) =>
              \A k \in DOMAIN s \ {i} : ~Has(s[k], l)
<1>1. Piece(s) /\ \A l : Carries(s, l) <=> HasIn(s, l)
  BY GoodPiece
<1>2. Good(s[i].code)
  BY <1>1 DEF Piece, GoodWithin
<1>3. /\ Piece(s[i].code) /\ Closed(s[i].code)
      /\ \A l : Carries(s[i].code, l) <=> HasIn(s[i].code, l)
  BY <1>2, GoodPiece
<1>4. \A l : HasIn(s[i].code, l) => Has(s[i], l)
  BY <1>3 DEF Has
<1>5. \A l : Has(s[i], l) => Carries(s, l)
  BY <1>1 DEF HasIn
<1>6. \A l : Has(s[i], l) => \A k \in DOMAIN s \ {i} : ~Has(s[k], l)
  BY <1>1 DEF Piece, Apart
<1>7. s[i].op # "branch_target"
  BY DEF IsLambda
<1> QED BY <1>2, <1>3, <1>4, <1>5, <1>6, <1>7

\* The code of a conditional is a good piece, with one label more.
LEMMA ConditionalPiece ==
  ASSUME NEW body, Piece(body), Closed(body), NEW n, ~HasIn(body, n),
         NEW r, r = Conditional(body, n)
  PROVE  Piece(r) /\ Closed(r) /\ \A l : HasIn(r, l) <=> l = n \/ HasIn(body, l)
<1> DEFINE x == Labelled("branch_if_false", n)
           y == Labelled("branch_target", n)
<1>1. /\ x.op = "branch_if_false" /\ x.label = n /\ ~IsLambda(x) /\ IsNode(x)
      /\ y.op = "branch_target" /\ y.label = n /\ ~IsLambda(y) /\ IsNode(y)
  BY DEF Labelled, Node, IsLambda, IsNode
<1>2. PICK a : a = <<x>>
  OBVIOUS
<1>3. PICK c : c = <<y>>
  OBVIOUS
<1>4. PICK b : b = a \o body
  OBVIOUS
<1>5. r = b \o c
  BY <1>2, <1>3, <1>4 DEF Conditional
<1> HIDE DEF x, y
<1>6. Piece(a) /\ Range(a) = {x} /\ \A l : ~HasIn(a, l)
  BY <1>1, <1>2, SinglePiece
<1>7. Piece(c) /\ Range(c) = {y} /\ \A l : HasIn(c, l) <=> l = n
  BY <1>1, <1>3, SinglePiece
<1>8. /\ Piece(b) /\ Range(b) = {x} \cup Range(body)
      /\ \A l : HasIn(b, l) <=> HasIn(body, l)
  <2>1. Combines(b, a, body)
    BY <1>4, <1>6, JoinPieces
  <2> QED BY <1>6, <2>1 DEF Combines
<1>9. /\ Piece(r) /\ Range(r) = Range(b) \cup {y}
      /\ \A l : HasIn(r, l) <=> HasIn(b, l) \/ l = n
  <2>1. \A l : ~(HasIn(b, l) /\ HasIn(c, l))
    BY <1>7, <1>8
  <2>2. Combines(r, b, c)
    BY <1>5, <1>7, <1>8, <2>1, JoinPieces
  <2> QED BY <1>7, <2>2 DEF Combines
<1>10. Closed(r)
  <2>0. \A m \in Range(r) : IsNode(m)
    <3>1. \A m \in Range(body) : IsNode(m)
      BY ClosedIs DEF Piece
    <3> QED BY <1>1, <1>8, <1>9, <3>1
  <2> SUFFICES ASSUME NEW m \in Range(r), m.op \in Branches
               PROVE  Labelled("branch_target", m.label) \in Range(r)
    BY <1>9, <2>0, ClosedIs DEF Piece
  <2>1. m = x \/ m = y \/ m \in Range(body)
    BY <1>8, <1>9
  <2>2. CASE m = x
    BY <1>1, <1>9, <2>2 DEF y
  <2>3. CASE m = y
    BY <1>1, <2>3 DEF Branches
  <2>4. CASE m \in Range(body)
    <3>1. Labelled("branch_target", m.label) \in Range(body)
      BY <2>4, ClosedIs DEF Piece
    <3> QED BY <1>8, <1>9, <3>1
  <2> QED BY <2>1, <2>2, <2>3, <2>4
<1> QED BY <1>8, <1>9, <1>10

\* The code of a loop is a good piece, with two labels more.
LEMMA LoopPiece ==
  ASSUME NEW cond, Piece(cond), Closed(cond), NEW body, Piece(body), Closed(body),
         \A l : ~(HasIn(cond, l) /\ HasIn(body, l)), NEW n, NEW m, n # m,
         ~HasIn(cond, n), ~HasIn(body, n), ~HasIn(cond, m), ~HasIn(body, m),
         NEW r, r = Loop(cond, body, n, m)
  PROVE  /\ Piece(r) /\ Closed(r)
         /\ \A l : HasIn(r, l) <=> l = n \/ l = m \/ HasIn(cond, l) \/ HasIn(body, l)
<1> DEFINE w == Labelled("branch_target", n)
           x == Labelled("branch_if_false", m)
           y == Labelled("branch", n)
           z == Labelled("branch_target", m)
<1>1. /\ w.op = "branch_target" /\ w.label = n /\ ~IsLambda(w) /\ IsNode(w)
      /\ x.op = "branch_if_false" /\ x.label = m /\ ~IsLambda(x) /\ IsNode(x)
      /\ y.op = "branch" /\ y.label = n /\ ~IsLambda(y) /\ IsNode(y)
      /\ z.op = "branch_target" /\ z.label = m /\ ~IsLambda(z) /\ IsNode(z)
  BY DEF Labelled, Node, IsLambda, IsNode
<1>2. PICK W, X : W = <<w>> /\ X = <<x>>
  OBVIOUS
<1>3. PICK a : a = W \o cond
  OBVIOUS
<1>4. PICK b : b = a \o X
  OBVIOUS
<1>5. PICK c : c = b \o body
  OBVIOUS
<1>6. PICK d : d = <<y, z>>
  OBVIOUS
<1>7. r = c \o d
  BY <1>2, <1>3, <1>4, <1>5, <1>6 DEF Loop
<1> HIDE DEF w, x, y, z
<1>8. /\ Piece(W) /\ Range(W) = {w} /\ \A l : HasIn(W, l) <=> l = n
      /\ Piece(X) /\ Range(X) = {x} /\ \A l : ~HasIn(X, l)
  <2>1. Piece(W) /\ Range(W) = {w} /\ \A l : HasIn(W, l) <=> l = n
    BY <1>1, <1>2, SinglePiece
  <2>2. Piece(X) /\ Range(X) = {x} /\ \A l : ~HasIn(X, l)
    BY <1>1, <1>2, SinglePiece
  <2> QED BY <2>1, <2>2
<1>9. /\ Piece(a) /\ Range(a) = {w} \cup Range(cond)
      /\ \A l : HasIn(a, l) <=> l = n \/ HasIn(cond, l)
  <2>1. Combines(a, W, cond)
    BY <1>3, <1>8, JoinPieces
  <2> QED BY <1>8, <2>1 DEF Combines
<1>10. /\ Piece(b) /\ Range(b) = Range(a) \cup {x}
       /\ \A l : HasIn(b, l) <=> HasIn(a, l)
  <2>1. Combines(b, a, X)
    BY <1>4, <1>8, <1>9, JoinPieces
  <2> QED BY <1>8, <2>1 DEF Combines
<1>11. /\ Piece(c) /\ Range(c) = Range(b) \cup Range(body)
       /\ \A l : HasIn(c, l) <=> HasIn(b, l) \/ HasIn(body, l)
  <2>1. \A l : ~(HasIn(b, l) /\ HasIn(body, l))
    BY <1>9, <1>10
  <2>2. Combines(c, b, body)
    BY <1>5, <1>10, <2>1, JoinPieces
  <2> QED BY <2>2 DEF Combines
<1>12. /\ Piece(d) /\ Range(d) = {y, z} /\ \A l : HasIn(d, l) <=> l = m
  <2>1. y.op # "branch_target"
    BY <1>1
  <2> QED BY <1>1, <1>6, <2>1, PairPiece
<1>13. /\ Piece(r) /\ Range(r) = Range(c) \cup {y, z}
       /\ \A l : HasIn(r, l) <=> HasIn(c, l) \/ l = m
  <2>1. \A l : ~(HasIn(c, l) /\ HasIn(d, l))
    BY <1>9, <1>10, <1>11, <1>12
  <2>2. Combines(r, c, d)
    BY <1>7, <1>11, <1>12, <2>1, JoinPieces
  <2> QED BY <1>12, <2>2 DEF Combines
<1>14. Closed(r)
  <2>0. \A e \in Range(r) : IsNode(e)
    <3>1. \A e \in Range(cond) \cup Range(body) : IsNode(e)
      BY ClosedIs DEF Piece
    <3> QED BY <1>1, <1>9, <1>10, <1>11, <1>13, <3>1
  <2> SUFFICES ASSUME NEW e \in Range(r), e.op \in Branches
               PROVE  Labelled("branch_target", e.label) \in Range(r)
    BY <1>13, <2>0, ClosedIs DEF Piece
  <2>1. e \in {w, x, y, z} \/ e \in Range(cond) \/ e \in Range(body)
    BY <1>9, <1>10, <1>11, <1>13
  <2>2. w \in Range(r) /\ z \in Range(r)
    BY <1>9, <1>10, <1>11, <1>13
  <2>3. CASE e = x
    BY <1>1, <2>2, <2>3 DEF z
  <2>4. CASE e = y
    BY <1>1, <2>2, <2>4 DEF w
  <2>5. CASE e = w \/ e = z
    BY <1>1, <2>5 DEF Branches
  <2>6. CASE e \in Range(cond)
    <3>1. Labelled("branch_target", e.label) \in Range(cond)
      BY <2>6, ClosedIs DEF Piece
    <3> QED BY <1>9, <1>10, <1>11, <1>13, <3>1
  <2>7. CASE e \in Range(body)
    <3>1. Labelled("branch_target", e.label) \in Range(body)
      BY <2>7, ClosedIs DEF Piece
    <3> QED BY <1>11, <1>13, <3>1
  <2> QED BY <2>1, <2>3, <2>4, <2>5, <2>6, <2>7
<1> QED BY <1>9, <1>10, <1>11, <1>13, <1>14

-----------------------------------------------------------------------------
(* The optimizer.                                                          *)

Passes == {"lambdas", "execs", "conds", "whiles"}

\* An activation's code is good, its labels have been given out, and what the
\* loop over its lambdas has not come to has none.
CallOK(c, n) ==
  /\ c = [code |-> c.code, pass |-> c.pass, i |-> c.i]
  /\ c.i \in Nat /\ c.i > 0 /\ c.pass \in Passes
  /\ Good(c.code)
  /\ \A l : Carries(c.code, l) => l \in Nat /\ l < n
  /\ c.pass = "lambdas" =>
       \A k \in DOMAIN c.code : k >= c.i => \A l : ~Has(c.code[k], l)

\* An activation that waits is at a lambda.
AtLambda(c) == c.pass = "lambdas" /\ c.i \in DOMAIN c.code /\ IsLambda(c.code[c.i])

\* The activations share no label, and all but the last wait.
LabelInv ==
  /\ next_label \in Nat
  /\ IsSeq(calls) /\ calls # << >>
  /\ \A k \in DOMAIN calls : CallOK(calls[k], next_label)
  /\ \A j, k \in DOMAIN calls : \A l :
       Carries(calls[j].code, l) /\ Carries(calls[k].code, l) => j = k
  /\ \A k \in DOMAIN calls : k < Len(calls) => AtLambda(calls[k])

\* What parse builds.
LEMMA ProgramIs ==
  ASSUME NEW code \in Programs
  PROVE  /\ code \in Seq(Range(code))
         /\ \A i \in DOMAIN code :
              /\ IsNode(code[i]) /\ code[i].op \in Ops
              /\ code[i].op \notin Branches \cup {"branch_target"}
              /\ IsLambda(code[i]) => code[i].code \in Programs
<1> DEFINE nodes == UNION {Range(c) : c \in Programs}
<1>1. \A i \in DOMAIN code : code[i] \in nodes
  BY DEF Range
<1>2. /\ code \in Seq(Range(code))
      /\ \A n \in nodes : /\ n = Node(n.op, n.code, n.label)
                          /\ n.op \in Ops \ (Branches \cup {"branch_target"})
      /\ {n.code : n \in {m \in nodes : IsLambda(m)}} \subseteq Programs
  BY ProgramsAssumption
<1> HIDE DEF nodes
<1>3. \A n \in nodes : IsLambda(n) => n.code \in Programs
  BY <1>2
<1> QED BY <1>1, <1>2, <1>3 DEF IsNode

\* What a program reaches is a program.
LEMMA ReachesPrograms ==
  ASSUME NEW code \in Programs, NEW p, NEW l, Reaches(code, p, l)
  PROVE  l \in Programs
<1>1. p \in Seq(Nat) /\ Len(p) \in Nat
  BY LenProperties DEF Reaches
<1>2. PICK s : Leads(s, code, p, l)
  BY DEF Reaches
<1> DEFINE Bad == {k \in 0 .. Len(p) : s[k] \notin Programs}
<1>3. Bad = {}
  <2> SUFFICES ASSUME Bad # {}
               PROVE  FALSE
    OBVIOUS
  <2>1. PICK k \in Bad : \A y \in Bad : k <= y
    <3>1. Bad \in SUBSET Nat
      BY <1>1
    <3> HIDE DEF Bad
    <3> QED BY <3>1, LeastNatural
  <2>2. CASE k = 0
    BY <1>2, <2>1, <2>2 DEF Leads
  <2>3. CASE k > 0
    <3>1. k \in 1 .. Len(p) /\ k - 1 \in 0 .. Len(p) /\ ~(k <= k - 1)
      BY <1>1, <2>1, <2>3
    <3>2. s[k - 1] \in Programs
      BY <2>1, <3>1
    <3>3. /\ p[k] \in DOMAIN s[k - 1] /\ IsLambda(s[k - 1][p[k]])
          /\ s[k] = s[k - 1][p[k]].code
      BY <1>2, <3>1 DEF Leads
    <3>4. s[k] \in Programs
      BY <3>2, <3>3, ProgramIs
    <3> QED BY <2>1, <3>4
  <2> QED BY <1>1, <2>1, <2>2, <2>3
<1> QED BY <1>1, <1>2, <1>3 DEF Leads

\* A program is a good code without labels.
LEMMA ProgramGood ==
  ASSUME NEW code \in Programs
  PROVE  Good(code) /\ \A l : ~Carries(code, l)
<1>1. ASSUME NEW c \in Programs
      PROVE  /\ Closed(c)
             /\ \A i \in DOMAIN c : c[i].op # "branch_target"
  <2>1. /\ c \in Seq(Range(c))
        /\ \A i \in DOMAIN c :
             IsNode(c[i]) /\ c[i].op \notin Branches \cup {"branch_target"}
    BY ProgramIs
  <2> QED BY <2>1 DEF Closed, IsSeq
<1>2. \A p, c : Reaches(code, p, c) => c \in Programs
  BY ReachesPrograms
<1>3. \A p, c, i, l : ~TargetAt(code, p, c, i, l)
  BY <1>1, <1>2 DEF TargetAt
<1> QED BY <1>1, <1>2, <1>3 DEF Good, Carries

\* optimize begins with a program.
LEMMA InitLabels ==
  ASSUME OptimizerInit
  PROVE  LabelInv
<1>1. PICK code \in Programs : calls = <<Call(code)>>
  BY DEF OptimizerInit
<1>2. PICK c : c = Call(code)
  OBVIOUS
<1>3. c.code = code /\ c.pass = "lambdas" /\ c.i = 1
      /\ c = [code |-> c.code, pass |-> c.pass, i |-> c.i]
  BY <1>2 DEF Call
<1>4. Good(code) /\ \A l : ~Carries(code, l)
  BY <1>1, ProgramGood
<1>5. \A k \in DOMAIN code : \A l : ~Has(code[k], l)
  BY <1>4, GoodPiece DEF HasIn
<1>6. next_label = 0
  BY DEF OptimizerInit
<1>7. CallOK(c, next_label)
  BY <1>3, <1>4, <1>5 DEF CallOK, Passes
<1>8. calls = <<c>> /\ DOMAIN calls = {1} /\ calls[1] = c /\ Len(calls) = 1
  BY <1>1, <1>2
<1>9. calls \in Seq({c}) /\ calls # << >>
  BY <1>8
<1>10. \A k \in DOMAIN calls : k = 1
  BY <1>8
<1>11. \A k \in DOMAIN calls : CallOK(calls[k], next_label) /\ ~(k < Len(calls))
  BY <1>7, <1>8
<1> QED BY <1>6, <1>9, <1>10, <1>11 DEF LabelInv, IsSeq

\* The last activation is the one that runs.
LEMMA CurrentOK ==
  ASSUME LabelInv
  PROVE  /\ Len(calls) \in Nat \ {0} /\ DOMAIN calls = 1 .. Len(calls)
         /\ Len(calls) \in DOMAIN calls /\ Current = calls[Len(calls)]
         /\ CallOK(Current, next_label)
<1>1. Len(calls) \in Nat /\ DOMAIN calls = 1 .. Len(calls)
  BY SeqIndices DEF LabelInv
<1>2. Len(calls) # 0
  <2>1. PICK S : calls \in Seq(S)
    BY DEF LabelInv, IsSeq
  <2> QED BY <2>1, EmptySeq DEF LabelInv
<1>3. Current = calls[Len(calls)] /\ Len(calls) \in DOMAIN calls
  BY <1>1, <1>2 DEF Current, Last
<1> QED BY <1>1, <1>2, <1>3 DEF LabelInv

\* More labels given out do no harm.
LEMMA CallOKLater ==
  ASSUME NEW c, NEW n \in Nat, NEW m \in Nat, n <= m, CallOK(c, n)
  PROVE  CallOK(c, m)
<1>1. \A l : Carries(c.code, l) => l \in Nat /\ l < m
  BY DEF CallOK
<1> QED BY <1>1, Zenon DEF CallOK

\* An activation may replace its code by one that has no labels but its own
\* and new ones.
LEMMA CallReplaced ==
  ASSUME LabelInv, NEW c, calls' = [calls EXCEPT ![Len(calls)] = c],
         next_label' \in Nat, next_label <= next_label', CallOK(c, next_label'),
         \A l : Carries(c.code, l) => Carries(Current.code, l) \/ l >= next_label
  PROVE  LabelInv'
<1>1. /\ Len(calls) \in Nat \ {0} /\ DOMAIN calls = 1 .. Len(calls)
      /\ Len(calls) \in DOMAIN calls /\ Current = calls[Len(calls)]
      /\ CallOK(Current, next_label)
  BY CurrentOK
<1>2. PICK n \in Nat : n = Len(calls)
  BY <1>1
<1>3. /\ IsSeq(calls') /\ Len(calls') = n /\ DOMAIN calls' = 1 .. n
      /\ \A k \in 1 .. n : calls'[k] = IF k = n THEN c ELSE calls[k]
  <2>1. PICK S : calls \in Seq(S)
    BY DEF LabelInv, IsSeq
  <2>2. PICK T : T = S \cup {c}
    OBVIOUS
  <2>3. calls \in Seq(T) /\ c \in T /\ n \in 1 .. Len(calls)
    BY <1>1, <1>2, <2>1, <2>2, SeqMonotonic
  <2>4. PICK r : r = [calls EXCEPT ![n] = c]
    OBVIOUS
  <2>5. /\ r \in Seq(T) /\ Len(r) = Len(calls)
        /\ \A k \in 1 .. Len(calls) : r[k] = IF k = n THEN c ELSE calls[k]
    BY <2>3, <2>4, ExceptSeq
  <2>6. r = calls'
    BY <1>2, <2>4
  <2>7. IsSeq(r) /\ Len(r) = n
    BY <1>2, <2>5 DEF IsSeq
  <2> QED BY <1>1, <1>2, <2>5, <2>6, <2>7, SeqIndices
<1>4. calls' # << >>
  BY <1>1, <1>2, <1>3
<1>5. ASSUME NEW k \in 1 .. n
      PROVE  CallOK(calls'[k], next_label')
  <2>1. CASE k = n
    BY <1>3, <2>1
  <2>2. CASE k # n
    <3>1. calls'[k] = calls[k] /\ CallOK(calls[k], next_label)
      BY <1>1, <1>2, <1>3, <2>2 DEF LabelInv
    <3>2. next_label \in Nat
      BY DEF LabelInv
    <3> QED BY <3>1, <3>2, CallOKLater
  <2> QED BY <2>1, <2>2
<1>6. ASSUME NEW k \in 1 .. n, k # n, NEW l, Carries(calls[k].code, l)
      PROVE  ~Carries(c.code, l)
  <2>1. ~Carries(Current.code, l)
    BY <1>1, <1>2, <1>6 DEF LabelInv
  <2>2. l \in Nat /\ l < next_label /\ next_label \in Nat
    BY <1>1, <1>2, <1>6 DEF LabelInv, CallOK
  <2> QED BY <2>1, <2>2
<1>7. ASSUME NEW j \in 1 .. n, NEW k \in 1 .. n, NEW l,
             Carries(calls'[j].code, l), Carries(calls'[k].code, l)
      PROVE  j = k
  <2>1. CASE j # n /\ k # n
    <3>1. Carries(calls[j].code, l) /\ Carries(calls[k].code, l)
      BY <1>3, <1>7, <2>1
    <3> QED BY <1>1, <1>2, <3>1 DEF LabelInv
  <2>2. CASE j = n /\ k # n
    BY <1>3, <1>6, <1>7, <2>2
  <2>3. CASE j # n /\ k = n
    BY <1>3, <1>6, <1>7, <2>3
  <2> QED BY <2>1, <2>2, <2>3
<1>8. ASSUME NEW k \in 1 .. n, k < n
      PROVE  AtLambda(calls'[k])
  <2>0. k # n
    BY <1>8
  <2>1. calls'[k] = calls[k]
    BY <1>3, <2>0
  <2> QED BY <1>1, <1>2, <1>8, <2>1 DEF LabelInv
<1> QED BY <1>3, <1>4, <1>5, <1>7, <1>8 DEF LabelInv

\* A pass that puts in what is there at its index goes on with a good code.
LEMMA InlineKeeps ==
  ASSUME LabelInv, Current.pass # "lambdas", NEW code, NEW i \in Nat, i > 0,
         Continue(code, i), next_label' \in Nat, next_label <= next_label',
         NEW nodes, Inlining(code, Current.code, nodes),
         \A l : HasIn(nodes, l) =>
           Carries(Current.code, l) \/ l \in next_label .. next_label' - 1
  PROVE  LabelInv'
<1>1. CallOK(Current, next_label) /\ Current = calls[Len(calls)] /\ next_label \in Nat
  BY CurrentOK DEF LabelInv
<1>2. PICK c : c = [Current EXCEPT !.code = code, !.i = i]
  OBVIOUS
<1>3. calls' = [calls EXCEPT ![Len(calls)] = c]
  BY <1>1, <1>2 DEF Continue
<1>4. /\ c = [code |-> c.code, pass |-> c.pass, i |-> c.i]
      /\ c.code = code /\ c.i = i /\ c.pass = Current.pass /\ c.pass \in Passes
  BY <1>1, <1>2 DEF CallOK
<1>5. ASSUME NEW l, Carries(code, l)
      PROVE  /\ Carries(Current.code, l) \/ l >= next_label
             /\ l \in Nat /\ l < next_label'
  <2>1. Carries(Current.code, l) \/ l \in next_label .. next_label' - 1
    BY <1>5 DEF Inlining
  <2> QED BY <1>1, <2>1 DEF CallOK
<1>6. CallOK(c, next_label')
  BY <1>4, <1>5 DEF CallOK, Inlining
<1> QED BY <1>3, <1>4, <1>5, <1>6, CallReplaced

\* A body is not in common with what is left.
LEMMA InlineExecLabels ==
  ASSUME LabelInv, InlineExec
  PROVE  LabelInv'
<1>1. /\ CallOK(Current, next_label) /\ next_label \in Nat
  BY CurrentOK DEF LabelInv
<1>2. PICK s : s = Current.code
  OBVIOUS
<1>3. PICK i : i = Current.i
  OBVIOUS
<1>4. PICK body : body = s[i].code
  OBVIOUS
<1>5. PICK rest : rest = UnorderedRemove(UnorderedRemove(s, i + 1), i)
  OBVIOUS
<1>6. PICK r : r = ExtendBefore(rest, i, body)
  OBVIOUS
<1>7. Good(s) /\ IsSeq(s) /\ Len(s) \in Nat /\ DOMAIN s = 1 .. Len(s)
      /\ i \in Nat /\ i > 0
  BY <1>1, <1>2, <1>3, GoodPiece, SeqIndices DEF CallOK, Piece
<1>8. i + 1 <= Len(s) /\ i \in 1 .. Len(s) /\ IsLambda(s[i]) /\ s[i + 1].op = "exec"
  BY <1>2, <1>3, <1>7 DEF InlineExec, AtExec, NodeIs, IsLambda
<1>9. Continue(r, i + 1) /\ next_label' = next_label /\ Current.pass = "execs"
  <2>1. BodyAt(0) = body
    BY <1>2, <1>3, <1>4, <1>7 DEF BodyAt
  <2> QED BY <1>2, <1>3, <1>5, <1>6, <2>1 DEF InlineExec, InPass
<1>10. Rest(rest, s, {i, i + 1}) /\ i <= Len(rest) + 1
  BY <1>5, <1>7, <1>8, ExecRest
<1>11. /\ Piece(body) /\ Closed(body) /\ s[i].op # "branch_target"
       /\ \A l : HasIn(body, l) => Carries(s, l)
       /\ \A l : HasIn(body, l) => \A k \in DOMAIN s \ {i} : ~Has(s[k], l)
  BY <1>4, <1>7, <1>8, BodyOwn
<1>12. Inlining(r, s, body)
  <2>1. \A k \in {i, i + 1} : s[k].op # "branch_target"
    BY <1>8, <1>11
  <2>2. \A l : HasIn(body, l) => \A k \in DOMAIN s \ {i, i + 1} : ~Has(s[k], l)
    BY <1>11
  <2> QED BY <1>6, <1>7, <1>10, <1>11, <2>1, <2>2, Inlined
<1>13. i + 1 \in Nat /\ i + 1 > 0 /\ next_label' \in Nat /\ next_label <= next_label'
  BY <1>1, <1>7, <1>9
<1> QED BY <1>2, <1>9, <1>11, <1>12, <1>13, InlineKeeps

\* Nodes taken out in order: what ordered_remove, called for one index after
\* the other from the last on, leaves.
LEMMA TwoOut ==
  ASSUME NEW s, IsSeq(s), NEW i \in 1 .. Len(s), i + 1 <= Len(s),
         NEW r, r = OrderedRemove(OrderedRemove(s, i + 1), i)
  PROVE  Rest(r, s, i .. i + 1) /\ i <= Len(r) + 1
<1>1. Len(s) \in Nat
  BY SeqIndices
<1>2. PICK j \in 1 .. Len(s) : j = i + 1
  BY <1>1
<1>3. PICK t : t = OrderedRemove(s, j)
  OBVIOUS
<1>4. TakenOut(t, s, i + 1, 1)
  BY <1>2, <1>3, OrderedRemoved
<1>5. 1 \in Nat /\ i + 1 <= Len(s) /\ r = OrderedRemove(t, i)
  BY <1>2, <1>3
<1>6. TakenOut(r, s, i, 1 + 1)
  BY <1>4, <1>5, TakenOutOneMore, Zenon
<1>7. PICK n \in Nat : n = 2
  OBVIOUS
<1>8. TakenOut(r, s, i, n) /\ i + n - 1 <= Len(s) /\ i + n - 1 = i + 1
  BY <1>1, <1>6, <1>7
<1>9. Rest(r, s, i .. i + n - 1)
  BY <1>8, TakenOutRest
<1>10. Len(r) = Len(s) - 2
  BY <1>7, <1>8 DEF TakenOut
<1> QED BY <1>1, <1>8, <1>9, <1>10

\* The same of three.
LEMMA ThreeOut ==
  ASSUME NEW s, IsSeq(s), NEW i \in 1 .. Len(s), i + 2 <= Len(s),
         NEW r, r = OrderedRemove(OrderedRemove(OrderedRemove(s, i + 2), i + 1), i)
  PROVE  Rest(r, s, i .. i + 2) /\ i <= Len(r) + 1
<1>1. Len(s) \in Nat
  BY SeqIndices
<1>2. PICK j \in 1 .. Len(s) : j = i + 1
  BY <1>1
<1>3. PICK k \in 1 .. Len(s) : k = i + 2
  BY <1>1
<1>4. PICK t : t = OrderedRemove(s, k)
  OBVIOUS
<1>5. PICK u : u = OrderedRemove(t, j)
  OBVIOUS
<1>6. k = j + 1 /\ r = OrderedRemove(u, i) /\ j + 1 <= Len(s)
  BY <1>2, <1>3, <1>4, <1>5
<1>7. TakenOut(t, s, j + 1, 1)
  BY <1>3, <1>4, <1>6, OrderedRemoved
<1>8. 1 \in Nat
  OBVIOUS
<1>9. TakenOut(u, s, j, 1 + 1)
  BY <1>5, <1>6, <1>7, <1>8, TakenOutOneMore, Zenon
<1>10. PICK m \in Nat : m = 2
  OBVIOUS
<1>11. TakenOut(u, s, i + 1, m) /\ i + m <= Len(s)
  BY <1>2, <1>9, <1>10
<1>12. TakenOut(r, s, i, m + 1)
  BY <1>6, <1>11, TakenOutOneMore
<1>13. PICK n \in Nat : n = 3
  OBVIOUS
<1>14. TakenOut(r, s, i, n) /\ i + n - 1 <= Len(s) /\ i + n - 1 = i + 2
  BY <1>1, <1>10, <1>12, <1>13
<1>15. Rest(r, s, i .. i + n - 1)
  BY <1>14, TakenOutRest
<1>16. Len(r) = Len(s) - 3
  BY <1>13, <1>14 DEF TakenOut
<1> QED BY <1>1, <1>14, <1>15, <1>16

\* The activation that runs is at index i of the code s.
LooksAt(s, i) ==
  /\ CallOK(Current, next_label) /\ next_label \in Nat
  /\ Good(s) /\ IsSeq(s) /\ Len(s) \in Nat /\ DOMAIN s = 1 .. Len(s)
  /\ i \in Nat /\ i > 0
  /\ \A k \in Nat : BodyAt(k) = s[i + k].code
  /\ \A k \in Nat : \A op : NodeIs(k, op) => i + k \in DOMAIN s /\ s[i + k].op = op

\* It is at its own.
LEMMA AtIndex ==
  ASSUME LabelInv, NEW s, s = Current.code, NEW i, i = Current.i
  PROVE  LooksAt(s, i)
<1>1. CallOK(Current, next_label) /\ next_label \in Nat
  BY CurrentOK DEF LabelInv
<1>2. Good(s) /\ IsSeq(s) /\ i \in Nat /\ i > 0
  BY <1>1, GoodPiece DEF CallOK, Piece
<1>3. Len(s) \in Nat /\ DOMAIN s = 1 .. Len(s)
  BY <1>2, SeqIndices
<1>4. \A k \in Nat : BodyAt(k) = s[i + k].code
  BY DEF BodyAt
<1>5. \A k \in Nat : \A op : NodeIs(k, op) => i + k \in DOMAIN s /\ s[i + k].op = op
  BY <1>2, <1>3 DEF NodeIs
<1> QED BY <1>1, <1>2, <1>3, <1>4, <1>5 DEF LooksAt

\* A conditional has a new label, an empty one has none.
LEMMA InlineCondExecLabels ==
  ASSUME LabelInv, InlineCondExec
  PROVE  LabelInv'
<1>1. PICK s : s = Current.code
  OBVIOUS
<1>2. PICK i : i = Current.i
  OBVIOUS
<1>0. LooksAt(s, i)
  BY <1>1, <1>2, AtIndex
<1>3. /\ CallOK(Current, next_label) /\ next_label \in Nat
      /\ Good(s) /\ IsSeq(s) /\ Len(s) \in Nat /\ DOMAIN s = 1 .. Len(s)
      /\ i \in Nat /\ i > 0
      /\ \A k \in Nat : BodyAt(k) = s[i + k].code
      /\ \A k \in Nat : \A op : NodeIs(k, op) => i + k \in DOMAIN s /\ s[i + k].op = op
  BY <1>0 DEF LooksAt
<1>4. NodeIs(0, "lambda") /\ NodeIs(1, "cond_exec")
  BY DEF InlineCondExec, AtCondExec
<1>5. /\ i \in 1 .. Len(s) /\ IsLambda(s[i])
      /\ i + 1 <= Len(s) /\ s[i + 1].op = "cond_exec"
  <2>1. i + 0 = i /\ i + 0 \in DOMAIN s /\ s[i + 0].op = "lambda"
    BY <1>3, <1>4
  <2>2. i + 1 \in DOMAIN s /\ s[i + 1].op = "cond_exec"
    BY <1>3, <1>4
  <2> QED BY <1>3, <2>1, <2>2 DEF IsLambda
<1>6. PICK body : body = s[i].code
  OBVIOUS
<1>7. BodyAt(0) = body
  BY <1>3, <1>6
<1>8. PICK rest : rest = OrderedRemove(OrderedRemove(s, i + 1), i)
  OBVIOUS
<1>9. PICK ti : ti = IF body = << >> THEN <<Instruction("drop")>>
                     ELSE Conditional(body, next_label)
  OBVIOUS
<1>10. PICK r : r = ExtendBefore(rest, i, ti)
  OBVIOUS
<1>11. /\ Continue(r, i + Len(ti)) /\ Current.pass = "conds"
       /\ next_label' = IF body = << >> THEN next_label ELSE next_label + 1
  BY <1>1, <1>2, <1>7, <1>8, <1>9, <1>10 DEF InlineCondExec, InPass
<1>12. Rest(rest, s, i .. i + 1) /\ i <= Len(rest) + 1
  BY <1>3, <1>5, <1>8, TwoOut
<1>13. /\ Piece(body) /\ Closed(body) /\ s[i].op # "branch_target"
       /\ \A l : HasIn(body, l) => Carries(s, l)
       /\ \A l : HasIn(body, l) => \A k \in DOMAIN s \ {i} : ~Has(s[k], l)
  BY <1>3, <1>5, <1>6, BodyOwn
<1>14. \A l : Carries(s, l) => l \in Nat /\ l < next_label
  BY <1>1, <1>3 DEF CallOK
<1>15. /\ Piece(ti) /\ Closed(ti)
       /\ \A l : HasIn(ti, l) =>
            HasIn(body, l) \/ (l = next_label /\ next_label' = next_label + 1)
  <2>1. CASE body = << >>
    <3>1. PICK n : n = Instruction("drop")
      OBVIOUS
    <3>2. ti = <<n>> /\ n.op = "drop" /\ ~IsLambda(n) /\ IsNode(n)
      BY <1>9, <2>1, <3>1 DEF Instruction, Node, IsLambda, IsNode
    <3>3. Piece(ti) /\ Range(ti) = {n} /\ \A l : ~HasIn(ti, l)
      BY <3>2, SinglePiece
    <3>4. n.op \notin Branches
      BY <3>2 DEF Branches
    <3>5. Closed(ti)
      BY <3>2, <3>3, <3>4, ClosedIs DEF Piece
    <3> QED BY <3>3, <3>5
  <2>2. CASE body # << >>
    <3>1. PICK n : n = next_label
      OBVIOUS
    <3>2. ~HasIn(body, n)
      BY <1>3, <1>13, <1>14, <3>1
    <3>3. ti = Conditional(body, n)
      BY <1>9, <2>2, <3>1
    <3>4. Piece(ti) /\ Closed(ti) /\ \A l : HasIn(ti, l) <=> l = n \/ HasIn(body, l)
      BY <1>13, <3>2, <3>3, ConditionalPiece
    <3> QED BY <1>11, <2>2, <3>1, <3>4
  <2> QED BY <2>1, <2>2
<1>16. Inlining(r, s, ti)
  <2>1. \A k \in i .. i + 1 : k = i \/ k = i + 1
    BY <1>3
  <2>2. \A k \in i .. i + 1 : s[k].op # "branch_target"
    BY <1>5, <1>13, <2>1
  <2>3. \A l : HasIn(ti, l) => \A k \in DOMAIN s \ (i .. i + 1) : ~Has(s[k], l)
    <3> SUFFICES ASSUME NEW l, HasIn(ti, l), NEW k \in DOMAIN s, k \notin i .. i + 1
                 PROVE  ~Has(s[k], l)
      OBVIOUS
    <3>1. CASE HasIn(body, l)
      <4>1. k # i
        BY <1>3
      <4> QED BY <1>13, <3>1, <4>1
    <3>2. CASE l = next_label
      <4>1. ~Carries(s, l)
        BY <1>3, <1>14, <3>2
      <4> QED BY <1>3, <4>1, CarriesIs
    <3> QED BY <1>15, <3>1, <3>2
  <2> QED BY <1>3, <1>10, <1>12, <1>15, <2>2, <2>3, Inlined
<1>17. Len(ti) \in Nat
  BY <1>15, SeqIndices DEF Piece
<1>18. /\ i + Len(ti) \in Nat /\ i + Len(ti) > 0
       /\ next_label' \in Nat /\ next_label <= next_label'
  BY <1>3, <1>11, <1>17
<1>19. \A l : HasIn(ti, l) => Carries(s, l) \/ l \in next_label .. next_label' - 1
  BY <1>3, <1>13, <1>15
<1>20. PICK m \in Nat : m = i + Len(ti)
  BY <1>18
<1>21. Continue(r, m) /\ m > 0 /\ Current.pass # "lambdas"
  BY <1>11, <1>18, <1>20
<1> QED BY <1>1, <1>16, <1>18, <1>19, <1>21, InlineKeeps

\* A loop has two new labels.
LEMMA InlineWhileLabels ==
  ASSUME LabelInv, InlineWhile
  PROVE  LabelInv'
<1>1. PICK s : s = Current.code
  OBVIOUS
<1>2. PICK i : i = Current.i
  OBVIOUS
<1>0. LooksAt(s, i)
  BY <1>1, <1>2, AtIndex
<1>3. /\ CallOK(Current, next_label) /\ next_label \in Nat
      /\ Good(s) /\ IsSeq(s) /\ Len(s) \in Nat /\ DOMAIN s = 1 .. Len(s)
      /\ i \in Nat /\ i > 0
      /\ \A k \in Nat : BodyAt(k) = s[i + k].code
      /\ \A k \in Nat : \A op : NodeIs(k, op) => i + k \in DOMAIN s /\ s[i + k].op = op
  BY <1>0 DEF LooksAt
<1>4. NodeIs(0, "lambda") /\ NodeIs(1, "lambda") /\ NodeIs(2, "while")
  BY DEF InlineWhile, AtWhile
<1>5. /\ i \in 1 .. Len(s) /\ IsLambda(s[i])
      /\ i + 1 \in DOMAIN s /\ IsLambda(s[i + 1])
      /\ i + 2 <= Len(s) /\ s[i + 2].op = "while"
  <2>1. i + 0 = i /\ i + 0 \in DOMAIN s /\ s[i + 0].op = "lambda"
    BY <1>3, <1>4
  <2>2. i + 1 \in DOMAIN s /\ s[i + 1].op = "lambda"
    BY <1>3, <1>4
  <2>3. i + 2 \in DOMAIN s /\ s[i + 2].op = "while"
    BY <1>3, <1>4
  <2> QED BY <1>3, <2>1, <2>2, <2>3 DEF IsLambda
<1>6. PICK j : j = i + 1
  OBVIOUS
<1>7. PICK cond : cond = s[i].code
  OBVIOUS
<1>8. PICK body : body = s[j].code
  OBVIOUS
<1>9. BodyAt(0) = cond /\ BodyAt(1) = body
  BY <1>3, <1>6, <1>7, <1>8
<1>10. PICK n : n = next_label
  OBVIOUS
<1>11. PICK m : m = next_label + 1
  OBVIOUS
<1>12. PICK rest : rest = OrderedRemove(OrderedRemove(OrderedRemove(s, i + 2), i + 1), i)
  OBVIOUS
<1>13. PICK ti : ti = Loop(cond, body, n, m)
  OBVIOUS
<1>14. PICK r : r = ExtendBefore(rest, i, ti)
  OBVIOUS
<1>15. /\ Continue(r, i + 1) /\ Current.pass = "whiles"
       /\ next_label' = next_label + 2
  BY <1>1, <1>2, <1>9, <1>10, <1>11, <1>12, <1>13, <1>14 DEF InlineWhile, InPass
<1>16. Rest(rest, s, i .. i + 2) /\ i <= Len(rest) + 1
  BY <1>3, <1>5, <1>12, ThreeOut
<1>17. /\ Piece(cond) /\ Closed(cond) /\ s[i].op # "branch_target"
       /\ \A l : HasIn(cond, l) => Has(s[i], l) /\ Carries(s, l)
       /\ \A l : HasIn(cond, l) => \A k \in DOMAIN s \ {i} : ~Has(s[k], l)
  BY <1>3, <1>5, <1>7, BodyOwn
<1>18. /\ Piece(body) /\ Closed(body) /\ s[j].op # "branch_target"
       /\ \A l : HasIn(body, l) => Has(s[j], l) /\ Carries(s, l)
       /\ \A l : HasIn(body, l) => \A k \in DOMAIN s \ {j} : ~Has(s[k], l)
  BY <1>3, <1>5, <1>6, <1>8, BodyOwn
<1>19. \A l : Carries(s, l) => l \in Nat /\ l < next_label
  BY <1>1, <1>3 DEF CallOK
<1>20. n # m /\ ~Carries(s, n) /\ ~Carries(s, m) /\ i \in DOMAIN s /\ i # j
  BY <1>3, <1>5, <1>6, <1>10, <1>11, <1>19
<1>21. \A l : ~(HasIn(cond, l) /\ HasIn(body, l))
  BY <1>17, <1>18, <1>20
<1>22. ~HasIn(cond, n) /\ ~HasIn(cond, m) /\ ~HasIn(body, n) /\ ~HasIn(body, m)
  BY <1>17, <1>18, <1>20
<1>23. /\ Piece(ti) /\ Closed(ti)
       /\ \A l : HasIn(ti, l) <=> l = n \/ l = m \/ HasIn(cond, l) \/ HasIn(body, l)
  BY <1>13, <1>17, <1>18, <1>20, <1>21, <1>22, LoopPiece
<1>24. Inlining(r, s, ti)
  <2>1. \A k \in i .. i + 2 : k = i \/ k = j \/ k = i + 2
    BY <1>3, <1>6
  <2>2. \A k \in i .. i + 2 : s[k].op # "branch_target"
    BY <1>5, <1>17, <1>18, <2>1
  <2>3. \A l : HasIn(ti, l) => \A k \in DOMAIN s \ (i .. i + 2) : ~Has(s[k], l)
    <3> SUFFICES ASSUME NEW l, HasIn(ti, l), NEW k \in DOMAIN s, k \notin i .. i + 2
                 PROVE  ~Has(s[k], l)
      OBVIOUS
    <3>1. k # i /\ k # j
      BY <1>3, <1>6
    <3>2. CASE HasIn(cond, l)
      BY <1>17, <3>1, <3>2
    <3>3. CASE HasIn(body, l)
      BY <1>18, <3>1, <3>3
    <3>4. CASE l = n \/ l = m
      <4>1. ~Carries(s, l)
        BY <1>20, <3>4
      <4> QED BY <1>3, <4>1, CarriesIs
    <3> QED BY <1>23, <3>2, <3>3, <3>4
  <2> QED BY <1>3, <1>14, <1>16, <1>23, <2>2, <2>3, Inlined
<1>25. i + 1 \in Nat /\ i + 1 > 0 /\ next_label' \in Nat /\ next_label <= next_label'
  BY <1>3, <1>15
<1>26. \A l : HasIn(ti, l) => Carries(s, l) \/ l \in next_label .. next_label' - 1
  BY <1>3, <1>10, <1>11, <1>15, <1>17, <1>18, <1>23
<1>27. Continue(r, j) /\ j \in Nat /\ j > 0 /\ Current.pass # "lambdas"
  BY <1>6, <1>15, <1>25
<1> QED BY <1>1, <1>24, <1>25, <1>26, <1>27, InlineKeeps

\* Going on leaves the code alone, and what has not been come to has no label.
LEMMA AdvanceLabels ==
  ASSUME LabelInv, Advance
  PROVE  LabelInv'
<1>1. CallOK(Current, next_label) /\ Current = calls[Len(calls)] /\ next_label \in Nat
  BY CurrentOK DEF LabelInv
<1>2. PICK c : c = [Current EXCEPT !.code = Current.code, !.i = Current.i + 1]
  OBVIOUS
<1>3. calls' = [calls EXCEPT ![Len(calls)] = c] /\ next_label' = next_label
  BY <1>1, <1>2 DEF Advance, Continue
<1>4. /\ c = [code |-> c.code, pass |-> c.pass, i |-> c.i]
      /\ c.code = Current.code /\ c.i = Current.i + 1 /\ c.pass = Current.pass
  BY <1>1, <1>2 DEF CallOK
<1>5. CallOK(c, next_label)
  <2>1. /\ Current.i \in Nat /\ Current.i > 0 /\ Current.pass \in Passes
        /\ Good(Current.code)
        /\ \A l : Carries(Current.code, l) => l \in Nat /\ l < next_label
        /\ Current.pass = "lambdas" =>
             \A k \in DOMAIN Current.code :
               k >= Current.i => \A l : ~Has(Current.code[k], l)
    BY <1>1 DEF CallOK
  <2>2. \A k \in DOMAIN Current.code : k \in Nat
    BY <2>1, GoodPiece, SeqIndices DEF Piece
  <2>3. c.i \in Nat /\ c.i > 0
    BY <1>4, <2>1
  <2>4. c.pass = "lambdas" =>
          \A k \in DOMAIN c.code : k >= c.i => \A l : ~Has(c.code[k], l)
    BY <1>4, <2>1, <2>2
  <2> QED BY <1>4, <2>1, <2>3, <2>4 DEF CallOK
<1>6. /\ next_label' \in Nat /\ next_label <= next_label' /\ CallOK(c, next_label')
      /\ \A l : Carries(c.code, l) => Carries(Current.code, l) \/ l >= next_label
  BY <1>1, <1>3, <1>4, <1>5
<1> QED BY <1>3, <1>6, CallReplaced

\* So does the next pass, and it is not the one over the lambdas.
LEMMA NextPassLabels ==
  ASSUME LabelInv, NextPass
  PROVE  LabelInv'
<1>1. CallOK(Current, next_label) /\ Current = calls[Len(calls)] /\ next_label \in Nat
  BY CurrentOK DEF LabelInv
<1>2. PICK c : c = [Current EXCEPT !.pass = PassAfter(Current.pass), !.i = 1]
  OBVIOUS
<1>3. calls' = [calls EXCEPT ![Len(calls)] = c] /\ next_label' = next_label
  BY <1>1, <1>2 DEF NextPass
<1>4. /\ c = [code |-> c.code, pass |-> c.pass, i |-> c.i]
      /\ c.code = Current.code /\ c.i = 1 /\ c.pass = PassAfter(Current.pass)
  BY <1>1, <1>2 DEF CallOK
<1>5. PassAfter(Current.pass) \in Passes \ {"lambdas"}
  <2>1. Current.pass \in Passes \ {"whiles"}
    BY <1>1 DEF CallOK, NextPass
  <2> QED BY <2>1 DEF Passes, PassAfter
<1>6. CallOK(c, next_label)
  BY <1>1, <1>4, <1>5 DEF CallOK
<1>7. /\ next_label' \in Nat /\ next_label <= next_label' /\ CallOK(c, next_label')
      /\ \A l : Carries(c.code, l) => Carries(Current.code, l) \/ l >= next_label
  BY <1>1, <1>3, <1>4, <1>6
<1> QED BY <1>3, <1>7, CallReplaced

\* r is s and then c.
Longer(r, s, c) ==
  /\ IsSeq(r) /\ r # << >> /\ Len(s) \in Nat /\ Len(r) = Len(s) + 1
  /\ DOMAIN r = 1 .. Len(s) + 1 /\ r[Len(s) + 1] = c
  /\ \A k \in 1 .. Len(s) : r[k] = s[k]

\* One activation more, at the end.
LEMMA CallsAppended ==
  ASSUME NEW s, IsSeq(s), NEW c, NEW r, r = Append(s, c)
  PROVE  Longer(r, s, c)
<1>1. PICK S : s \in Seq(S)
  BY DEF IsSeq
<1>2. PICK T : T = S \cup {c}
  OBVIOUS
<1>3. s \in Seq(T) /\ c \in T
  BY <1>1, <1>2, SeqMonotonic
<1>4. /\ r \in Seq(T) /\ r # << >> /\ Len(r) = Len(s) + 1
      /\ \A k \in 1 .. Len(s) : r[k] = s[k]
      /\ r[Len(s) + 1] = c
  BY <1>3, AppendProperties
<1>5. IsSeq(r) /\ DOMAIN r = 1 .. Len(r) /\ Len(s) \in Nat
  BY <1>4, SeqIndices DEF IsSeq
<1> QED BY <1>4, <1>5 DEF Longer

\* The lambda that optimize is called on has no label yet.
LEMMA DescendLabels ==
  ASSUME LabelInv, Descend
  PROVE  LabelInv'
<1>1. PICK s : s = Current.code
  OBVIOUS
<1>2. PICK i : i = Current.i
  OBVIOUS
<1>3. LooksAt(s, i)
  BY <1>1, <1>2, AtIndex
<1>4. /\ Len(calls) \in Nat \ {0} /\ DOMAIN calls = 1 .. Len(calls)
      /\ Current = calls[Len(calls)] /\ next_label \in Nat
  BY CurrentOK DEF LabelInv
<1>5. NodeIs(0, "lambda") /\ Current.pass = "lambdas" /\ next_label' = next_label
  BY DEF Descend, InPass
<1>6. /\ i \in DOMAIN s /\ IsLambda(s[i]) /\ BodyAt(0) = s[i].code
  <2>1. i + 0 = i
    BY <1>3 DEF LooksAt
  <2>2. /\ i + 0 \in DOMAIN s /\ s[i + 0].op = "lambda" /\ BodyAt(0) = s[i + 0].code
    BY <1>3, <1>5 DEF LooksAt
  <2> QED BY <2>1, <2>2 DEF IsLambda
<1>7. PICK body : body = s[i].code
  OBVIOUS
<1>8. PICK c : c = Call(body)
  OBVIOUS
<1>9. calls' = Append(calls, c)
  BY <1>6, <1>7, <1>8 DEF Descend
<1>10. Good(body) /\ \A l : ~Carries(body, l)
  <2>1. Good(body)
    BY <1>3, <1>6, <1>7, BodyOwn DEF LooksAt
  <2>2. i >= i
    BY <1>3 DEF LooksAt
  <2>3. \A l : ~Has(s[i], l)
    BY <1>1, <1>2, <1>3, <1>5, <1>6, <2>2 DEF LooksAt, CallOK
  <2> QED BY <1>6, <1>7, <2>1, <2>3 DEF Has
<1>11. /\ c.code = body /\ c.pass = "lambdas" /\ c.i = 1
       /\ c = [code |-> c.code, pass |-> c.pass, i |-> c.i]
  BY <1>8 DEF Call
<1>12. CallOK(c, next_label)
  <2>1. \A k \in DOMAIN body : \A l : ~Has(body[k], l)
    BY <1>10, GoodPiece DEF HasIn
  <2> QED BY <1>10, <1>11, <2>1 DEF CallOK, Passes
<1>13. PICK n \in Nat : n = Len(calls)
  BY <1>4
<1>14. /\ IsSeq(calls') /\ calls' # << >> /\ Len(calls') = n + 1
       /\ DOMAIN calls' = 1 .. n + 1 /\ calls'[n + 1] = c
       /\ \A k \in 1 .. n : calls'[k] = calls[k]
  <2>1. IsSeq(calls)
    BY DEF LabelInv
  <2>2. PICK r : r = Append(calls, c)
    OBVIOUS
  <2>3. Longer(r, calls, c)
    BY <2>1, <2>2, CallsAppended
  <2>4. /\ IsSeq(r) /\ r # << >> /\ Len(r) = n + 1
        /\ DOMAIN r = 1 .. n + 1 /\ r[n + 1] = c
        /\ \A k \in 1 .. n : r[k] = calls[k]
    BY <1>13, <2>3 DEF Longer
  <2> QED BY <1>9, <2>2, <2>4
<1>15. ASSUME NEW k \in 1 .. n + 1
       PROVE  \/ k \in 1 .. n /\ calls'[k] = calls[k] /\ k \in DOMAIN calls
              \/ k = n + 1 /\ calls'[k] = c
  BY <1>4, <1>13, <1>14
<1>16. ASSUME NEW k \in DOMAIN calls'
       PROVE  CallOK(calls'[k], next_label')
  BY <1>5, <1>12, <1>14, <1>15 DEF LabelInv
<1>17. ASSUME NEW j \in DOMAIN calls', NEW k \in DOMAIN calls', NEW l,
              Carries(calls'[j].code, l), Carries(calls'[k].code, l)
       PROVE  j = k
  <2>1. ASSUME NEW m \in DOMAIN calls', Carries(calls'[m].code, l)
        PROVE  m \in DOMAIN calls /\ calls'[m] = calls[m]
    BY <1>10, <1>11, <1>14, <1>15, <2>1
  <2>2. /\ j \in DOMAIN calls /\ calls'[j] = calls[j]
        /\ k \in DOMAIN calls /\ calls'[k] = calls[k]
    BY <1>17, <2>1
  <2> QED BY <1>17, <2>2 DEF LabelInv
<1>18. ASSUME NEW k \in DOMAIN calls', k < Len(calls')
       PROVE  AtLambda(calls'[k])
  <2>1. k \in 1 .. n /\ calls'[k] = calls[k]
    BY <1>14, <1>18
  <2>2. CASE k = n
    BY <1>1, <1>2, <1>4, <1>5, <1>6, <1>13, <2>1, <2>2 DEF AtLambda
  <2>3. CASE k # n
    <3>1. k \in DOMAIN calls /\ k < Len(calls)
      BY <1>4, <1>13, <2>1, <2>3
    <3> QED BY <2>1, <3>1 DEF LabelInv
  <2> QED BY <2>2, <2>3
<1> QED BY <1>4, <1>5, <1>14, <1>16, <1>17, <1>18 DEF LabelInv

\* r is the good code s with d in its lambda at i.
Rebodied(r, s, i, d) ==
  /\ Good(r) /\ DOMAIN r = DOMAIN s /\ \A k \in DOMAIN s \ {i} : r[k] = s[k]
  /\ \A l : Carries(r, l) => Carries(s, l) \/ Carries(d, l)

\* The codes have no label in common.
Unlike(s, d) == \A l : ~(Carries(s, l) /\ Carries(d, l))

\* A lambda's code replaced by a good one without common labels.
LEMMA BodyReplaced ==
  ASSUME NEW s, Good(s), NEW i, i \in DOMAIN s, IsLambda(s[i]), NEW d, Good(d),
         Unlike(s, d)
  PROVE  Rebodied([s EXCEPT ![i].code = d], s, i, d)
<1> PICK r : r = [s EXCEPT ![i].code = d]
  OBVIOUS
<1>0. \A l : ~(Carries(s, l) /\ Carries(d, l))
  BY DEF Unlike
<1>1. Piece(s) /\ Closed(s) /\ \A l : Carries(s, l) <=> HasIn(s, l)
  BY GoodPiece
<1>2. PICK e : e = [s[i] EXCEPT !.code = d]
  OBVIOUS
<1>3. r = [s EXCEPT ![i] = e]
  BY <1>2
<1>4. IsNode(e) /\ IsLambda(e) /\ e.code = d
  <2>1. s[i] = [op |-> s[i].op, code |-> s[i].code, label |-> s[i].label]
    BY <1>1 DEF Closed, IsNode, Node
  <2>2. e = [op |-> s[i].op, code |-> d, label |-> s[i].label]
    BY <1>2, <2>1
  <2> QED BY <2>2 DEF IsNode, Node, IsLambda
<1>5. /\ DOMAIN r = DOMAIN s /\ r[i] = e
      /\ \A k \in DOMAIN s \ {i} : r[k] = s[k]
  BY <1>3
<1>6. IsSeq(r)
  <2>1. PICK S : s \in Seq(S)
    BY <1>1 DEF Piece, IsSeq
  <2>2. PICK T : T = S \cup {e}
    OBVIOUS
  <2>3. s \in Seq(T) /\ e \in T /\ i \in 1 .. Len(s)
    <3>1. DOMAIN s = 1 .. Len(s)
      BY <1>1, SeqIndices DEF Piece
    <3> QED BY <2>1, <2>2, <3>1, SeqMonotonic
  <2>4. r \in Seq(T)
    BY <1>3, <2>3, ExceptSeq
  <2> QED BY <2>4 DEF IsSeq
<1>7. ASSUME NEW l
      PROVE  Has(e, l) <=> Carries(d, l)
  BY <1>4 DEF Has, IsLambda
<1>8. ASSUME NEW k \in DOMAIN s, NEW l, Has(s[k], l)
      PROVE  Carries(s, l)
  BY <1>1, <1>8 DEF HasIn
<1>9. Apart(r)
  <2> SUFFICES ASSUME NEW j \in DOMAIN r, NEW k \in DOMAIN r, NEW l,
                      Has(r[j], l), Has(r[k], l)
               PROVE  j = k
    BY DEF Apart
  <2>1. CASE j # i /\ k # i
    BY <1>1, <1>5, <2>1 DEF Piece, Apart
  <2>2. CASE j = i /\ k # i
    BY <1>0, <1>5, <1>7, <1>8, <2>2
  <2>3. CASE j # i /\ k = i
    BY <1>0, <1>5, <1>7, <1>8, <2>3
  <2> QED BY <2>1, <2>2, <2>3
<1>10. GoodWithin(r)
  BY <1>1, <1>4, <1>5 DEF GoodWithin, Piece
<1>11. Closed(r)
  <2>1. ASSUME NEW k \in DOMAIN r
        PROVE  IsNode(r[k])
    BY <1>1, <1>4, <1>5 DEF Closed
  <2>2. ASSUME NEW k \in DOMAIN r, r[k].op \in Branches
        PROVE  Targets(r, r[k].label) # {}
    <3>1. k # i
      BY <1>4, <1>5, <2>2 DEF IsLambda, Branches
    <3>2. r[k] = s[k]
      BY <1>5, <3>1
    <3>3. PICK m \in DOMAIN s : s[m] = Labelled("branch_target", s[k].label)
      BY <1>1, <1>5, <2>2, <3>2 DEF Closed, Targets
    <3>4. s[m].op = "branch_target"
      BY <3>3 DEF Labelled, Node
    <3>5. m # i
      BY <3>4 DEF IsLambda
    <3> QED BY <1>5, <3>2, <3>3, <3>5 DEF Targets
  <2> QED BY <1>6, <2>1, <2>2 DEF Closed
<1>12. Good(r)
  BY <1>9, <1>10, <1>11, ComposedGood
<1>13. ASSUME NEW l, Carries(r, l)
       PROVE  Carries(s, l) \/ Carries(d, l)
  <2>1. PICK k \in DOMAIN r : Has(r[k], l)
    BY <1>6, <1>13, CarriesIs
  <2> QED BY <1>5, <1>7, <1>8, <2>1
<1> QED BY <1>5, <1>12, <1>13 DEF Rebodied

\* r is s, of at least two, with c in the place of the last two.
Shorter(r, s, c) ==
  \E h \in Nat :
    /\ Len(s) = h + 2 /\ Last(Front(s)) = s[h + 1]
    /\ IsSeq(r) /\ r # << >> /\ Len(r) = h + 1 /\ DOMAIN r = 1 .. h + 1
    /\ r[h + 1] = c /\ \A k \in 1 .. h : r[k] = s[k]

\* The last activation goes and the one before it is changed.
LEMMA CallsShortened ==
  ASSUME NEW s, IsSeq(s), Len(s) > 1, NEW c, NEW r, r = Append(Front(Front(s)), c)
  PROVE  Shorter(r, s, c)
<1>1. PICK f : f = Front(s)
  OBVIOUS
<1>2. PICK g : g = Front(f)
  OBVIOUS
<1>3. Len(s) \in Nat /\ Len(s) > 0
  BY SeqIndices
<1>4. Fronted(f, s)
  BY <1>1, <1>3, FrontIs
<1>5. IsSeq(f) /\ Len(f) \in Nat /\ Len(s) = Len(f) + 1 /\ Len(f) > 0
      /\ \A k \in 1 .. Len(f) : f[k] = s[k]
  BY <1>3, <1>4 DEF Fronted
<1>6. Fronted(g, f)
  BY <1>2, <1>5, FrontIs
<1>7. IsSeq(g) /\ Len(g) \in Nat /\ Len(f) = Len(g) + 1
      /\ \A k \in 1 .. Len(g) : g[k] = f[k]
  BY <1>6 DEF Fronted
<1>8. Longer(r, g, c)
  BY <1>1, <1>2, <1>7, CallsAppended
<1>9. PICK h \in Nat : h = Len(g)
  BY <1>7
<1>10. /\ IsSeq(r) /\ r # << >> /\ Len(r) = h + 1 /\ DOMAIN r = 1 .. h + 1
       /\ r[h + 1] = c /\ \A k \in 1 .. h : r[k] = g[k]
  BY <1>8, <1>9 DEF Longer
<1>11. Last(Front(s)) = s[h + 1] /\ Len(s) = h + 2
  BY <1>1, <1>5, <1>7, <1>9 DEF Last
<1>12. \A k \in 1 .. h : r[k] = s[k]
  BY <1>5, <1>7, <1>9, <1>10
<1> QED BY <1>10, <1>11, <1>12 DEF Shorter

\* The caller is at its next node, and has the labels of the one that returns.
LEMMA ReturnLabels ==
  ASSUME LabelInv, Return
  PROVE  LabelInv'
<1>1. /\ Len(calls) \in Nat \ {0} /\ DOMAIN calls = 1 .. Len(calls)
      /\ Current = calls[Len(calls)] /\ next_label \in Nat
      /\ CallOK(Current, next_label) /\ next_label' = next_label
  BY CurrentOK DEF LabelInv, Return
<1>2. CASE Len(calls) = 1
  <2>1. calls' = calls
    BY <1>2 DEF Return
  <2> QED BY <1>1, <2>1 DEF LabelInv
<1>3. CASE Len(calls) # 1
  <2>1. PICK caller : caller = Last(Front(calls))
    OBVIOUS
  <2>2. PICK c : c = [caller EXCEPT !.code[caller.i].code = Current.code, !.i = @ + 1]
    OBVIOUS
  <2>3. calls' = Append(Front(Front(calls)), c)
    BY <1>3, <2>1, <2>2 DEF Return
  <2>4. PICK r : r = Append(Front(Front(calls)), c)
    OBVIOUS
  <2>5. Shorter(r, calls, c)
    <3>1. IsSeq(calls) /\ Len(calls) > 1
      BY <1>1, <1>3 DEF LabelInv
    <3> QED BY <2>4, <3>1, CallsShortened
  <2>6. PICK h \in Nat :
          /\ Len(calls) = h + 2 /\ Last(Front(calls)) = calls[h + 1]
          /\ IsSeq(r) /\ r # << >> /\ Len(r) = h + 1 /\ DOMAIN r = 1 .. h + 1
          /\ r[h + 1] = c /\ \A k \in 1 .. h : r[k] = calls[k]
    BY <2>5 DEF Shorter
  <2>7. /\ h + 1 \in DOMAIN calls /\ caller = calls[h + 1] /\ CallOK(caller, next_label)
        /\ AtLambda(caller)
    <3>1. h + 1 \in DOMAIN calls /\ h + 1 < Len(calls)
      BY <1>1, <2>6
    <3> QED BY <2>1, <2>6, <3>1 DEF LabelInv
  <2>8. /\ h + 2 \in DOMAIN calls /\ Current = calls[h + 2]
        /\ \A l : ~(Carries(caller.code, l) /\ Carries(Current.code, l))
    <3>1. h + 2 \in DOMAIN calls /\ Current = calls[h + 2]
      BY <1>1, <2>6
    <3>2. h + 1 # h + 2
      OBVIOUS
    <3> QED BY <2>7, <3>1, <3>2 DEF LabelInv
  <2>9. PICK code : code = [caller.code EXCEPT ![caller.i].code = Current.code]
    OBVIOUS
  <2>10. /\ c = [code |-> c.code, pass |-> c.pass, i |-> c.i]
         /\ c.code = code /\ c.pass = "lambdas" /\ c.i = caller.i + 1
    <3>1. caller = [code |-> caller.code, pass |-> caller.pass, i |-> caller.i]
          /\ caller.pass = "lambdas"
      BY <2>7 DEF CallOK, AtLambda
    <3> QED BY <2>2, <2>9, <3>1
  <2>11. /\ Good(code) /\ DOMAIN code = DOMAIN caller.code
         /\ \A k \in DOMAIN caller.code \ {caller.i} : code[k] = caller.code[k]
         /\ \A l : Carries(code, l) => Carries(caller.code, l) \/ Carries(Current.code, l)
    <3>1. Good(caller.code) /\ Good(Current.code)
      BY <1>1, <2>7 DEF CallOK
    <3>2. caller.i \in DOMAIN caller.code /\ IsLambda(caller.code[caller.i])
      BY <2>7 DEF AtLambda
    <3>3. Unlike(caller.code, Current.code)
      BY <2>8 DEF Unlike
    <3>4. Rebodied([caller.code EXCEPT ![caller.i].code = Current.code],
                   caller.code, caller.i, Current.code)
      BY <3>1, <3>2, <3>3, BodyReplaced
    <3> QED BY <2>9, <3>4 DEF Rebodied
  <2>12. CallOK(c, next_label)
    <3>1. \A l : Carries(c.code, l) => l \in Nat /\ l < next_label
      BY <1>1, <2>7, <2>10, <2>11 DEF CallOK
    <3>2. caller.i \in Nat /\ \A k \in DOMAIN caller.code : k \in Nat
      BY <2>7, GoodPiece, SeqIndices DEF CallOK, Piece
    <3>3. ASSUME NEW k \in DOMAIN c.code, k >= c.i, NEW l
          PROVE  ~Has(c.code[k], l)
      <4>1. k \in DOMAIN caller.code /\ k # caller.i /\ k >= caller.i
        BY <2>10, <2>11, <3>2, <3>3
      <4>2. ~Has(caller.code[k], l)
        BY <2>7, <4>1 DEF CallOK, AtLambda
      <4> QED BY <2>10, <2>11, <4>1, <4>2
    <3>4. c.i \in Nat /\ c.i > 0 /\ c.pass \in Passes /\ Good(c.code)
      BY <2>10, <2>11, <3>2 DEF Passes
    <3> QED BY <2>10, <3>1, <3>3, <3>4 DEF CallOK
  <2>13. ASSUME NEW k \in 1 .. h + 1
         PROVE  \/ k \in 1 .. h /\ r[k] = calls[k]
                \/ k = h + 1 /\ r[k] = c
    BY <2>6
  <2>14. \A k \in 1 .. h : k \in DOMAIN calls /\ k < Len(calls) /\ k # h + 1 /\ k # h + 2
    BY <1>1, <2>6
  <2>15. ASSUME NEW k \in 1 .. h + 1
         PROVE  CallOK(r[k], next_label)
    BY <2>12, <2>13, <2>14 DEF LabelInv
  <2>16. ASSUME NEW k \in 1 .. h, NEW l, Carries(calls[k].code, l)
         PROVE  ~Carries(c.code, l)
    <3>1. ~Carries(caller.code, l) /\ ~Carries(Current.code, l)
      BY <2>7, <2>8, <2>14, <2>16 DEF LabelInv
    <3> QED BY <2>10, <2>11, <3>1
  <2>17. ASSUME NEW j \in 1 .. h + 1, NEW k \in 1 .. h + 1, NEW l,
                Carries(r[j].code, l), Carries(r[k].code, l)
         PROVE  j = k
    <3>1. CASE j \in 1 .. h /\ k \in 1 .. h
      BY <2>6, <2>14, <2>17, <3>1 DEF LabelInv
    <3>2. CASE j \in 1 .. h /\ k = h + 1
      BY <2>6, <2>16, <2>17, <3>2
    <3>3. CASE j = h + 1 /\ k \in 1 .. h
      BY <2>6, <2>16, <2>17, <3>3
    <3>4. CASE j = h + 1 /\ k = h + 1
      BY <3>4
    <3> QED BY <2>13, <3>1, <3>2, <3>3, <3>4
  <2>18. ASSUME NEW k \in 1 .. h + 1, k < h + 1
         PROVE  AtLambda(r[k])
    <3>1. k \in 1 .. h
      BY <2>18
    <3> QED BY <2>6, <2>14, <3>1 DEF LabelInv
  <2>19. calls' = r
    BY <2>3, <2>4
  <2> QED BY <1>1, <2>6, <2>15, <2>17, <2>18, <2>19 DEF LabelInv
<1> QED BY <1>2, <1>3

\* LabelInv is inductive.
LEMMA StepLabels ==
  ASSUME LabelInv, [Next]_vars
  PROVE  LabelInv'
<1>1. ASSUME UNCHANGED <<calls, next_label>>
      PROVE  LabelInv'
  BY <1>1 DEF LabelInv
<1>2. CASE OptimizerNext
  BY <1>2, DescendLabels, InlineExecLabels, InlineCondExecLabels, InlineWhileLabels,
     AdvanceLabels, NextPassLabels, ReturnLabels DEF OptimizerNext
<1>3. CASE Compile
  BY <1>1, <1>3 DEF Compile
<1>4. CASE CompileLambda \/ CompileNode \/ CompileBranch
  BY <1>1, <1>4 DEF CompileLambda, CompileNode, CompileBranch, optimizerVars
<1>5. CASE FinishFunction
  BY <1>1, <1>5 DEF FinishFunction
<1>6. CASE UNCHANGED vars
  BY <1>1, <1>6 DEF vars, optimizerVars
<1> QED BY <1>2, <1>3, <1>4, <1>5, <1>6 DEF Next, Optimize

-----------------------------------------------------------------------------
(* The lambdas that LabelsResolve looks at are those that Reaches knows.   *)

\* The lambdas one level below those in S.
Below(S) == UNION {{<<Append(l[1], i), l[2][i].code>> :
                      i \in {j \in DOMAIN l[2] : IsLambda(l[2][j])}} : l \in S}

\* LambdasIn takes them level by level.
LEMMA LambdasInDef ==
  ASSUME NEW code
  PROVE  \E deep : /\ deep = [n \in 0 .. MaxDepth |->
                                IF n = 0 THEN {<< << >>, code >>}
                                ELSE Below(deep[n - 1])]
                  /\ LambdasIn(code) = UNION {deep[n] : n \in 0 .. MaxDepth}
<1> DEFINE Is(f, k) == f = [n \in 0 .. k |-> IF n = 0 THEN {<< << >>, code >>}
                                             ELSE Below(f[n - 1])]
           Bad == {k \in Nat : ~ \E f : Is(f, k)}
<1>1. Bad = {}
  <2> SUFFICES ASSUME Bad # {}
               PROVE  FALSE
    OBVIOUS
  <2>1. Bad \in SUBSET Nat
    OBVIOUS
  <2>2. PICK k \in Bad : \A y \in Bad : k <= y
    <3> HIDE DEF Bad
    <3> QED BY <2>1, LeastNatural
  <2>3. CASE k = 0
    <3>1. Is([n \in 0 .. 0 |-> {<< << >>, code >>}], 0)
      OBVIOUS
    <3> QED BY <2>2, <2>3, <3>1
  <2>4. CASE k > 0
    <3>0. k \in Nat
      BY <2>2
    <3>1. k - 1 \in Nat /\ k - 1 \notin Bad
      <4> HIDE DEF Bad
      <4>1. k - 1 \in Nat /\ ~(k <= k - 1)
        BY <2>4, <3>0
      <4> QED BY <2>2, <4>1
    <3>2. PICK f : Is(f, k - 1)
      BY <3>1
    <3> DEFINE g == [n \in 0 .. k |-> IF n = k THEN Below(f[k - 1]) ELSE f[n]]
    <3>3. ASSUME NEW n \in 0 .. k
          PROVE  g[n] = IF n = 0 THEN {<< << >>, code >>} ELSE Below(g[n - 1])
      <4>1. CASE n = k
        <5>1. g[n] = Below(f[k - 1])
          BY <4>1
        <5>2. g[k - 1] = f[k - 1]
          BY <3>0, <3>1
        <5> HIDE DEF g
        <5> QED BY <2>4, <4>1, <5>1, <5>2
      <4>2. CASE n # k
        <5>1. g[n] = f[n] /\ n \in 0 .. k - 1
          BY <3>0, <4>2
        <5>2. n # 0 => g[n - 1] = f[n - 1]
          BY <3>0, <5>1
        <5>3. f[n] = IF n = 0 THEN {<< << >>, code >>} ELSE Below(f[n - 1])
          BY <3>2, <5>1
        <5> HIDE DEF g
        <5> QED BY <5>1, <5>2, <5>3
      <4> QED BY <4>1, <4>2
    <3>4. Is(g, k)
      BY <3>3
    <3> QED BY <2>2, <3>4
  <2> QED BY <2>1, <2>2, <2>3, <2>4
<1>2. MaxDepth \in Nat
  BY ProgramsAssumption
<1>3. \E f : Is(f, MaxDepth)
  BY <1>1, <1>2
<1> DEFINE deep == CHOOSE f : Is(f, MaxDepth)
<1>4. Is(deep, MaxDepth)
  BY <1>3
<1>5. LambdasIn(code) = UNION {deep[n] : n \in 0 .. MaxDepth}
  BY DEF LambdasIn, Below
<1> QED BY <1>4, <1>5

\* What is in a lambda that the code reaches, the code reaches.
LEMMA ReachesMore ==
  ASSUME NEW code, NEW p, NEW l, Reaches(code, p, l),
         NEW i \in Nat, i \in DOMAIN l, IsLambda(l[i])
  PROVE  Reaches(code, Append(p, i), l[i].code)
<1>1. PICK s : Leads(s, code, p, l)
  BY DEF Reaches
<1>2. PICK q : q = Append(p, i)
  OBVIOUS
<1>3. p \in Seq(Nat) /\ Len(p) \in Nat
  BY LenProperties DEF Reaches
<1>4. /\ q \in Seq(Nat) /\ Len(q) = Len(p) + 1 /\ q[Len(p) + 1] = i
      /\ \A k \in 1 .. Len(p) : q[k] = p[k]
  BY <1>2, <1>3, AppendProperties
<1> DEFINE t == [k \in 0 .. Len(q) |-> IF k = Len(p) + 1 THEN l[i].code ELSE s[k]]
<1>5. /\ s[0] = code /\ s[Len(p)] = l
      /\ \A k \in 1 .. Len(p) :
           /\ p[k] \in DOMAIN s[k - 1] /\ IsLambda(s[k - 1][p[k]])
           /\ s[k] = s[k - 1][p[k]].code
  BY <1>1 DEF Leads
<1>6. t[0] = code /\ t[Len(q)] = l[i].code /\ t[Len(p)] = l
  BY <1>3, <1>4, <1>5
<1>7. ASSUME NEW k \in 1 .. Len(q)
      PROVE  /\ q[k] \in DOMAIN t[k - 1] /\ IsLambda(t[k - 1][q[k]])
             /\ t[k] = t[k - 1][q[k]].code
  <2>1. CASE k = Len(p) + 1
    <3>1. q[k] = i /\ t[k] = l[i].code /\ t[k - 1] = l
      BY <1>3, <1>4, <1>6, <2>1
    <3> HIDE DEF t
    <3> QED BY <3>1
  <2>2. CASE k # Len(p) + 1
    <3>1. k \in 1 .. Len(p)
      BY <1>3, <1>4, <2>2
    <3>2. q[k] = p[k] /\ t[k] = s[k] /\ t[k - 1] = s[k - 1]
      BY <1>3, <1>4, <3>1
    <3> HIDE DEF t
    <3> QED BY <1>5, <3>1, <3>2
  <2> QED BY <2>1, <2>2
<1>8. t = [k \in 0 .. Len(q) |-> t[k]]
  OBVIOUS
<1> HIDE DEF t
<1>9. Leads(t, code, q, l[i].code)
  BY <1>6, <1>7, <1>8 DEF Leads
<1> QED BY <1>2, <1>4, <1>9 DEF Reaches

\* x is a lambda that code reaches, and its path.
Reached(code, x) == \E p, l : x = <<p, l>> /\ Reaches(code, p, l)

\* LabelsResolve looks at nothing but what the code reaches.
LEMMA LambdasReached ==
  ASSUME NEW code, Good(code), NEW x \in LambdasIn(code)
  PROVE  Reached(code, x)
<1>1. PICK deep :
        /\ deep = [n \in 0 .. MaxDepth |-> IF n = 0 THEN {<< << >>, code >>}
                                            ELSE Below(deep[n - 1])]
        /\ LambdasIn(code) = UNION {deep[n] : n \in 0 .. MaxDepth}
  BY LambdasInDef
<1>2. MaxDepth \in Nat
  BY ProgramsAssumption
<1> DEFINE Bad == {n \in 0 .. MaxDepth : \E y \in deep[n] : ~Reached(code, y)}
<1>3. Bad = {}
  <2> SUFFICES ASSUME Bad # {}
               PROVE  FALSE
    OBVIOUS
  <2>1. PICK n \in Bad : \A m \in Bad : n <= m
    <3>1. Bad \in SUBSET Nat
      BY <1>2
    <3> HIDE DEF Bad
    <3> QED BY <3>1, LeastNatural
  <2>2. PICK y \in deep[n] : ~Reached(code, y)
    OBVIOUS
  <2>3. CASE n = 0
    <3>1. y = << << >>, code >>
      BY <1>1, <2>1, <2>2, <2>3
    <3>2. Reaches(code, << >>, code)
      BY ReachesItself
    <3> QED BY <2>2, <3>1, <3>2 DEF Reached
  <2>4. CASE n # 0
    <3>1. n - 1 \in 0 .. MaxDepth /\ ~(n <= n - 1) /\ deep[n] = Below(deep[n - 1])
      <4>1. n \in 0 .. MaxDepth
        BY <2>1
      <4>2. n - 1 \in 0 .. MaxDepth /\ ~(n <= n - 1)
        BY <1>2, <2>4, <4>1
      <4>3. deep[n] = Below(deep[n - 1])
        BY <1>1, <2>4, <4>1
      <4> QED BY <4>2, <4>3
    <3>2. PICK z \in deep[n - 1] : \E i \in DOMAIN z[2] :
            IsLambda(z[2][i]) /\ y = <<Append(z[1], i), z[2][i].code>>
      BY <2>2, <3>1 DEF Below
    <3>3. Reached(code, z)
      BY <2>1, <3>1, <3>2
    <3>4. PICK p, l : z = <<p, l>> /\ Reaches(code, p, l)
      BY <3>3 DEF Reached
    <3>5. PICK i \in DOMAIN l : IsLambda(l[i]) /\ y = <<Append(p, i), l[i].code>>
      BY <3>2, <3>4
    <3>6. i \in Nat
      <4>1. IsSeq(l)
        BY <3>4 DEF Good, Closed
      <4> QED BY <3>5, <4>1, SeqIndices
    <3>7. Reaches(code, Append(p, i), l[i].code)
      BY <3>4, <3>5, <3>6, ReachesMore
    <3> QED BY <2>2, <3>5, <3>7 DEF Reached
  <2> QED BY <2>3, <2>4
<1> QED BY <1>1, <1>3

-----------------------------------------------------------------------------
(* LabelsResolve.                                                          *)

\* A good code's labels resolve.
LEMMA GoodResolves ==
  ASSUME LabelInv
  PROVE  LabelsResolve
<1>1. PICK code : code = Current.code
  OBVIOUS
<1>2. Good(code)
  BY <1>1, CurrentOK DEF CallOK
<1> DEFINE lambdas == LambdasIn(code)
           at(l, op) == {i \in DOMAIN l[2] : l[2][i].op = op}
           nodes(op) == UNION {{<<l, i>> : i \in at(l, op)} : l \in lambdas}
           label(x) == x[1][2][x[2]].label
<1>3. ASSUME NEW op, NEW x \in nodes(op)
      PROVE  \E p, c, i : /\ x = << <<p, c>>, i >> /\ Reaches(code, p, c)
                          /\ i \in DOMAIN c /\ c[i].op = op
  <2>1. PICK l \in lambdas : \E i \in DOMAIN l[2] : l[2][i].op = op /\ x = <<l, i>>
    OBVIOUS
  <2> HIDE DEF lambdas, nodes
  <2>2. Reached(code, l)
    BY <1>2, <2>1, LambdasReached DEF lambdas
  <2>3. PICK p, c : l = <<p, c>> /\ Reaches(code, p, c)
    BY <2>2 DEF Reached
  <2> QED BY <2>1, <2>3
<1>4. ASSUME NEW x \in nodes("branch_target"), NEW y \in nodes("branch_target"),
             label(x) = label(y)
      PROVE  x = y
  <2>1. PICK p, c, i : /\ x = << <<p, c>>, i >> /\ Reaches(code, p, c)
                       /\ i \in DOMAIN c /\ c[i].op = "branch_target"
    BY <1>3
  <2>2. PICK q, d, j : /\ y = << <<q, d>>, j >> /\ Reaches(code, q, d)
                       /\ j \in DOMAIN d /\ d[j].op = "branch_target"
    BY <1>3
  <2>3. c[i].label = d[j].label
    BY <1>4, <2>1, <2>2
  <2>4. TargetAt(code, p, c, i, c[i].label) /\ TargetAt(code, q, d, j, c[i].label)
    BY <2>1, <2>2, <2>3 DEF TargetAt
  <2>5. p = q /\ c = d /\ i = j
    BY <1>2, <2>4 DEF Good
  <2> QED BY <2>1, <2>2, <2>5
<1>5. ASSUME NEW op \in Branches, NEW x \in nodes(op)
      PROVE  Targets(x[1][2], label(x)) # {}
  <2>1. PICK p, c, i : /\ x = << <<p, c>>, i >> /\ Reaches(code, p, c)
                       /\ i \in DOMAIN c /\ c[i].op = op
    BY <1>3
  <2>2. x[1][2] = c /\ label(x) = c[i].label
    BY <2>1
  <2>3. Targets(c, c[i].label) # {}
    BY <1>2, <2>1 DEF Good, Closed
  <2> QED BY <2>2, <2>3
<1> QED BY <1>1, <1>4, <1>5 DEF LabelsResolve

\* Once optimized, every program has for each branch a target in the code it
\* is compiled with, and no label with two targets in any of its lambdas,
\* whatever its lambdas, conditionals and loops are and however they are
\* nested: Compiler::labels is one table for all the functions.
THEOREM LabelsAlwaysResolve == Spec => []LabelsResolve
<1>1. Init => LabelInv
  BY InitLabels DEF Init
<1>2. LabelInv /\ [Next]_vars => LabelInv'
  BY StepLabels
<1>3. LabelInv => LabelsResolve
  BY GoodResolves
<1> QED BY <1>1, <1>2, <1>3, PTL DEF Spec
=============================================================================
