---------------------------- MODULE MeaningProofs ----------------------------
(***************************************************************************)
(* Optimizing and compiling keep the meaning of every program, proved for  *)
(* all programs, operands and depths.                                      *)
(*                                                                         *)
(* The first part is about two machines of Program.tla that run codes      *)
(* which differ by what a pass or the compiler does to them: they end in   *)
(* the same ways (PairedSame).  The second part is about the optimizer:    *)
(* MeaningInv says that the code of the whole program, put together from   *)
(* the activations, means what the source does.  The third is about the    *)
(* compiler: CompileInv says that the code given to libjit does what the   *)
(* optimizer left.                                                         *)
(***************************************************************************)
EXTENDS LabelProofs

-----------------------------------------------------------------------------
(* Runs of a machine.                                                      *)

\* f is what m goes through in n steps.
Trace(f, m, n) ==
  /\ f = [k \in 0 .. n |-> f[k]]
  /\ f[0] = m
  /\ \A k \in 1 .. n : f[k] = Stepped(f[k - 1])

\* m after n steps.
After(m, n) == (CHOOSE f : Trace(f, m, n))[n]

\* What Outcome tells of a machine.
Seen(m) == [ended |-> m.ended,
            stack |-> IF m.ended # "finished" THEN <<>>
                      ELSE [i \in DOMAIN m.stack |-> m.stack[i].op]]

\* m ends, and o is what it leaves.
EndsAs(m, o) == o.ended # "no" /\ \E n \in Nat : o = Seen(After(m, n))

\* A machine has a run of every length.
LEMMA TraceExists ==
  ASSUME NEW m, NEW n \in Nat
  PROVE  \E f : Trace(f, m, n)
<1> DEFINE Bad == {k \in Nat : ~\E f : Trace(f, m, k)}
<1>1. ASSUME Bad # {}
      PROVE  FALSE
  <2>1. PICK k \in Bad : \A y \in Bad : k <= y
    <3>1. Bad \in SUBSET Nat
      OBVIOUS
    <3> HIDE DEF Bad
    <3> QED BY <1>1, <3>1, LeastNatural
  <2>2. CASE k = 0
    <3> DEFINE f == [j \in 0 .. 0 |-> m]
    <3>1. Trace(f, m, 0)
      BY DEF Trace
    <3> QED BY <2>1, <2>2, <3>1
  <2>3. CASE k # 0
    <3>1. k - 1 \in Nat /\ ~(k <= k - 1)
      BY <2>1, <2>3
    <3>2. PICK g : Trace(g, m, k - 1)
      BY <2>1, <3>1
    <3> DEFINE f == [j \in 0 .. k |-> IF j = k THEN Stepped(g[k - 1]) ELSE g[j]]
    <3>3. f = [j \in 0 .. k |-> f[j]]
      OBVIOUS
    <3>4. f[0] = m
      BY <2>3, <3>1, <3>2 DEF Trace
    <3>5. ASSUME NEW j \in 1 .. k
          PROVE  f[j] = Stepped(f[j - 1])
      <4>1. CASE j = k
        <5>1. k - 1 # k /\ k - 1 \in 0 .. k /\ k \in 0 .. k
          BY <3>1
        <5> QED BY <4>1, <5>1
      <4>2. CASE j # k
        <5>1. j \in 1 .. k - 1 /\ j \in 0 .. k /\ j - 1 \in 0 .. k /\ j - 1 # k
          BY <3>1, <4>2
        <5>2. g[j] = Stepped(g[j - 1])
          BY <3>2, <5>1 DEF Trace
        <5> QED BY <4>2, <5>1, <5>2
      <4> QED BY <4>1, <4>2
    <3> HIDE DEF f
    <3>6. Trace(f, m, k)
      BY <3>3, <3>4, <3>5 DEF Trace
    <3> QED BY <2>1, <3>6
  <2> QED BY <2>2, <2>3
<1> QED BY <1>1

\* Runs agree as far as both go.
LEMMA TracesAgree ==
  ASSUME NEW m, NEW n \in Nat, NEW p \in Nat, NEW f, Trace(f, m, n),
         NEW g, Trace(g, m, p), NEW k \in Nat, k <= n, k <= p
  PROVE  f[k] = g[k]
<1> DEFINE Bad == {j \in Nat : j <= n /\ j <= p /\ f[j] # g[j]}
<1>1. ASSUME Bad # {}
      PROVE  FALSE
  <2>1. PICK j \in Bad : \A y \in Bad : j <= y
    <3>1. Bad \in SUBSET Nat
      OBVIOUS
    <3> HIDE DEF Bad
    <3> QED BY <1>1, <3>1, LeastNatural
  <2>2. CASE j = 0
    BY <2>1, <2>2 DEF Trace
  <2>3. CASE j # 0
    <3>1. j - 1 \in Nat /\ ~(j <= j - 1) /\ j - 1 <= n /\ j - 1 <= p
      BY <2>1, <2>3
    <3>2. f[j - 1] = g[j - 1]
      BY <2>1, <3>1
    <3>3. j \in 1 .. n /\ j \in 1 .. p
      BY <2>1, <2>3
    <3>4. f[j] = Stepped(f[j - 1]) /\ g[j] = Stepped(g[j - 1])
      BY <3>3 DEF Trace
    <3> QED BY <2>1, <3>2, <3>4
  <2> QED BY <2>2, <2>3
<1> QED BY <1>1

\* After is what every run that long has.
LEMMA AfterIs ==
  ASSUME NEW m, NEW n \in Nat, NEW f, Trace(f, m, n), NEW k \in 0 .. n
  PROVE  f[k] = After(m, k)
<1>1. k \in Nat
  OBVIOUS
<1>2. PICK g : g = (CHOOSE h : Trace(h, m, k))
  OBVIOUS
<1>3. Trace(g, m, k)
  BY <1>1, <1>2, TraceExists
<1>4. f[k] = g[k]
  BY <1>1, <1>3, TracesAgree
<1> QED BY <1>2, <1>4 DEF After

\* No steps, and one step more, at the end or at the beginning.
LEMMA AfterSteps ==
  ASSUME NEW m, NEW n \in Nat
  PROVE  /\ After(m, 0) = m
         /\ After(m, n + 1) = Stepped(After(m, n))
         /\ After(m, n + 1) = After(Stepped(m), n)
<1>1. n + 1 \in Nat
  OBVIOUS
<1>2. PICK f : Trace(f, m, n + 1)
  BY <1>1, TraceExists
<1>3. \A k \in 0 .. n + 1 : f[k] = After(m, k)
  BY <1>1, <1>2, AfterIs
<1>4. After(m, 0) = m
  BY <1>2, <1>3 DEF Trace
<1>5. After(m, n + 1) = Stepped(After(m, n))
  <2>1. n + 1 \in 1 .. n + 1 /\ (n + 1) - 1 = n /\ n \in 0 .. n + 1 /\ n + 1 \in 0 .. n + 1
    OBVIOUS
  <2>2. f[n + 1] = Stepped(f[n])
    BY <1>2, <2>1 DEF Trace
  <2> QED BY <1>3, <2>1, <2>2
<1>6. After(m, n + 1) = After(Stepped(m), n)
  <2> DEFINE g == [k \in 0 .. n |-> f[k + 1]]
  <2>1. g = [k \in 0 .. n |-> g[k]]
    OBVIOUS
  <2>2. g[0] = Stepped(m)
    <3>1. 1 \in 1 .. n + 1 /\ 1 - 1 = 0 /\ 0 + 1 = 1 /\ 0 \in 0 .. n
      OBVIOUS
    <3>2. f[1] = Stepped(f[0]) /\ f[0] = m
      BY <1>2, <3>1 DEF Trace
    <3> QED BY <3>1, <3>2
  <2>3. ASSUME NEW k \in 1 .. n
        PROVE  g[k] = Stepped(g[k - 1])
    <3>1. /\ k + 1 \in 1 .. n + 1 /\ (k + 1) - 1 = k /\ (k - 1) + 1 = k
          /\ k \in 0 .. n /\ k - 1 \in 0 .. n
      OBVIOUS
    <3>2. f[k + 1] = Stepped(f[k])
      BY <1>2, <3>1 DEF Trace
    <3> QED BY <3>1, <3>2
  <2>4. n \in 0 .. n /\ g[n] = f[n + 1] /\ n + 1 \in 0 .. n + 1
    OBVIOUS
  <2> HIDE DEF g
  <2>5. Trace(g, Stepped(m), n)
    BY <2>1, <2>2, <2>3 DEF Trace
  <2>6. g[n] = After(Stepped(m), n)
    BY <2>4, <2>5, AfterIs
  <2> QED BY <1>3, <2>4, <2>6
<1> QED BY <1>4, <1>5, <1>6

\* A machine that has ended stays as it is.
LEMMA EndedStays ==
  ASSUME NEW m, m.ended # "no", NEW n \in Nat
  PROVE  After(m, n) = m
<1> DEFINE Bad == {k \in Nat : After(m, k) # m}
<1>1. ASSUME Bad # {}
      PROVE  FALSE
  <2>1. PICK k \in Bad : \A y \in Bad : k <= y
    <3>1. Bad \in SUBSET Nat
      OBVIOUS
    <3> HIDE DEF Bad
    <3> QED BY <1>1, <3>1, LeastNatural
  <2>2. CASE k = 0
    <3>1. After(m, 0) = m
      BY AfterSteps
    <3> QED BY <2>1, <2>2, <3>1
  <2>3. CASE k # 0
    <3>1. k - 1 \in Nat /\ ~(k <= k - 1) /\ (k - 1) + 1 = k
      BY <2>1, <2>3
    <3>2. After(m, k - 1) = m
      BY <2>1, <3>1
    <3>3. After(m, (k - 1) + 1) = Stepped(After(m, k - 1))
      BY <3>1, AfterSteps
    <3>4. Stepped(m) = m
      BY DEF Stepped
    <3> QED BY <2>1, <3>1, <3>2, <3>3, <3>4
  <2> QED BY <2>2, <2>3
<1> QED BY <1>1

\* What Outcome tells is seen of the machine after so many steps.
LEMMA OutcomeIs ==
  ASSUME NEW code, NEW operands, NEW n \in Nat
  PROVE  Outcome(code, operands, n) = Seen(After(Started(code, operands), n))
<1> DEFINE m == Started(code, operands)
           G(f) == [k \in 0 .. n |-> IF k = 0 THEN Started(code, operands)
                                     ELSE Stepped(f[k - 1])]
           after == CHOOSE f : f = G(f)
<1>1. PICK f : Trace(f, m, n)
  BY TraceExists
<1>2. f = G(f)
  <2>1. f = [k \in 0 .. n |-> f[k]]
    BY <1>1 DEF Trace
  <2>2. ASSUME NEW k \in 0 .. n
        PROVE  f[k] = G(f)[k]
    <3>1. CASE k = 0
      BY <1>1, <3>1 DEF Trace
    <3>2. CASE k # 0
      <4>1. k \in 1 .. n
        BY <3>2
      <4>2. f[k] = Stepped(f[k - 1])
        BY <1>1, <4>1 DEF Trace
      <4> QED BY <3>2, <4>2
    <3> QED BY <3>1, <3>2
  <2>3. G(f) = [k \in 0 .. n |-> G(f)[k]]
    OBVIOUS
  <2> HIDE DEF G
  <2> QED BY <2>1, <2>2, <2>3
<1>3. after = G(after)
  BY <1>2
<1> HIDE DEF after
<1>4. Trace(after, m, n)
  <2>1. after = [k \in 0 .. n |-> after[k]]
    <3>1. G(after) = [k \in 0 .. n |-> G(after)[k]]
      OBVIOUS
    <3> HIDE DEF G
    <3> QED BY <1>3, <3>1
  <2>2. ASSUME NEW k \in 0 .. n
        PROVE  after[k] = IF k = 0 THEN m ELSE Stepped(after[k - 1])
    BY <1>3
  <2>3. after[0] = m
    BY <2>2
  <2>4. ASSUME NEW k \in 1 .. n
        PROVE  after[k] = Stepped(after[k - 1])
    BY <2>2
  <2> HIDE DEF m
  <2> QED BY <2>1, <2>3, <2>4 DEF Trace
<1>5. after[n] = After(m, n)
  <2>1. n \in 0 .. n
    OBVIOUS
  <2> HIDE DEF m
  <2> QED BY <1>4, <2>1, AfterIs
<1>6. Outcome(code, operands, n) = Seen(after[n])
  BY DEF Outcome, Seen, after
<1> QED BY <1>5, <1>6

-----------------------------------------------------------------------------
(* What a step does to a machine that runs.                                *)

\* A machine that has not ended.
Running(stack, running) == [stack |-> stack, running |-> running, ended |-> "no"]

\* An activation.
Frame(code, at, phase, lambdas) ==
  [code |-> code, at |-> at, phase |-> phase, lambdas |-> lambdas]
IsFrame(a) == a = Frame(a.code, a.at, a.phase, a.lambdas) /\ a.at \in Nat

\* a, having gone on to i.
To(a, i) == Frame(a.code, i, a.phase, a.lambdas)

\* Nothing more is said of a machine that has aborted.
HasAborted(m) == m.ended = "aborted"

\* r is x with e behind it.
Appended(r, x, e) ==
  /\ IsSeq(r) /\ r # << >> /\ Len(r) = Len(x) + 1 /\ Len(x) \in Nat
  /\ r[Len(r)] = e /\ Last(r) = e /\ Front(r) = x
  /\ \A i \in 1 .. Len(x) : r[i] = x[i]

\* The last of a sequence to which it was appended, and what was there before.
LEMMA AppendIs ==
  ASSUME NEW x, IsSeq(x), NEW e, NEW r, r = Append(x, e)
  PROVE  Appended(r, x, e)
<1>1. PICK S : x \in Seq(S)
  BY DEF IsSeq
<1>2. PICK T : T = S \cup {e}
  OBVIOUS
<1>3. x \in Seq(T) /\ e \in T
  BY <1>1, <1>2, SeqMonotonic
<1>4. /\ r \in Seq(T) /\ Len(r) = Len(x) + 1 /\ Len(x) \in Nat
      /\ r[Len(r)] = e
      /\ \A i \in 1 .. Len(x) : r[i] = x[i]
  <2>1. Append(x, e) \in Seq(T) /\ Len(Append(x, e)) = Len(x) + 1
        /\ \A i \in 1 .. Len(x) : Append(x, e)[i] = x[i]
        /\ Append(x, e)[Len(x) + 1] = e
    BY <1>3, AppendProperties
  <2>2. Len(x) \in Nat
    BY <1>3, LenProperties
  <2> QED BY <2>1, <2>2
<1>5. r # << >>
  BY <1>4, EmptySeq
<1>6. Last(r) = e
  BY <1>4 DEF Last
<1>7. PICK f : f = Front(r)
  OBVIOUS
<1>8. Fronted(f, r)
  <2>1. IsSeq(r) /\ Len(r) > 0
    BY <1>4 DEF IsSeq
  <2> QED BY <1>7, <2>1, FrontIs
<1>9. IsSeq(f) /\ Len(f) = Len(x) /\ \A i \in 1 .. Len(x) : f[i] = x[i]
  <2>1. Len(f) = Len(x)
    BY <1>4, <1>8 DEF Fronted
  <2>2. \A i \in 1 .. Len(f) : f[i] = r[i]
    BY <1>8 DEF Fronted
  <2> QED BY <1>4, <1>8, <2>1, <2>2 DEF Fronted
<1>10. f = x
  <2>1. PICK U : f \in Seq(U)
    BY <1>9 DEF IsSeq
  <2>2. f \in Seq(U \cup T) /\ x \in Seq(U \cup T)
    BY <1>3, <2>1, SeqMonotonic
  <2> QED BY <1>9, <2>2, SeqEqual
<1> QED BY <1>4, <1>5, <1>6, <1>7, <1>10 DEF IsSeq, Appended

\* A sequence that is not empty was appended to.
LEMMA SeqIsAppend ==
  ASSUME NEW s, IsSeq(s), s # << >>
  PROVE  /\ IsSeq(Front(s)) /\ s = Append(Front(s), Last(s))
         /\ Len(Front(s)) = Len(s) - 1 /\ Len(s) > 0 /\ Len(s) \in Nat
<1>1. PICK S : s \in Seq(S)
  BY DEF IsSeq
<1>2. Len(s) \in Nat /\ Len(s) > 0
  BY <1>1, EmptySeq, LenProperties
<1>3. PICK f : f = Front(s)
  OBVIOUS
<1>4. Fronted(f, s)
  BY <1>2, <1>3, FrontIs
<1>5. PICK r : r = Append(f, s[Len(s)])
  OBVIOUS
<1>6. /\ IsSeq(f) /\ Len(f) \in Nat /\ Len(s) = Len(f) + 1
      /\ \A k \in 1 .. Len(f) : f[k] = s[k]
  BY <1>4 DEF Fronted
<1>7. /\ IsSeq(r) /\ Len(r) = Len(s) /\ r[Len(s)] = s[Len(s)]
      /\ \A k \in 1 .. Len(f) : r[k] = f[k]
  <2>1. /\ IsSeq(r) /\ Len(r) = Len(f) + 1 /\ r[Len(r)] = s[Len(s)]
        /\ \A k \in 1 .. Len(f) : r[k] = f[k]
    <3>1. Appended(r, f, s[Len(s)])
      BY <1>5, <1>6, AppendIs
    <3> QED BY <3>1 DEF Appended
  <2> QED BY <1>6, <2>1
<1>8. \A k \in 1 .. Len(s) : r[k] = s[k]
  <2>1. \A k \in 1 .. Len(s) : k = Len(s) \/ k \in 1 .. Len(f)
    BY <1>6
  <2> QED BY <1>6, <1>7, <2>1
<1>9. r = s
  <2>1. PICK U : r \in Seq(U)
    BY <1>7 DEF IsSeq
  <2>2. r \in Seq(U \cup S) /\ s \in Seq(U \cup S)
    BY <1>1, <2>1, SeqMonotonic
  <2> QED BY <1>7, <1>8, <2>2, SeqEqual
<1>10. Last(s) = s[Len(s)]
  BY DEF Last
<1>11. Len(f) = Len(s) - 1
  BY <1>2, <1>6
<1> QED BY <1>2, <1>3, <1>5, <1>6, <1>9, <1>10, <1>11

\* m runs a over x: it can go on in it, or elsewhere.
RunsOn(m, stack, x, a) ==
  /\ Advanced(m) = Running(stack, Append(x, To(a, a.at + 1)))
  /\ \A i : [m EXCEPT !.running[Len(m.running)].at = i]
             = Running(stack, Append(x, To(a, i)))

\* The machine has passed its instruction, or jumps.
LEMMA AdvancedIs ==
  ASSUME NEW x, IsSeq(x), NEW a, IsFrame(a), NEW stack,
         NEW m, m = Running(stack, Append(x, a))
  PROVE  RunsOn(m, stack, x, a)
<1>1. PICK r : r = Append(x, a)
  OBVIOUS
<1>2. /\ IsSeq(r) /\ Len(r) = Len(x) + 1 /\ r[Len(r)] = a /\ Len(x) \in Nat
      /\ \A k \in 1 .. Len(x) : r[k] = x[k]
  <2>1. Appended(r, x, a)
    BY <1>1, AppendIs
  <2> QED BY <2>1 DEF Appended
<1>3. m = [stack |-> stack, running |-> r, ended |-> "no"]
  BY <1>1 DEF Running
<1>4. ASSUME NEW b
      PROVE  [r EXCEPT ![Len(r)] = b] = Append(x, b)
  <2>1. PICK n \in Nat : n = Len(r)
    BY <1>2
  <2>2. n = Len(x) + 1 /\ DOMAIN r = 1 .. n
    BY <1>2, <2>1, SeqIndices
  <2>3. PICK S : r \in Seq(S)
    BY <1>2 DEF IsSeq
  <2>4. PICK T : T = S \cup {b}
    OBVIOUS
  <2>5. r \in Seq(T) /\ b \in T /\ n \in 1 .. Len(r)
    BY <1>2, <2>1, <2>3, <2>4, SeqMonotonic
  <2>6. PICK e : e = [r EXCEPT ![n] = b]
    OBVIOUS
  <2>7. /\ e \in Seq(T) /\ Len(e) = n
        /\ \A k \in 1 .. n : e[k] = IF k = n THEN b ELSE r[k]
    BY <2>1, <2>5, <2>6, ExceptSeq
  <2>8. PICK q : q = Append(x, b)
    OBVIOUS
  <2>9. /\ IsSeq(q) /\ Len(q) = Len(x) + 1 /\ q[Len(q)] = b
        /\ \A k \in 1 .. Len(x) : q[k] = x[k]
    <3>1. Appended(q, x, b)
      BY <2>8, AppendIs
    <3> QED BY <3>1 DEF Appended
  <2>10. PICK U : q \in Seq(U)
    BY <2>9 DEF IsSeq
  <2>11. e \in Seq(T \cup U) /\ q \in Seq(T \cup U)
    BY <2>7, <2>10, SeqMonotonic
  <2>12. \A k \in 1 .. n : k = n \/ (k \in 1 .. Len(x) /\ k # n)
    BY <1>2, <2>2
  <2>13. \A k \in 1 .. n : e[k] = q[k]
    BY <1>2, <2>2, <2>7, <2>9, <2>12
  <2>14. Len(e) = Len(q)
    BY <2>2, <2>7, <2>9
  <2>15. e = q
    BY <2>7, <2>11, <2>13, <2>14, SeqEqual
  <2> QED BY <2>1, <2>6, <2>8, <2>15
<1>5. DOMAIN r = 1 .. Len(r) /\ Len(r) \in DOMAIN r
  BY <1>2, SeqIndices
<1>6. a = [code |-> a.code, at |-> a.at, phase |-> a.phase, lambdas |-> a.lambdas]
  BY DEF IsFrame, Frame
<1>7. ASSUME NEW k
      PROVE  [m EXCEPT !.running[Len(m.running)].at = k]
               = Running(stack, Append(x, To(a, k)))
  <2>1. [a EXCEPT !.at = k] = To(a, k)
    BY <1>6 DEF To, Frame
  <2>2. [m EXCEPT !.running[Len(m.running)].at = k]
          = [m EXCEPT !.running = [r EXCEPT ![Len(r)] = [a EXCEPT !.at = k]]]
    BY <1>2, <1>3
  <2>3. [m EXCEPT !.running = [r EXCEPT ![Len(r)] = [a EXCEPT !.at = k]]]
          = [m EXCEPT !.running = Append(x, To(a, k))]
    BY <1>4, <2>1
  <2>4. [m EXCEPT !.running = Append(x, To(a, k))] = Running(stack, Append(x, To(a, k)))
    <3>1. PICK z : z = Append(x, To(a, k))
      OBVIOUS
    <3>2. [m EXCEPT !.running = z] = [stack |-> stack, running |-> z, ended |-> "no"]
      BY <1>3
    <3> QED BY <3>1, <3>2 DEF Running
  <2> QED BY <2>2, <2>3, <2>4
<1>8. Advanced(m) = [m EXCEPT !.running[Len(m.running)].at = a.at + 1]
  BY <1>2, <1>3 DEF Advanced
<1> QED BY <1>7, <1>8 DEF RunsOn

\* m runs x over the stack: what the small operations make of it.
Runs(m, stack, x) ==
  /\ m.ended = "no" /\ m.stack = stack /\ m.running = x
  /\ Popped(m) = Running(Front(stack), x)
  /\ HasAborted(Aborted(m))
  /\ \A v : Pushed(m, v) = Running(Append(stack, v), x)
  /\ \A a : Entered(m, a) = Running(stack, Append(x, a))
  /\ Left(m) = Running(stack, Front(x))

\* The small operations.
LEMMA MachineIs ==
  ASSUME NEW x, NEW stack, NEW m, m = Running(stack, x)
  PROVE  Runs(m, stack, x)
<1>1. m = [stack |-> stack, running |-> x, ended |-> "no"]
  BY DEF Running
<1> QED BY <1>1 DEF Popped, HasAborted, Aborted, Pushed, Entered, Left, Running, Runs

\* A step at a node.
LEMMA StepAtNode ==
  ASSUME NEW x, IsSeq(x), NEW a, IsFrame(a), NEW stack,
         IsSeq(a.code), a.at \in DOMAIN a.code
  PROVE  Stepped(Running(stack, Append(x, a)))
           = Instructed(Running(stack, Append(x, To(a, a.at + 1))), a.code[a.at])
<1>1. PICK m : m = Running(stack, Append(x, a))
  OBVIOUS
<1>2. m.ended = "no" /\ m.running = Append(x, a)
  <2>1. Runs(m, stack, Append(x, a))
    BY <1>1, MachineIs
  <2> QED BY <2>1 DEF Runs
<1>3. Append(x, a) # << >> /\ Last(Append(x, a)) = a
  <2>1. Appended(Append(x, a), x, a)
    BY AppendIs
  <2> QED BY <2>1 DEF Appended
<1>4. ~(a.at > Len(a.code))
  <2>1. Len(a.code) \in Nat /\ DOMAIN a.code = 1 .. Len(a.code)
    BY SeqIndices
  <2> QED BY <2>1
<1>5. Advanced(m) = Running(stack, Append(x, To(a, a.at + 1)))
  <2>1. RunsOn(m, stack, x, a)
    BY <1>1, AdvancedIs
  <2> QED BY <2>1 DEF RunsOn
<1>6. Stepped(m) = Instructed(Advanced(m), a.code[a.at])
  BY <1>2, <1>3, <1>4 DEF Stepped
<1> QED BY <1>1, <1>5, <1>6

\* The code of a has come to its end: o is what comes of it.
EndsPart(o, stack, x, a) ==
  /\ a.phase = "call" => o = Running(stack, x)
  /\ a.phase = "body" =>
       o = Running(stack, Append(x, LoopPart("cond", a.lambdas[1], a.lambdas[2])))
  /\ a.phase = "cond" =>
       /\ stack = << >> => HasAborted(o)
       /\ stack # << >> /\ Truthy(Last(stack)) =>
            o = Running(Front(stack),
                  Append(x, LoopPart("body", a.lambdas[1], a.lambdas[2])))
       /\ stack # << >> /\ ~Truthy(Last(stack)) => o = Running(Front(stack), x)

\* A step at the end of a code.
LEMMA StepAtEnd ==
  ASSUME NEW x, IsSeq(x), NEW a, NEW stack, NEW m, m = Running(stack, Append(x, a)),
         a.at > Len(a.code)
  PROVE  EndsPart(Stepped(m), stack, x, a)
<1>1. Append(x, a) # << >> /\ Last(Append(x, a)) = a /\ Front(Append(x, a)) = x
  <2>1. Appended(Append(x, a), x, a)
    BY AppendIs
  <2> QED BY <2>1 DEF Appended
<1>2. m.ended = "no" /\ m.running = Append(x, a) /\ m.stack = stack
  <2>1. Runs(m, stack, Append(x, a))
    BY MachineIs
  <2> QED BY <2>1 DEF Runs
<1>3. Stepped(m) = Returned(m)
  BY <1>1, <1>2 DEF Stepped
<1>4. PICK rest : rest = Left(m)
  OBVIOUS
<1>5. rest = Running(stack, x)
  <2>1. Runs(m, stack, Append(x, a))
    BY MachineIs
  <2> QED BY <1>1, <1>4, <2>1 DEF Runs
<1>6. /\ Popped(rest) = Running(Front(stack), x)
      /\ \A b : Entered(rest, b) = Running(stack, Append(x, b))
      /\ HasAborted(Aborted(m))
  <2>1. Runs(rest, stack, x) /\ Runs(m, stack, Append(x, a))
    BY <1>5, MachineIs
  <2> QED BY <2>1 DEF Runs
<1>7. \A b : Entered(Popped(rest), b) = Running(Front(stack), Append(x, b))
  <2>1. Runs(Popped(rest), Front(stack), x)
    BY <1>6, MachineIs
  <2> QED BY <2>1 DEF Runs
<1>8. ASSUME a.phase = "call"
      PROVE  Returned(m) = rest
  BY <1>1, <1>2, <1>4, <1>8 DEF Returned
<1>9. ASSUME a.phase = "body"
      PROVE  Returned(m) = Entered(rest, LoopPart("cond", a.lambdas[1], a.lambdas[2]))
  BY <1>1, <1>2, <1>4, <1>9 DEF Returned
<1>10. ASSUME a.phase = "cond"
       PROVE  Returned(m) =
                IF stack = <<>> THEN Aborted(m)
                ELSE IF Truthy(Last(stack))
                THEN Entered(Popped(rest), LoopPart("body", a.lambdas[1], a.lambdas[2]))
                ELSE Popped(rest)
  BY <1>1, <1>2, <1>4, <1>10 DEF Returned
<1>11. a.phase = "call" => Stepped(m) = Running(stack, x)
  BY <1>3, <1>5, <1>8
<1>12. a.phase = "body" =>
         Stepped(m) = Running(stack,
                        Append(x, LoopPart("cond", a.lambdas[1], a.lambdas[2])))
  BY <1>3, <1>6, <1>9
<1>13. a.phase = "cond" =>
         /\ stack = << >> => HasAborted(Stepped(m))
         /\ stack # << >> /\ Truthy(Last(stack)) =>
              Stepped(m) = Running(Front(stack),
                             Append(x, LoopPart("body", a.lambdas[1], a.lambdas[2])))
         /\ stack # << >> /\ ~Truthy(Last(stack)) =>
              Stepped(m) = Running(Front(stack), x)
  BY <1>3, <1>6, <1>7, <1>10
<1> QED BY <1>11, <1>12, <1>13 DEF EndsPart

\* A machine that has returned from everything.
LEMMA StepFinishes ==
  ASSUME NEW stack, NEW m, m = Running(stack, << >>)
  PROVE  Stepped(m).ended = "finished" /\ Stepped(m).stack = stack
<1>1. m = [stack |-> stack, running |-> << >>, ended |-> "no"]
  BY DEF Running
<1> QED BY <1>1 DEF Stepped

\* What a branch to a label with these targets does.
JumpsTo(m, l, stack, x, a, targets) ==
  /\ targets = {} => HasAborted(Jumped(m, l))
  /\ targets # {} =>
       Jumped(m, l) = Running(stack, Append(x, To(a, CHOOSE i \in targets : TRUE)))

\* A branch goes to a target of its label.
LEMMA JumpedIs ==
  ASSUME NEW x, IsSeq(x), NEW a, IsFrame(a), NEW stack, NEW l,
         NEW targets, targets = Targets(a.code, l), targets \subseteq Nat,
         NEW m, m = Running(stack, Append(x, a))
  PROVE  JumpsTo(m, l, stack, x, a, targets)
<1>1. Last(Append(x, a)) = a
  <2>1. Appended(Append(x, a), x, a)
    BY AppendIs
  <2> QED BY <2>1 DEF Appended
<1>2. m.running = Append(x, a) /\ HasAborted(Aborted(m))
  <2>1. Runs(m, stack, Append(x, a))
    BY MachineIs
  <2> QED BY <2>1 DEF Runs
<1>3. CASE targets = {}
  BY <1>1, <1>2, <1>3 DEF Jumped, JumpsTo
<1>4. CASE targets # {}
  <2>1. PICK i : i = (CHOOSE j \in targets : TRUE)
    OBVIOUS
  <2>2. i \in Nat
    BY <1>4, <2>1
  <2>3. Jumped(m, l) = [m EXCEPT !.running[Len(m.running)].at = i]
    BY <1>1, <1>2, <1>4, <2>1 DEF Jumped
  <2>4. [m EXCEPT !.running[Len(m.running)].at = i] = Running(stack, Append(x, To(a, i)))
    <3>1. RunsOn(m, stack, x, a)
      BY AdvancedIs
    <3> QED BY <3>1 DEF RunsOn
  <2> QED BY <1>4, <2>1, <2>3, <2>4 DEF JumpsTo
<1> QED BY <1>3, <1>4 DEF JumpsTo

-----------------------------------------------------------------------------
(* Codes that mean the same.  R is a set of pairs of codes.                *)

\* Nodes that do the same, if the codes that R pairs do.
NodesAlike(R, n, m) ==
  /\ n.op = m.op /\ n.op \in Ops
  /\ IsLambda(n) => <<n.code, m.code>> \in R

\* All nodes of c do the same as themselves.
LikeItself(R, c) == IsSeq(c) /\ \A i \in DOMAIN c : NodesAlike(R, c[i], c[i])

\* Node by node the same, but for the numbers of the labels.
SameCode(R, c, d) ==
  /\ IsSeq(c) /\ IsSeq(d) /\ Len(c) = Len(d)
  /\ \A i \in DOMAIN c :
       /\ NodesAlike(R, c[i], d[i])
       /\ c[i].op \in Branches => Targets(c, c[i].label) = Targets(d, d[i].label)

\* In d there are m nodes where c has k nodes behind its first p.
Spliced(c, d, p, k, m) ==
  /\ Good(c) /\ Good(d)
  /\ p \in Nat /\ k \in Nat /\ m \in Nat /\ k >= 2
  /\ p + k <= Len(c) /\ Len(d) = (Len(c) - k) + m
  /\ \A i \in 1 .. p : d[i] = c[i]
  /\ \A i \in p + k + 1 .. Len(c) : d[(i - k) + m] = c[i]
  /\ \A i \in p + 1 .. p + k : c[i].op # "branch_target"

\* The code s is in d, behind the first q nodes.
Within(d, s, q) ==
  /\ Good(d) /\ Good(s) /\ q \in Nat /\ q + Len(s) <= Len(d)
  /\ \A i \in 1 .. Len(s) : d[q + i] = s[i]

\* c calls a lambda behind its first p nodes, d has the code of it.
ExecSite(c, d, p, k, m) ==
  /\ Spliced(c, d, p, k, m) /\ k = 2
  /\ IsLambda(c[p + 1]) /\ c[p + 2].op = "exec"
  /\ m = Len(c[p + 1].code) /\ Within(d, c[p + 1].code, p)

\* c calls it on a condition, d branches over the code of it.
CondSite(c, d, p, k, m) ==
  /\ Spliced(c, d, p, k, m) /\ k = 2
  /\ IsLambda(c[p + 1]) /\ c[p + 2].op = "cond_exec"
  /\ m = Len(c[p + 1].code) + 2 /\ Within(d, c[p + 1].code, p + 1)
  /\ \E l : /\ d[p + 1] = Labelled("branch_if_false", l)
            /\ d[p + m] = Labelled("branch_target", l)

\* c has two lambdas and a loop, d has their codes and branches.
WhileSite(c, d, p, k, m) ==
  /\ Spliced(c, d, p, k, m) /\ k = 3
  /\ IsLambda(c[p + 1]) /\ IsLambda(c[p + 2]) /\ c[p + 3].op = "while"
  /\ m = Len(c[p + 1].code) + Len(c[p + 2].code) + 4
  /\ Within(d, c[p + 1].code, p + 1)
  /\ Within(d, c[p + 2].code, p + 2 + Len(c[p + 1].code))
  /\ \E l, h : /\ d[p + 1] = Labelled("branch_target", l)
               /\ d[p + 2 + Len(c[p + 1].code)] = Labelled("branch_if_false", h)
               /\ d[p + m - 1] = Labelled("branch", l)
               /\ d[p + m] = Labelled("branch_target", h)

\* d is c with something put in for its k nodes behind p.
Site(c, d, p, k, m) ==
  ExecSite(c, d, p, k, m) \/ CondSite(c, d, p, k, m) \/ WhileSite(c, d, p, k, m)

\* d is c but for one lambda, or a loop's two, that was put in.
OneInlined(R, c, d) == LikeItself(R, c) /\ \E p, k, m : Site(c, d, p, k, m)

\* R justifies itself.
Justified(R) == \A c, d : <<c, d>> \in R => SameCode(R, c, d) \/ OneInlined(R, c, d)

-----------------------------------------------------------------------------
(* Machines that run such codes.                                           *)

\* Operands that are alike.
StacksAlike(R, s, t) ==
  /\ IsSeq(s) /\ IsSeq(t) /\ Len(s) = Len(t)
  /\ \A i \in 1 .. Len(s) : NodesAlike(R, s[i], t[i])

\* Activations that go on alike once they are at the end.
KeptAlike(R, a, b) ==
  /\ IsFrame(a) /\ IsFrame(b) /\ a.phase = b.phase
  /\ \/ a.phase = "call"
     \/ /\ a.phase \in {"cond", "body"}
        /\ \A i \in {1, 2} : /\ IsLambda(a.lambdas[i])
                             /\ NodesAlike(R, a.lambdas[i], b.lambdas[i])

\* Both at the same node.
AtSame(R, a, b, r) ==
  /\ SameCode(R, a.code, b.code)
  /\ a.at \in 1 .. Len(a.code) + 1 /\ b.at = a.at /\ r = 0

\* Index i of a code of n nodes is index j once m nodes have replaced k.
Places(n, p, k, m, i, j) ==
  /\ i \in 1 .. n + 1
  /\ \/ i <= p + 1 /\ j = i
     \/ i >= p + k + 1 /\ j = (i - k) + m

\* Both before or behind what was put in.
Outside(a, b, p, k, m, r) ==
  /\ Places(Len(a.code), p, k, m, a.at, b.at)
  /\ r = IF a.at = p + 1 THEN 4 ELSE 0

\* The one is behind, the other at the target that ends what was put in.
Landing(a, b, p, k, m, r) ==
  /\ a.at = p + k + 1 /\ b.at = p + m /\ m > 0
  /\ b.code[p + m].op = "branch_target" /\ r = 1

\* One activation for one.
OneForOne(R, a, b, r) ==
  /\ KeptAlike(R, a, b)
  /\ \/ AtSame(R, a, b, r)
     \/ \E p, k, m :
          /\ Site(a.code, b.code, p, k, m) /\ LikeItself(R, a.code)
          /\ Outside(a, b, p, k, m, r) \/ Landing(a, b, p, k, m, r)

\* a runs in a lambda, b in the code of it behind q nodes.
InPart(a, b, q) ==
  /\ Within(b.code, a.code, q)
  /\ a.at \in 1 .. Len(a.code) + 1 /\ b.at = q + a.at

\* a runs the lambda behind p, or a part of the loop there.
Calls(c, p, a) == a.code = c[p + 1].code /\ a.phase = "call"
Loops(c, p, a, phase) ==
  /\ a.code = (IF phase = "cond" THEN c[p + 1] ELSE c[p + 2]).code
  /\ a.phase = phase /\ a.lambdas[1] = c[p + 1] /\ a.lambdas[2] = c[p + 2]

\* The lambda e runs has been put into the code that b runs.
Inside(c, e, b, p, k, m, r) ==
  \/ /\ ExecSite(c, b.code, p, k, m) /\ Calls(c, p, e) /\ InPart(e, b, p)
     /\ r = IF e.at = Len(e.code) + 1 THEN 1 ELSE 0
  \/ /\ CondSite(c, b.code, p, k, m) /\ Calls(c, p, e) /\ InPart(e, b, p + 1)
     /\ r = IF e.at = Len(e.code) + 1 THEN 2 ELSE 0
  \/ /\ WhileSite(c, b.code, p, k, m) /\ Loops(c, p, e, "cond")
     /\ InPart(e, b, p + 1) /\ r = 0
  \/ /\ WhileSite(c, b.code, p, k, m) /\ Loops(c, p, e, "body")
     /\ InPart(e, b, p + 2 + Len(c[p + 1].code)) /\ r = 0

\* The condition is about to run, the branches are at the target before it.
AtTop(c, e, b, p, k, m, r) ==
  /\ WhileSite(c, b.code, p, k, m) /\ Loops(c, p, e, "cond")
  /\ e.at = 1 /\ b.at = p + 1 /\ r = 1

\* Two activations for one.
TwoForOne(R, a, e, b, r) ==
  /\ KeptAlike(R, a, b) /\ IsFrame(e) /\ LikeItself(R, a.code)
  /\ \E p, k, m :
       /\ a.at = p + k + 1
       /\ Inside(a.code, e, b, p, k, m, r) \/ AtTop(a.code, e, b, p, k, m, r)

\* What a triple of K is made of.
Linked(R, K, x, y, r) ==
  /\ IsSeq(x) /\ IsSeq(y)
  /\ \/ x = << >> /\ y = << >> /\ r = 0
     \/ \E u, v, q, a, b :
          /\ <<u, v, q>> \in K /\ IsSeq(u) /\ IsSeq(v)
          /\ x = Append(u, a) /\ y = Append(v, b) /\ OneForOne(R, a, b, r)
     \/ \E u, v, q, a, e, b :
          /\ <<u, v, q>> \in K /\ IsSeq(u) /\ IsSeq(v)
          /\ x = Append(Append(u, a), e) /\ y = Append(v, b)
          /\ TwoForOne(R, a, e, b, r)

\* Stacks of activations that go on alike; at most r steps are one machine's.
FramesAlike(R, x, y, r) ==
  \E K : /\ <<x, y, r>> \in K
         /\ \A u, v, q : <<u, v, q>> \in K => Linked(R, K, u, v, q)

\* The lambdas that are about to be called, which b has in its code.
Waits(R, a, b, r, extra) ==
  /\ KeptAlike(R, a, b) /\ LikeItself(R, a.code)
  /\ \E p, k, m :
       /\ b.at = p + 1
       /\ \/ /\ Site(a.code, b.code, p, k, m) /\ a.at = p + 2 /\ r = 3
             /\ extra = <<a.code[p + 1]>>
          \/ /\ WhileSite(a.code, b.code, p, k, m) /\ a.at = p + 3 /\ r = 2
             /\ extra = <<a.code[p + 1], a.code[p + 2]>>

\* Both have ended and left the same.
BothEnded(m, w) == m.ended # "no" /\ Seen(m) = Seen(w)

\* Both run at places that correspond.
BothRun(R, m, w, r) ==
  \E s, t, x, y : /\ m = Running(s, x) /\ w = Running(t, y)
                  /\ StacksAlike(R, s, t) /\ FramesAlike(R, x, y, r)

\* The first has pushed lambdas that the second has code of.
BothHeld(R, m, w, r) ==
  \E s, t, u, v, q, a, b, extra :
    /\ m = Running(s \o extra, Append(u, a)) /\ w = Running(t, Append(v, b))
    /\ StacksAlike(R, s, t) /\ FramesAlike(R, u, v, q) /\ Waits(R, a, b, r, extra)

\* Machines that will end alike.
Simulates(R, m, w, r) ==
  r \in 0 .. 4 /\ (BothEnded(m, w) \/ BothRun(R, m, w, r) \/ BothHeld(R, m, w, r))

\* They simulate one another, with some rank.
AgreeNext(R, m, w) == \E r : Simulates(R, m, w, r)

\* How machines that simulate one another go on.
GoesOn(R, m, w, r) ==
  \/ BothEnded(m, w)
  \/ /\ m.ended = "no" /\ w.ended = "no"
     /\ \/ \E q \in 0 .. 4 : Simulates(R, Stepped(m), Stepped(w), q)
        \/ \E q \in 0 .. 4 : q < r /\ Simulates(R, Stepped(m), w, q)
        \/ \E q \in 0 .. 4 : q < r /\ Simulates(R, m, Stepped(w), q)

-----------------------------------------------------------------------------
(* Facts about these.                                                      *)

\* Machines that have aborted are alike.
LEMMA BothAborted ==
  ASSUME NEW R, NEW m, NEW w, HasAborted(m), HasAborted(w)
  PROVE  Simulates(R, m, w, 0)
<1>1. BothEnded(m, w)
  BY DEF BothEnded, HasAborted, Seen
<1> QED BY <1>1 DEF Simulates

\* Machines that have finished with stacks that are alike.
LEMMA BothFinished ==
  ASSUME NEW R, NEW m, NEW w, m.ended = "finished", w.ended = "finished",
         StacksAlike(R, m.stack, w.stack)
  PROVE  Simulates(R, m, w, 0)
<1>1. PICK s, t : s = m.stack /\ t = w.stack
  OBVIOUS
<1>2. DOMAIN s = 1 .. Len(s) /\ DOMAIN t = 1 .. Len(s)
  BY <1>1, SeqIndices DEF StacksAlike
<1>3. \A i \in 1 .. Len(s) : s[i].op = t[i].op
  BY <1>1 DEF StacksAlike, NodesAlike
<1>4. [i \in DOMAIN s |-> s[i].op] = [i \in DOMAIN t |-> t[i].op]
  BY <1>2, <1>3
<1>5. Seen(m) = Seen(w)
  BY <1>1, <1>4 DEF Seen
<1>6. BothEnded(m, w)
  BY <1>5 DEF BothEnded
<1> QED BY <1>6 DEF Simulates

\* Values that are alike, on stacks that are.
LEMMA StacksPushed ==
  ASSUME NEW R, NEW s, NEW t, StacksAlike(R, s, t), NEW n, NEW m, NodesAlike(R, n, m)
  PROVE  StacksAlike(R, Append(s, n), Append(t, m))
<1>1. IsSeq(s) /\ IsSeq(t) /\ Len(s) = Len(t) /\ Len(s) \in Nat
  BY SeqIndices DEF StacksAlike
<1>2. PICK a, b : a = Append(s, n) /\ b = Append(t, m)
  OBVIOUS
<1>3. Appended(a, s, n) /\ Appended(b, t, m)
  BY <1>1, <1>2, AppendIs
<1>4. IsSeq(a) /\ IsSeq(b) /\ Len(a) = Len(s) + 1 /\ Len(b) = Len(a)
  BY <1>1, <1>3 DEF Appended
<1>5. ASSUME NEW i \in 1 .. Len(a)
      PROVE  NodesAlike(R, a[i], b[i])
  <2>1. CASE i = Len(a)
    <3>1. a[i] = n /\ b[i] = m
      BY <1>3, <1>4, <2>1 DEF Appended
    <3> QED BY <3>1
  <2>2. CASE i # Len(a)
    <3>1. i \in 1 .. Len(s)
      BY <1>1, <1>4, <2>2
    <3>2. a[i] = s[i] /\ b[i] = t[i]
      BY <1>1, <1>3, <3>1 DEF Appended
    <3>3. NodesAlike(R, s[i], t[i])
      BY <3>1 DEF StacksAlike
    <3> QED BY <3>2, <3>3
  <2> QED BY <2>1, <2>2
<1>6. StacksAlike(R, a, b)
  BY <1>4, <1>5 DEF StacksAlike
<1> QED BY <1>2, <1>6

\* The tops of stacks that are alike, and what is under them.
PopsAlike(R, s, t) ==
  /\ s # << >> /\ t # << >>
  /\ StacksAlike(R, Front(s), Front(t)) /\ NodesAlike(R, Last(s), Last(t))

\* Both are empty, or both have a top.
LEMMA StacksPopped ==
  ASSUME NEW R, NEW s, NEW t, StacksAlike(R, s, t)
  PROVE  (s = << >> /\ t = << >>) \/ PopsAlike(R, s, t)
<1>1. IsSeq(s) /\ IsSeq(t) /\ Len(s) = Len(t) /\ Len(s) \in Nat
  BY SeqIndices DEF StacksAlike
<1>2. (s = << >> <=> Len(s) = 0) /\ (t = << >> <=> Len(t) = 0)
  BY <1>1, EmptySeq DEF IsSeq
<1>3. CASE s # << >>
  <2>1. t # << >>
    BY <1>1, <1>2, <1>3
  <2>2. /\ IsSeq(Front(s)) /\ s = Append(Front(s), Last(s)) /\ Len(Front(s)) = Len(s) - 1
        /\ Len(s) > 0
    BY <1>1, <1>3, SeqIsAppend
  <2>3. /\ IsSeq(Front(t)) /\ t = Append(Front(t), Last(t)) /\ Len(Front(t)) = Len(t) - 1
    BY <1>1, <2>1, SeqIsAppend
  <2>4. PICK f, g, n, m : f = Front(s) /\ g = Front(t) /\ n = Last(s) /\ m = Last(t)
    OBVIOUS
  <2>5. Appended(s, f, n) /\ Appended(t, g, m)
    BY <2>2, <2>3, <2>4, AppendIs
  <2>6. IsSeq(f) /\ IsSeq(g) /\ Len(f) = Len(g) /\ Len(f) = Len(s) - 1
    BY <1>1, <2>2, <2>3, <2>4
  <2>7. n = s[Len(s)] /\ m = t[Len(s)]
    BY <1>1, <2>5 DEF Appended
  <2>8. NodesAlike(R, n, m)
    <3>1. Len(s) \in 1 .. Len(s)
      BY <1>1, <2>2
    <3> QED BY <2>7, <3>1 DEF StacksAlike
  <2>9. ASSUME NEW i \in 1 .. Len(f)
        PROVE  NodesAlike(R, f[i], g[i])
    <3>1. i \in 1 .. Len(s) /\ i \in 1 .. Len(g)
      BY <1>1, <2>6
    <3>2. s[i] = f[i] /\ t[i] = g[i]
      BY <2>5, <3>1 DEF Appended
    <3> QED BY <3>1, <3>2 DEF StacksAlike
  <2>10. StacksAlike(R, f, g)
    BY <2>6, <2>9 DEF StacksAlike
  <2> QED BY <1>3, <2>1, <2>4, <2>8, <2>10 DEF PopsAlike
<1>4. CASE s = << >>
  BY <1>1, <1>2, <1>4
<1> QED BY <1>3, <1>4

\* Stacks of activations are sequences.
LEMMA FramesSeqs ==
  ASSUME NEW R, NEW x, NEW y, NEW r, FramesAlike(R, x, y, r)
  PROVE  IsSeq(x) /\ IsSeq(y) /\ r \in 0 .. 4
<1>1. PICK K : /\ <<x, y, r>> \in K
               /\ \A u, v, q : <<u, v, q>> \in K => Linked(R, K, u, v, q)
  BY DEF FramesAlike
<1>2. Linked(R, K, x, y, r)
  BY <1>1
<1>3. IsSeq(x) /\ IsSeq(y)
  BY <1>2 DEF Linked
<1>4. ASSUME NEW a, NEW b, OneForOne(R, a, b, r)
      PROVE  r \in 0 .. 4
  BY <1>4 DEF OneForOne, AtSame, Outside, Landing
<1>5. ASSUME NEW a, NEW e, NEW b, TwoForOne(R, a, e, b, r)
      PROVE  r \in 0 .. 4
  BY <1>5 DEF TwoForOne, Inside, AtTop
<1>6. r = 0 => r \in 0 .. 4
  OBVIOUS
<1> QED BY <1>2, <1>3, <1>4, <1>5, <1>6 DEF Linked

\* Nothing runs.
LEMMA FramesNone ==
  ASSUME NEW R
  PROVE  FramesAlike(R, << >>, << >>, 0)
<1> DEFINE K == {<< << >>, << >>, 0 >>}
<1>1. ASSUME NEW u, NEW v, NEW q, <<u, v, q>> \in K
      PROVE  Linked(R, K, u, v, q)
  <2>1. u = << >> /\ v = << >> /\ q = 0
    BY <1>1
  <2>2. IsSeq(<< >>)
    BY EmptySeq DEF IsSeq
  <2> QED BY <2>1, <2>2 DEF Linked
<1>2. << << >>, << >>, 0 >> \in K
  OBVIOUS
<1> HIDE DEF K
<1> QED BY <1>1, <1>2 DEF FramesAlike

\* More links do no harm.
LEMMA LinkedMore ==
  ASSUME NEW R, NEW K, NEW L, K \subseteq L, NEW x, NEW y, NEW r, Linked(R, K, x, y, r)
  PROVE  Linked(R, L, x, y, r)
<1>1. \A u, v, q : <<u, v, q>> \in K => <<u, v, q>> \in L
  OBVIOUS
<1> QED BY <1>1 DEF Linked

\* One activation more on each.
LEMMA FramesOne ==
  ASSUME NEW R, NEW u, NEW v, NEW q, FramesAlike(R, u, v, q),
         NEW a, NEW b, NEW r, OneForOne(R, a, b, r)
  PROVE  FramesAlike(R, Append(u, a), Append(v, b), r)
<1>1. PICK K : /\ <<u, v, q>> \in K
               /\ \A f, g, h : <<f, g, h>> \in K => Linked(R, K, f, g, h)
  BY DEF FramesAlike
<1>2. IsSeq(u) /\ IsSeq(v)
  BY FramesSeqs
<1>3. PICK x, y : x = Append(u, a) /\ y = Append(v, b)
  OBVIOUS
<1>4. IsSeq(x) /\ IsSeq(y)
  <2>1. Appended(x, u, a) /\ Appended(y, v, b)
    BY <1>2, <1>3, AppendIs
  <2> QED BY <2>1 DEF Appended
<1> DEFINE L == K \cup {<<x, y, r>>}
<1>5. <<u, v, q>> \in L /\ K \subseteq L /\ <<x, y, r>> \in L
  BY <1>1
<1>6. ASSUME NEW f, NEW g, NEW h, <<f, g, h>> \in L
      PROVE  <<f, g, h>> \in K \/ (f = x /\ g = y /\ h = r)
  BY <1>6
<1> HIDE DEF L
<1>7. Linked(R, L, x, y, r)
  BY <1>2, <1>3, <1>4, <1>5 DEF Linked
<1>8. ASSUME NEW f, NEW g, NEW h, <<f, g, h>> \in L
      PROVE  Linked(R, L, f, g, h)
  <2>1. CASE <<f, g, h>> \in K
    BY <1>1, <1>5, <2>1, LinkedMore
  <2>2. CASE f = x /\ g = y /\ h = r
    BY <1>7, <2>2
  <2> QED BY <1>6, <1>8, <2>1, <2>2
<1>9. FramesAlike(R, x, y, r)
  BY <1>5, <1>8 DEF FramesAlike
<1> QED BY <1>3, <1>9

\* Two activations more on the one, one on the other.
LEMMA FramesTwo ==
  ASSUME NEW R, NEW u, NEW v, NEW q, FramesAlike(R, u, v, q),
         NEW a, NEW e, NEW b, NEW r, TwoForOne(R, a, e, b, r)
  PROVE  FramesAlike(R, Append(Append(u, a), e), Append(v, b), r)
<1>1. PICK K : /\ <<u, v, q>> \in K
               /\ \A f, g, h : <<f, g, h>> \in K => Linked(R, K, f, g, h)
  BY DEF FramesAlike
<1>2. IsSeq(u) /\ IsSeq(v)
  BY FramesSeqs
<1>3. PICK w, y : w = Append(u, a) /\ y = Append(v, b)
  OBVIOUS
<1>4. IsSeq(w) /\ IsSeq(y)
  <2>1. Appended(w, u, a) /\ Appended(y, v, b)
    BY <1>2, <1>3, AppendIs
  <2> QED BY <2>1 DEF Appended
<1>5. PICK x : x = Append(w, e)
  OBVIOUS
<1>6. IsSeq(x)
  <2>1. Appended(x, w, e)
    BY <1>4, <1>5, AppendIs
  <2> QED BY <2>1 DEF Appended
<1> DEFINE L == K \cup {<<x, y, r>>}
<1>7. <<u, v, q>> \in L /\ K \subseteq L /\ <<x, y, r>> \in L
  BY <1>1
<1>8. ASSUME NEW f, NEW g, NEW h, <<f, g, h>> \in L
      PROVE  <<f, g, h>> \in K \/ (f = x /\ g = y /\ h = r)
  BY <1>8
<1> HIDE DEF L
<1>9. Linked(R, L, x, y, r)
  BY <1>2, <1>3, <1>4, <1>5, <1>6, <1>7 DEF Linked
<1>10. ASSUME NEW f, NEW g, NEW h, <<f, g, h>> \in L
       PROVE  Linked(R, L, f, g, h)
  <2>1. CASE <<f, g, h>> \in K
    BY <1>1, <1>7, <2>1, LinkedMore
  <2>2. CASE f = x /\ g = y /\ h = r
    BY <1>9, <2>2
  <2> QED BY <1>8, <1>10, <2>1, <2>2
<1>11. FramesAlike(R, x, y, r)
  BY <1>7, <1>10 DEF FramesAlike
<1> QED BY <1>3, <1>5, <1>11

\* How stacks of activations that go on alike are made.
Made(R, x, y, r) ==
  \/ x = << >> /\ y = << >>
  \/ \E u, v, q, a, b :
       /\ FramesAlike(R, u, v, q) /\ x = Append(u, a) /\ y = Append(v, b)
       /\ OneForOne(R, a, b, r)
  \/ \E u, v, q, a, e, b :
       /\ FramesAlike(R, u, v, q)
       /\ x = Append(Append(u, a), e) /\ y = Append(v, b)
       /\ TwoForOne(R, a, e, b, r)

\* Stacks of activations that are alike are made up in one of these ways.
LEMMA FramesMade ==
  ASSUME NEW R, NEW x, NEW y, NEW r, FramesAlike(R, x, y, r)
  PROVE  Made(R, x, y, r)
<1>1. PICK K : /\ <<x, y, r>> \in K
               /\ \A u, v, q : <<u, v, q>> \in K => Linked(R, K, u, v, q)
  BY DEF FramesAlike
<1>2. \A u, v, q : <<u, v, q>> \in K => FramesAlike(R, u, v, q)
  BY <1>1 DEF FramesAlike
<1>3. Linked(R, K, x, y, r)
  BY <1>1
<1> QED BY <1>2, <1>3 DEF Linked, Made

-----------------------------------------------------------------------------
(* Instructions that both machines come to.                                *)

\* Machines that run, with stacks that are alike.
LEMMA RunAlike ==
  ASSUME NEW R, NEW s, NEW t, StacksAlike(R, s, t),
         NEW x, NEW y, NEW r, FramesAlike(R, x, y, r)
  PROVE  Simulates(R, Running(s, x), Running(t, y), r)
<1>1. r \in 0 .. 4
  BY FramesSeqs
<1>2. BothRun(R, Running(s, x), Running(t, y), r)
  BY DEF BothRun
<1> QED BY <1>1, <1>2 DEF Simulates

\* At the beginning of codes that R pairs.
LEMMA BeginAlike ==
  ASSUME NEW R, Justified(R), NEW a, NEW b, KeptAlike(R, a, b),
         a.at = 1, b.at = 1, <<a.code, b.code>> \in R
  PROVE  \E r : OneForOne(R, a, b, r)
<1>1. CASE SameCode(R, a.code, b.code)
  <2>1. Len(a.code) \in Nat
    BY <1>1, SeqIndices DEF SameCode
  <2>2. AtSame(R, a, b, 0)
    BY <1>1, <2>1 DEF AtSame
  <2> QED BY <2>2 DEF OneForOne
<1>2. CASE OneInlined(R, a.code, b.code)
  <2>1. LikeItself(R, a.code)
    BY <1>2 DEF OneInlined
  <2>2. PICK p, k, m : Site(a.code, b.code, p, k, m)
    BY <1>2 DEF OneInlined
  <2>3. p \in Nat /\ Len(a.code) \in Nat
    <3>1. p \in Nat
      BY <2>2 DEF Site, ExecSite, CondSite, WhileSite, Spliced
    <3> QED BY <2>1, <3>1, SeqIndices DEF LikeItself
  <2>4. Outside(a, b, p, k, m, IF a.at = p + 1 THEN 4 ELSE 0)
    BY <2>3 DEF Outside, Places
  <2> QED BY <2>1, <2>2, <2>4 DEF OneForOne
<1> QED BY <1>1, <1>2 DEF Justified

\* Calls of lambdas that are alike.
LEMMA EnterAlike ==
  ASSUME NEW R, Justified(R), NEW s, NEW t, StacksAlike(R, s, t),
         NEW x, NEW y, NEW r, FramesAlike(R, x, y, r),
         NEW n, NEW m, NodesAlike(R, n, m), IsLambda(n)
  PROVE  AgreeNext(R, Running(s, Append(x, Activation(n.code))),
                      Running(t, Append(y, Activation(m.code))))
<1>1. PICK a, b : a = Activation(n.code) /\ b = Activation(m.code)
  OBVIOUS
<1>2. /\ a.code = n.code /\ a.at = 1 /\ a.phase = "call"
      /\ b.code = m.code /\ b.at = 1 /\ b.phase = "call"
      /\ IsFrame(a) /\ IsFrame(b)
  BY <1>1 DEF Activation, IsFrame, Frame
<1>3. KeptAlike(R, a, b) /\ <<a.code, b.code>> \in R
  BY <1>2 DEF KeptAlike, NodesAlike
<1>4. PICK q : OneForOne(R, a, b, q)
  BY <1>2, <1>3, BeginAlike
<1>5. FramesAlike(R, Append(x, a), Append(y, b), q)
  BY <1>4, FramesOne
<1> QED BY <1>1, <1>5, RunAlike DEF AgreeNext

\* The condition or the body of a loop.
LEMMA LoopAlike ==
  ASSUME NEW R, Justified(R), NEW s, NEW t, StacksAlike(R, s, t),
         NEW x, NEW y, NEW r, FramesAlike(R, x, y, r),
         NEW n, NEW m, NodesAlike(R, n, m), IsLambda(n),
         NEW e, NEW f, NodesAlike(R, e, f), IsLambda(e), NEW phase \in {"cond", "body"}
  PROVE  AgreeNext(R, Running(s, Append(x, LoopPart(phase, n, e))),
                      Running(t, Append(y, LoopPart(phase, m, f))))
<1>1. PICK a, b : a = LoopPart(phase, n, e) /\ b = LoopPart(phase, m, f)
  OBVIOUS
<1>2. /\ a.code = (IF phase = "cond" THEN n.code ELSE e.code)
      /\ b.code = (IF phase = "cond" THEN m.code ELSE f.code)
      /\ a.at = 1 /\ b.at = 1 /\ a.phase = phase /\ b.phase = phase
      /\ a.lambdas = <<n, e>> /\ b.lambdas = <<m, f>>
      /\ IsFrame(a) /\ IsFrame(b)
  BY <1>1 DEF LoopPart, IsFrame, Frame
<1>3. /\ a.lambdas[1] = n /\ a.lambdas[2] = e /\ b.lambdas[1] = m /\ b.lambdas[2] = f
  BY <1>2
<1>4. KeptAlike(R, a, b)
  BY <1>2, <1>3 DEF KeptAlike
<1>5. <<a.code, b.code>> \in R
  <2>1. <<n.code, m.code>> \in R /\ <<e.code, f.code>> \in R
    BY DEF NodesAlike
  <2> QED BY <1>2, <2>1
<1>6. PICK q : OneForOne(R, a, b, q)
  BY <1>2, <1>4, <1>5, BeginAlike
<1>7. FramesAlike(R, Append(x, a), Append(y, b), q)
  BY <1>6, FramesOne
<1> QED BY <1>1, <1>7, RunAlike DEF AgreeNext

\* Nodes that are alike are both lambdas, or neither, and both true or neither.
LEMMA AlikeOps ==
  ASSUME NEW R, NEW n, NEW m, NodesAlike(R, n, m)
  PROVE  (IsLambda(n) <=> IsLambda(m)) /\ (Truthy(n) <=> Truthy(m))
BY DEF NodesAlike, IsLambda, Truthy

\* Both machines abort.
LEMMA AbortAlike ==
  ASSUME NEW R, NEW m, NEW w, HasAborted(m), HasAborted(w)
  PROVE  AgreeNext(R, m, w)
BY BothAborted DEF AgreeNext

\* exec.
LEMMA ExecAlike ==
  ASSUME NEW R, Justified(R), NEW s, NEW t, StacksAlike(R, s, t),
         NEW x, NEW y, NEW r, FramesAlike(R, x, y, r),
         NEW m, m = Running(s, x), NEW w, w = Running(t, y)
  PROVE  AgreeNext(R, Exec(m), Exec(w))
<1>1. Runs(m, s, x) /\ Runs(w, t, y)
  BY MachineIs
<1>2. m.stack = s /\ w.stack = t /\ HasAborted(Aborted(m)) /\ HasAborted(Aborted(w))
  BY <1>1 DEF Runs
<1>3. CASE s = << >> /\ t = << >>
  <2>1. Exec(m) = Aborted(m) /\ Exec(w) = Aborted(w)
    BY <1>2, <1>3 DEF Exec
  <2> QED BY <1>2, <2>1, AbortAlike
<1>4. CASE PopsAlike(R, s, t)
  <2>1. /\ s # << >> /\ t # << >>
        /\ StacksAlike(R, Front(s), Front(t)) /\ NodesAlike(R, Last(s), Last(t))
    BY <1>4 DEF PopsAlike
  <2>2. CASE ~IsLambda(Last(s))
    <3>1. ~IsLambda(Last(t))
      BY <2>1, <2>2, AlikeOps
    <3>2. Exec(m) = Aborted(m) /\ Exec(w) = Aborted(w)
      BY <1>2, <2>2, <3>1 DEF Exec
    <3> QED BY <1>2, <3>2, AbortAlike
  <2>3. CASE IsLambda(Last(s))
    <3>1. IsLambda(Last(t))
      BY <2>1, <2>3, AlikeOps
    <3>2. /\ Exec(m) = Entered(Popped(m), Activation(Last(s).code))
          /\ Exec(w) = Entered(Popped(w), Activation(Last(t).code))
      BY <1>2, <2>1, <2>3, <3>1 DEF Exec
    <3>3. Popped(m) = Running(Front(s), x) /\ Popped(w) = Running(Front(t), y)
      BY <1>1 DEF Runs
    <3>4. Runs(Popped(m), Front(s), x) /\ Runs(Popped(w), Front(t), y)
      BY <3>3, MachineIs
    <3>5. /\ Exec(m) = Running(Front(s), Append(x, Activation(Last(s).code)))
          /\ Exec(w) = Running(Front(t), Append(y, Activation(Last(t).code)))
      BY <3>2, <3>4 DEF Runs
    <3> QED BY <2>1, <2>3, <3>5, EnterAlike
  <2> QED BY <2>2, <2>3
<1> QED BY <1>3, <1>4, StacksPopped

\* The two topmost of stacks that are alike.
TwoPopAlike(R, s, t) ==
  /\ ~(Len(s) < 2) /\ ~(Len(t) < 2)
  /\ StacksAlike(R, Front(Front(s)), Front(Front(t)))
  /\ NodesAlike(R, Last(s), Last(t))
  /\ NodesAlike(R, Last(Front(s)), Last(Front(t)))

\* Both have too few, or both have two.
LEMMA StacksTwoPopped ==
  ASSUME NEW R, NEW s, NEW t, StacksAlike(R, s, t)
  PROVE  (Len(s) < 2 /\ Len(t) < 2) \/ TwoPopAlike(R, s, t)
<1>1. IsSeq(s) /\ IsSeq(t) /\ Len(s) = Len(t) /\ Len(s) \in Nat
  BY SeqIndices DEF StacksAlike
<1>2. CASE ~(Len(s) < 2)
  <2>1. s # << >>
    BY <1>1, <1>2, EmptySeq DEF IsSeq
  <2>2. PopsAlike(R, s, t)
    BY <2>1, StacksPopped
  <2>3. StacksAlike(R, Front(s), Front(t)) /\ NodesAlike(R, Last(s), Last(t))
    BY <2>2 DEF PopsAlike
  <2>4. Len(Front(s)) = Len(s) - 1 /\ IsSeq(Front(s))
    BY <1>1, <2>1, SeqIsAppend
  <2>5. Front(s) # << >>
    <3>1. PICK f : f = Front(s)
      OBVIOUS
    <3>2. Len(f) # 0
      BY <1>1, <1>2, <2>4, <3>1
    <3>3. f # << >>
      BY <3>2, EmptySeq
    <3> QED BY <3>1, <3>3
  <2>6. PopsAlike(R, Front(s), Front(t))
    BY <2>3, <2>5, StacksPopped
  <2> QED BY <1>1, <1>2, <2>3, <2>6 DEF PopsAlike, TwoPopAlike
<1>3. CASE Len(s) < 2
  BY <1>1, <1>3
<1> QED BY <1>2, <1>3

\* Two pops.
LEMMA PoppedTwice ==
  ASSUME NEW s, NEW x, NEW m, m = Running(s, x)
  PROVE  /\ Popped(Popped(m)) = Running(Front(Front(s)), x)
         /\ \A a : Entered(Popped(Popped(m)), a)
                     = Running(Front(Front(s)), Append(x, a))
<1>1. Runs(m, s, x)
  BY MachineIs
<1>2. Popped(m) = Running(Front(s), x)
  BY <1>1 DEF Runs
<1>3. Runs(Popped(m), Front(s), x)
  BY <1>2, MachineIs
<1>4. Popped(Popped(m)) = Running(Front(Front(s)), x)
  BY <1>3 DEF Runs
<1>5. Runs(Popped(Popped(m)), Front(Front(s)), x)
  BY <1>4, MachineIs
<1> QED BY <1>4, <1>5 DEF Runs

\* cond_exec.
LEMMA CondExecAlike ==
  ASSUME NEW R, Justified(R), NEW s, NEW t, StacksAlike(R, s, t),
         NEW x, NEW y, NEW r, FramesAlike(R, x, y, r),
         NEW m, m = Running(s, x), NEW w, w = Running(t, y)
  PROVE  AgreeNext(R, CondExec(m), CondExec(w))
<1>1. Runs(m, s, x) /\ Runs(w, t, y)
  BY MachineIs
<1>2. m.stack = s /\ w.stack = t /\ HasAborted(Aborted(m)) /\ HasAborted(Aborted(w))
  BY <1>1 DEF Runs
<1>3. CASE Len(s) < 2 /\ Len(t) < 2
  <2>1. CondExec(m) = Aborted(m) /\ CondExec(w) = Aborted(w)
    BY <1>2, <1>3 DEF CondExec
  <2> QED BY <1>2, <2>1, AbortAlike
<1>4. CASE TwoPopAlike(R, s, t)
  <2>1. /\ ~(Len(s) < 2) /\ ~(Len(t) < 2)
        /\ StacksAlike(R, Front(Front(s)), Front(Front(t)))
        /\ NodesAlike(R, Last(s), Last(t))
        /\ NodesAlike(R, Last(Front(s)), Last(Front(t)))
    BY <1>4 DEF TwoPopAlike
  <2>2. /\ Truthy(Last(Front(s))) <=> Truthy(Last(Front(t)))
        /\ IsLambda(Last(s)) <=> IsLambda(Last(t))
    BY <2>1, AlikeOps
  <2>3. /\ Popped(Popped(m)) = Running(Front(Front(s)), x)
        /\ Popped(Popped(w)) = Running(Front(Front(t)), y)
        /\ \A a : Entered(Popped(Popped(m)), a) = Running(Front(Front(s)), Append(x, a))
        /\ \A a : Entered(Popped(Popped(w)), a) = Running(Front(Front(t)), Append(y, a))
    BY PoppedTwice
  <2>4. CASE ~Truthy(Last(Front(s)))
    <3>1. CondExec(m) = Popped(Popped(m)) /\ CondExec(w) = Popped(Popped(w))
      BY <1>2, <2>1, <2>2, <2>4 DEF CondExec
    <3>2. Simulates(R, CondExec(m), CondExec(w), r)
      BY <2>1, <2>3, <3>1, RunAlike
    <3> QED BY <3>2 DEF AgreeNext
  <2>5. CASE Truthy(Last(Front(s))) /\ ~IsLambda(Last(s))
    <3>1. CondExec(m) = Aborted(m) /\ CondExec(w) = Aborted(w)
      BY <1>2, <2>1, <2>2, <2>5 DEF CondExec
    <3> QED BY <1>2, <3>1, AbortAlike
  <2>6. CASE Truthy(Last(Front(s))) /\ IsLambda(Last(s))
    <3>1. /\ CondExec(m) = Entered(Popped(Popped(m)), Activation(Last(s).code))
          /\ CondExec(w) = Entered(Popped(Popped(w)), Activation(Last(t).code))
      BY <1>2, <2>1, <2>2, <2>6 DEF CondExec
    <3>2. /\ CondExec(m) = Running(Front(Front(s)), Append(x, Activation(Last(s).code)))
          /\ CondExec(w) = Running(Front(Front(t)), Append(y, Activation(Last(t).code)))
      BY <2>3, <3>1
    <3> QED BY <2>1, <2>6, <3>2, EnterAlike
  <2> QED BY <2>4, <2>5, <2>6
<1> QED BY <1>3, <1>4, StacksTwoPopped

\* while.
LEMMA WhileAlike ==
  ASSUME NEW R, Justified(R), NEW s, NEW t, StacksAlike(R, s, t),
         NEW x, NEW y, NEW r, FramesAlike(R, x, y, r),
         NEW m, m = Running(s, x), NEW w, w = Running(t, y)
  PROVE  AgreeNext(R, While(m), While(w))
<1>1. Runs(m, s, x) /\ Runs(w, t, y)
  BY MachineIs
<1>2. m.stack = s /\ w.stack = t /\ HasAborted(Aborted(m)) /\ HasAborted(Aborted(w))
  BY <1>1 DEF Runs
<1>3. CASE Len(s) < 2 /\ Len(t) < 2
  <2>1. While(m) = Aborted(m) /\ While(w) = Aborted(w)
    BY <1>2, <1>3 DEF While
  <2> QED BY <1>2, <2>1, AbortAlike
<1>4. CASE TwoPopAlike(R, s, t)
  <2>1. /\ ~(Len(s) < 2) /\ ~(Len(t) < 2)
        /\ StacksAlike(R, Front(Front(s)), Front(Front(t)))
        /\ NodesAlike(R, Last(s), Last(t))
        /\ NodesAlike(R, Last(Front(s)), Last(Front(t)))
    BY <1>4 DEF TwoPopAlike
  <2>2. /\ IsLambda(Last(Front(s))) <=> IsLambda(Last(Front(t)))
        /\ IsLambda(Last(s)) <=> IsLambda(Last(t))
    BY <2>1, AlikeOps
  <2>3. /\ \A a : Entered(Popped(Popped(m)), a) = Running(Front(Front(s)), Append(x, a))
        /\ \A a : Entered(Popped(Popped(w)), a) = Running(Front(Front(t)), Append(y, a))
    BY PoppedTwice
  <2>4. CASE ~(IsLambda(Last(Front(s))) /\ IsLambda(Last(s)))
    <3>1. While(m) = Aborted(m) /\ While(w) = Aborted(w)
      BY <1>2, <2>1, <2>2, <2>4 DEF While
    <3> QED BY <1>2, <3>1, AbortAlike
  <2>5. CASE IsLambda(Last(Front(s))) /\ IsLambda(Last(s))
    <3>1. /\ While(m) = Entered(Popped(Popped(m)),
                          LoopPart("cond", Last(Front(s)), Last(s)))
          /\ While(w) = Entered(Popped(Popped(w)),
                          LoopPart("cond", Last(Front(t)), Last(t)))
      BY <1>2, <2>1, <2>2, <2>5 DEF While
    <3>2. /\ While(m) = Running(Front(Front(s)),
                          Append(x, LoopPart("cond", Last(Front(s)), Last(s))))
          /\ While(w) = Running(Front(Front(t)),
                          Append(y, LoopPart("cond", Last(Front(t)), Last(t))))
      BY <2>3, <3>1
    <3>3. "cond" \in {"cond", "body"}
      OBVIOUS
    <3> QED BY <2>1, <2>5, <3>2, <3>3, LoopAlike
  <2> QED BY <2>4, <2>5
<1> QED BY <1>3, <1>4, StacksTwoPopped

\* A jump that both machines take leaves them alike, whatever is on the stacks.
JumpsAlike(R, x, y, n, m) ==
  \A s, t : StacksAlike(R, s, t) =>
    AgreeNext(R, Jumped(Running(s, x), n.label), Jumped(Running(t, y), m.label))

\* branch_if_false.
LEMMA BranchIfFalseAlike ==
  ASSUME NEW R, NEW s, NEW t, StacksAlike(R, s, t),
         NEW x, NEW y, NEW r, FramesAlike(R, x, y, r),
         NEW n, NEW e, JumpsAlike(R, x, y, n, e),
         NEW m, m = Running(s, x), NEW w, w = Running(t, y)
  PROVE  AgreeNext(R, BranchIfFalse(m, n.label), BranchIfFalse(w, e.label))
<1>1. Runs(m, s, x) /\ Runs(w, t, y)
  BY MachineIs
<1>2. /\ m.stack = s /\ w.stack = t /\ HasAborted(Aborted(m)) /\ HasAborted(Aborted(w))
      /\ Popped(m) = Running(Front(s), x) /\ Popped(w) = Running(Front(t), y)
  BY <1>1 DEF Runs
<1>3. CASE s = << >> /\ t = << >>
  <2>1. /\ BranchIfFalse(m, n.label) = Aborted(m)
        /\ BranchIfFalse(w, e.label) = Aborted(w)
    BY <1>2, <1>3 DEF BranchIfFalse
  <2> QED BY <1>2, <2>1, AbortAlike
<1>4. CASE PopsAlike(R, s, t)
  <2>1. /\ s # << >> /\ t # << >>
        /\ StacksAlike(R, Front(s), Front(t)) /\ NodesAlike(R, Last(s), Last(t))
    BY <1>4 DEF PopsAlike
  <2>2. Truthy(Last(s)) <=> Truthy(Last(t))
    BY <2>1, AlikeOps
  <2>3. CASE Truthy(Last(s))
    <3>1. BranchIfFalse(m, n.label) = Popped(m) /\ BranchIfFalse(w, e.label) = Popped(w)
      BY <1>2, <2>1, <2>2, <2>3 DEF BranchIfFalse
    <3>2. Simulates(R, Popped(m), Popped(w), r)
      BY <1>2, <2>1, RunAlike
    <3> QED BY <3>1, <3>2 DEF AgreeNext
  <2>4. CASE ~Truthy(Last(s))
    <3>1. /\ BranchIfFalse(m, n.label) = Jumped(Popped(m), n.label)
          /\ BranchIfFalse(w, e.label) = Jumped(Popped(w), e.label)
      BY <1>2, <2>1, <2>2, <2>4 DEF BranchIfFalse
    <3> QED BY <1>2, <2>1, <3>1 DEF JumpsAlike
  <2> QED BY <2>3, <2>4
<1> QED BY <1>3, <1>4, StacksPopped

\* Any instruction.
LEMMA InstructedAlike ==
  ASSUME NEW R, Justified(R), NEW s, NEW t, StacksAlike(R, s, t),
         NEW x, NEW y, NEW r, FramesAlike(R, x, y, r),
         NEW n, NEW e, NodesAlike(R, n, e),
         n.op \in Branches => JumpsAlike(R, x, y, n, e)
  PROVE  AgreeNext(R, Instructed(Running(s, x), n), Instructed(Running(t, y), e))
<1>1. PICK m, w : m = Running(s, x) /\ w = Running(t, y)
  OBVIOUS
<1>2. Runs(m, s, x) /\ Runs(w, t, y)
  BY <1>1, MachineIs
<1>3. e.op = n.op /\ n.op \in Ops
  BY DEF NodesAlike
<1>4. CASE n.op \in {"true", "false", "lambda"}
  <2>1. Constant(n) /\ Constant(e)
    BY <1>3, <1>4 DEF Constant
  <2>2. /\ Instructed(m, n) = Pushed(m, n) /\ Instructed(w, e) = Pushed(w, e)
    BY <1>3, <1>4, <2>1 DEF Instructed
  <2>3. /\ Instructed(m, n) = Running(Append(s, n), x)
        /\ Instructed(w, e) = Running(Append(t, e), y)
    BY <1>2, <2>2 DEF Runs
  <2>4. StacksAlike(R, Append(s, n), Append(t, e))
    BY StacksPushed
  <2>5. Simulates(R, Instructed(m, n), Instructed(w, e), r)
    BY <2>3, <2>4, RunAlike
  <2> QED BY <1>1, <2>5 DEF AgreeNext
<1>5. ASSUME n.op \notin {"true", "false", "lambda"}
      PROVE  ~Constant(n) /\ ~Constant(e)
  BY <1>3, <1>5 DEF Constant
<1>6. CASE n.op = "drop"
  <2>1. /\ Instructed(m, n) = IF m.stack = <<>> THEN Aborted(m) ELSE Popped(m)
        /\ Instructed(w, e) = IF w.stack = <<>> THEN Aborted(w) ELSE Popped(w)
    BY <1>3, <1>5, <1>6 DEF Instructed
  <2>2. CASE s = << >> /\ t = << >>
    <3>1. HasAborted(Instructed(m, n)) /\ HasAborted(Instructed(w, e))
      BY <1>2, <2>1, <2>2 DEF Runs
    <3> QED BY <1>1, <3>1, AbortAlike
  <2>3. CASE PopsAlike(R, s, t)
    <3>1. /\ Instructed(m, n) = Running(Front(s), x)
          /\ Instructed(w, e) = Running(Front(t), y)
      BY <1>2, <2>1, <2>3 DEF Runs, PopsAlike
    <3>2. StacksAlike(R, Front(s), Front(t))
      BY <2>3 DEF PopsAlike
    <3>3. Simulates(R, Instructed(m, n), Instructed(w, e), r)
      BY <3>1, <3>2, RunAlike
    <3> QED BY <1>1, <3>3 DEF AgreeNext
  <2> QED BY <2>2, <2>3, StacksPopped
<1>7. CASE n.op = "exec"
  <2>1. Instructed(m, n) = Exec(m) /\ Instructed(w, e) = Exec(w)
    BY <1>3, <1>5, <1>7 DEF Instructed
  <2>2. AgreeNext(R, Exec(m), Exec(w))
    BY <1>1, ExecAlike
  <2> QED BY <1>1, <2>1, <2>2
<1>8. CASE n.op = "cond_exec"
  <2>1. Instructed(m, n) = CondExec(m) /\ Instructed(w, e) = CondExec(w)
    BY <1>3, <1>5, <1>8 DEF Instructed
  <2>2. AgreeNext(R, CondExec(m), CondExec(w))
    BY <1>1, CondExecAlike
  <2> QED BY <1>1, <2>1, <2>2
<1>9. CASE n.op = "while"
  <2>1. Instructed(m, n) = While(m) /\ Instructed(w, e) = While(w)
    BY <1>3, <1>5, <1>9 DEF Instructed
  <2>2. AgreeNext(R, While(m), While(w))
    BY <1>1, WhileAlike
  <2> QED BY <1>1, <2>1, <2>2
<1>10. CASE n.op = "branch"
  <2>1. Instructed(m, n) = Jumped(m, n.label) /\ Instructed(w, e) = Jumped(w, e.label)
    BY <1>3, <1>5, <1>10 DEF Instructed
  <2>2. JumpsAlike(R, x, y, n, e)
    BY <1>10 DEF Branches
  <2> QED BY <1>1, <2>1, <2>2 DEF JumpsAlike
<1>11. CASE n.op = "branch_if_false"
  <2>1. /\ Instructed(m, n) = BranchIfFalse(m, n.label)
        /\ Instructed(w, e) = BranchIfFalse(w, e.label)
    BY <1>3, <1>5, <1>11 DEF Instructed
  <2>2. JumpsAlike(R, x, y, n, e)
    BY <1>11 DEF Branches
  <2>3. AgreeNext(R, BranchIfFalse(m, n.label), BranchIfFalse(w, e.label))
    BY <1>1, <2>2, BranchIfFalseAlike
  <2> QED BY <1>1, <2>1, <2>3
<1>12. CASE n.op = "branch_target"
  <2>1. Instructed(m, n) = m /\ Instructed(w, e) = w
    BY <1>3, <1>5, <1>12 DEF Instructed
  <2>2. Simulates(R, m, w, r)
    BY <1>1, RunAlike
  <2> QED BY <1>1, <2>1, <2>2 DEF AgreeNext
<1> QED BY <1>3, <1>4, <1>6, <1>7, <1>8, <1>9, <1>10, <1>11, <1>12 DEF Ops, Branches

-----------------------------------------------------------------------------
(* Where the branches go.                                                  *)

\* A good code has one target of a label at most.
LEMMA UniqueTarget ==
  ASSUME NEW c, Good(c), NEW l, NEW i \in Targets(c, l)
  PROVE  Targets(c, l) = {i}
<1>1. Apart(c)
  BY GoodComposed
<1>2. \A j \in Targets(c, l) : j \in DOMAIN c /\ Has(c[j], l)
  BY DEF Targets, Labelled, Node, Has
<1> QED BY <1>1, <1>2 DEF Apart

\* The indices of a good code.
LEMMA GoodIndices ==
  ASSUME NEW c, Good(c)
  PROVE  IsSeq(c) /\ Len(c) \in Nat /\ DOMAIN c = 1 .. Len(c)
<1>1. IsSeq(c)
  BY GoodComposed DEF Closed
<1> QED BY <1>1, SeqIndices

\* What there is to know of the numbers of a splice.
LEMMA SpliceNumbers ==
  ASSUME NEW c, NEW d, NEW p, NEW k, NEW m, Spliced(c, d, p, k, m)
  PROVE  /\ p \in Nat /\ k \in Nat /\ m \in Nat /\ k >= 2
         /\ Len(c) \in Nat /\ DOMAIN c = 1 .. Len(c) /\ IsSeq(c)
         /\ Len(d) \in Nat /\ DOMAIN d = 1 .. Len(d) /\ IsSeq(d)
         /\ p + k <= Len(c) /\ Len(d) = (Len(c) - k) + m
<1>1. Good(c) /\ Good(d)
  BY DEF Spliced
<1>2. /\ IsSeq(c) /\ Len(c) \in Nat /\ DOMAIN c = 1 .. Len(c)
      /\ IsSeq(d) /\ Len(d) \in Nat /\ DOMAIN d = 1 .. Len(d)
  BY <1>1, GoodIndices
<1> QED BY <1>2 DEF Spliced

\* Index i of c is index j of d, and they go on so.
Stands(c, d, p, k, m, i, j) ==
  j \in DOMAIN d /\ d[j] = c[i] /\ Places(Len(c), p, k, m, i + 1, j + 1)

\* A node outside of a splice is in both codes.
LEMMA OuterNode ==
  ASSUME NEW c, NEW d, NEW p, NEW k, NEW m, Spliced(c, d, p, k, m),
         NEW i, NEW j, Places(Len(c), p, k, m, i, j), i \in DOMAIN c, i # p + 1
  PROVE  Stands(c, d, p, k, m, i, j)
<1>1. /\ p \in Nat /\ k \in Nat /\ m \in Nat /\ k >= 2
      /\ Len(c) \in Nat /\ DOMAIN c = 1 .. Len(c)
      /\ Len(d) \in Nat /\ DOMAIN d = 1 .. Len(d)
      /\ p + k <= Len(c) /\ Len(d) = (Len(c) - k) + m
  BY SpliceNumbers
<1>2. CASE i <= p + 1 /\ j = i
  <2>1. i \in 1 .. p /\ j \in DOMAIN d
    BY <1>1, <1>2
  <2>2. d[j] = c[i]
    BY <1>2, <2>1 DEF Spliced
  <2>3. i + 1 \in 1 .. Len(c) + 1 /\ i + 1 <= p + 1 /\ j + 1 = i + 1
    BY <1>1, <1>2, <2>1
  <2> QED BY <2>1, <2>2, <2>3 DEF Places, Stands
<1>3. CASE i >= p + k + 1 /\ j = (i - k) + m
  <2>1. i \in p + k + 1 .. Len(c) /\ j \in DOMAIN d
    BY <1>1, <1>3
  <2>2. d[j] = c[i]
    BY <1>3, <2>1 DEF Spliced
  <2>3. i + 1 \in 1 .. Len(c) + 1 /\ i + 1 >= p + k + 1 /\ j + 1 = ((i + 1) - k) + m
    BY <1>1, <1>3, <2>1
  <2> QED BY <2>1, <2>2, <2>3 DEF Places, Stands
<1> QED BY <1>2, <1>3 DEF Places

\* A branch goes from a node outside of a splice to one outside.
LEMMA OuterBranch ==
  ASSUME NEW c, NEW d, NEW p, NEW k, NEW m, Spliced(c, d, p, k, m),
         NEW n, n \in DOMAIN c, c[n].op \in Branches
  PROVE  \E i, j \in Nat : /\ Targets(c, c[n].label) = {i} /\ Targets(d, c[n].label) = {j}
                           /\ Places(Len(c), p, k, m, i, j)
<1>1. /\ p \in Nat /\ k \in Nat /\ m \in Nat /\ k >= 2
      /\ Len(c) \in Nat /\ DOMAIN c = 1 .. Len(c)
      /\ Len(d) \in Nat /\ DOMAIN d = 1 .. Len(d)
      /\ p + k <= Len(c) /\ Len(d) = (Len(c) - k) + m
  BY SpliceNumbers
<1>2. Good(c) /\ Good(d)
  BY DEF Spliced
<1>3. PICK l : l = c[n].label
  OBVIOUS
<1>4. PICK i : i \in Targets(c, l)
  BY <1>2, <1>3, GoodComposed DEF Closed
<1>5. i \in DOMAIN c /\ c[i] = Labelled("branch_target", l)
  BY <1>4 DEF Targets
<1>6. c[i].op = "branch_target"
  BY <1>5 DEF Labelled, Node
<1>7. i \in 1 .. Len(c) /\ i \notin p + 1 .. p + k
  BY <1>1, <1>5, <1>6 DEF Spliced
<1>8. PICK j \in Nat : Places(Len(c), p, k, m, i, j)
  <2>1. CASE i <= p
    BY <1>1, <1>7, <2>1 DEF Places
  <2>2. CASE i >= p + k + 1
    <3>1. PICK h : h = (i - k) + m
      OBVIOUS
    <3>2. h \in Nat /\ i \in 1 .. Len(c) + 1
      BY <1>1, <1>7, <2>2, <3>1
    <3>3. Places(Len(c), p, k, m, i, h)
      BY <2>2, <3>1, <3>2 DEF Places
    <3> QED BY <3>2, <3>3
  <2> QED BY <1>1, <1>7, <2>1, <2>2
<1>9. i # p + 1
  BY <1>1, <1>7
<1>10. j \in DOMAIN d /\ d[j] = c[i]
  <2>1. Stands(c, d, p, k, m, i, j)
    BY <1>5, <1>8, <1>9, OuterNode
  <2> QED BY <2>1 DEF Stands
<1>11. j \in Targets(d, l)
  BY <1>5, <1>10 DEF Targets
<1>12. Targets(c, l) = {i} /\ Targets(d, l) = {j}
  BY <1>2, <1>4, <1>11, UniqueTarget
<1>13. i \in Nat
  BY <1>7
<1> QED BY <1>3, <1>8, <1>12, <1>13

\* Node i of s is in d behind q nodes, and its target too if it is a branch.
StandsIn(d, s, q, i) ==
  /\ q + i \in DOMAIN d /\ d[q + i] = s[i] /\ i \in Nat /\ q \in Nat
  /\ s[i].op \in Branches =>
       \E j \in 1 .. Len(s) : /\ Targets(s, s[i].label) = {j}
                              /\ Targets(d, s[i].label) = {q + j}

\* A node and a branch of a code that was put in.
LEMMA InnerNode ==
  ASSUME NEW d, NEW s, NEW q, Within(d, s, q), NEW i, i \in DOMAIN s
  PROVE  StandsIn(d, s, q, i)
<1>1. Good(s) /\ Good(d) /\ q \in Nat /\ q + Len(s) <= Len(d)
  BY DEF Within
<1>2. /\ Len(s) \in Nat /\ DOMAIN s = 1 .. Len(s)
      /\ Len(d) \in Nat /\ DOMAIN d = 1 .. Len(d)
  BY <1>1, GoodIndices
<1>3. q + i \in DOMAIN d /\ i \in Nat
  BY <1>1, <1>2
<1>4. ASSUME NEW j \in 1 .. Len(s)
      PROVE  d[q + j] = s[j] /\ q + j \in DOMAIN d
  BY <1>1, <1>2 DEF Within
<1>5. ASSUME s[i].op \in Branches
      PROVE  \E j \in 1 .. Len(s) : /\ Targets(s, s[i].label) = {j}
                                    /\ Targets(d, s[i].label) = {q + j}
  <2>1. PICK l : l = s[i].label
    OBVIOUS
  <2>2. PICK j : j \in Targets(s, l)
    BY <1>1, <1>5, <2>1, GoodComposed DEF Closed
  <2>3. j \in 1 .. Len(s) /\ s[j] = Labelled("branch_target", l)
    BY <1>2, <2>2 DEF Targets
  <2>4. q + j \in Targets(d, l)
    BY <1>4, <2>3 DEF Targets
  <2>5. Targets(s, l) = {j} /\ Targets(d, l) = {q + j}
    BY <1>1, <2>2, <2>4, UniqueTarget
  <2> QED BY <2>1, <2>3, <2>5
<1> QED BY <1>1, <1>2, <1>3, <1>4, <1>5 DEF StandsIn

-----------------------------------------------------------------------------
(* Steps that both machines make.                                          *)

\* Both go on.
LEMMA JointStep ==
  ASSUME NEW R, NEW m, NEW w, m.ended = "no", w.ended = "no",
         AgreeNext(R, Stepped(m), Stepped(w)), NEW r
  PROVE  GoesOn(R, m, w, r)
BY DEF AgreeNext, GoesOn, Simulates

\* To another index, and from there to another.
LEMMA ToIs ==
  ASSUME NEW a, IsFrame(a), NEW i \in Nat
  PROVE  /\ IsFrame(To(a, i)) /\ To(a, i).code = a.code /\ To(a, i).at = i
         /\ To(a, i).phase = a.phase /\ To(a, i).lambdas = a.lambdas
         /\ \A j : To(To(a, i), j) = To(a, j)
BY DEF IsFrame, To, Frame

\* Activations that are kept alike are so wherever they go.
LEMMA KeptMoves ==
  ASSUME NEW R, NEW a, NEW b, KeptAlike(R, a, b), NEW i \in Nat, NEW j \in Nat
  PROVE  KeptAlike(R, To(a, i), To(b, j))
<1>1. IsFrame(a) /\ IsFrame(b)
  BY DEF KeptAlike
<1>2. /\ IsFrame(To(a, i)) /\ To(a, i).phase = a.phase /\ To(a, i).lambdas = a.lambdas
      /\ IsFrame(To(b, j)) /\ To(b, j).phase = b.phase /\ To(b, j).lambdas = b.lambdas
  BY <1>1, ToIs
<1> QED BY <1>2 DEF KeptAlike

\* Jumps to targets where the activations are alike.
LEMMA JumpAlike ==
  ASSUME NEW R, NEW x, IsSeq(x), NEW y, IsSeq(y), NEW a, IsFrame(a), NEW b, IsFrame(b),
         NEW n, NEW e, NEW T, T = Targets(a.code, n.label), T \subseteq Nat,
         NEW S, S = Targets(b.code, e.label), S \subseteq Nat, T = {} <=> S = {},
         T # {} => \E r : FramesAlike(R, Append(x, To(a, CHOOSE i \in T : TRUE)),
                                         Append(y, To(b, CHOOSE i \in S : TRUE)), r)
  PROVE  JumpsAlike(R, Append(x, a), Append(y, b), n, e)
<1> SUFFICES ASSUME NEW s, NEW t, StacksAlike(R, s, t)
             PROVE  AgreeNext(R, Jumped(Running(s, Append(x, a)), n.label),
                                 Jumped(Running(t, Append(y, b)), e.label))
  BY DEF JumpsAlike
<1>1. PICK m, w : m = Running(s, Append(x, a)) /\ w = Running(t, Append(y, b))
  OBVIOUS
<1>2. /\ T = {} => HasAborted(Jumped(m, n.label))
      /\ T # {} => Jumped(m, n.label) = Running(s, Append(x, To(a, CHOOSE i \in T : TRUE)))
  <2>1. JumpsTo(m, n.label, s, x, a, T)
    BY <1>1, JumpedIs
  <2> QED BY <2>1 DEF JumpsTo
<1>3. /\ S = {} => HasAborted(Jumped(w, e.label))
      /\ S # {} => Jumped(w, e.label) = Running(t, Append(y, To(b, CHOOSE i \in S : TRUE)))
  <2>1. JumpsTo(w, e.label, t, y, b, S)
    BY <1>1, JumpedIs
  <2> QED BY <2>1 DEF JumpsTo
<1>4. CASE T = {}
  BY <1>1, <1>2, <1>3, <1>4, AbortAlike
<1>5. CASE T # {}
  <2>1. PICK f, g, r : /\ f = Append(x, To(a, CHOOSE i \in T : TRUE))
                       /\ g = Append(y, To(b, CHOOSE i \in S : TRUE))
                       /\ FramesAlike(R, f, g, r)
    BY <1>5
  <2>2. Jumped(m, n.label) = Running(s, f) /\ Jumped(w, e.label) = Running(t, g)
    BY <1>2, <1>3, <1>5, <2>1
  <2>3. Simulates(R, Running(s, f), Running(t, g), r)
    BY <2>1, RunAlike
  <2> QED BY <1>1, <2>2, <2>3 DEF AgreeNext
<1> QED BY <1>4, <1>5

\* i is where the branch n goes in a, j where e goes in b.
Aims(a, b, n, e, i, j) ==
  /\ i \in Nat /\ j \in Nat
  /\ Targets(a.code, n.label) = {i} /\ Targets(b.code, e.label) = {j}

\* Both machines are at nodes that are alike.
LEMMA NodeStep ==
  ASSUME NEW R, Justified(R), NEW s, NEW t, StacksAlike(R, s, t),
         NEW x, IsSeq(x), NEW y, IsSeq(y), NEW a, IsFrame(a), NEW b, IsFrame(b),
         IsSeq(a.code), IsSeq(b.code), a.at \in DOMAIN a.code, b.at \in DOMAIN b.code,
         NEW n, n = a.code[a.at], NEW e, e = b.code[b.at], NodesAlike(R, n, e),
         NEW r, FramesAlike(R, Append(x, To(a, a.at + 1)), Append(y, To(b, b.at + 1)), r),
         n.op \in Branches =>
           JumpsAlike(R, Append(x, To(a, a.at + 1)), Append(y, To(b, b.at + 1)), n, e),
         NEW m, m = Running(s, Append(x, a)), NEW w, w = Running(t, Append(y, b)), NEW q
  PROVE  GoesOn(R, m, w, q)
<1>1. PICK f, g : f = Append(x, To(a, a.at + 1)) /\ g = Append(y, To(b, b.at + 1))
  OBVIOUS
<1>2. Stepped(m) = Instructed(Running(s, f), n) /\ Stepped(w) = Instructed(Running(t, g), e)
  BY <1>1, StepAtNode
<1>3. AgreeNext(R, Instructed(Running(s, f), n), Instructed(Running(t, g), e))
  BY <1>1, InstructedAlike
<1>4. m.ended = "no" /\ w.ended = "no"
  BY DEF Running
<1> QED BY <1>2, <1>3, <1>4, JointStep

\* A jump with one target on either side.
LEMMA AimedAlike ==
  ASSUME NEW R, NEW x, IsSeq(x), NEW y, IsSeq(y), NEW a, IsFrame(a), NEW b, IsFrame(b),
         NEW n, NEW e, NEW i, NEW j, Aims(a, b, n, e, i, j),
         NEW k \in Nat, NEW l \in Nat,
         NEW r, FramesAlike(R, Append(x, To(a, i)), Append(y, To(b, j)), r)
  PROVE  JumpsAlike(R, Append(x, To(a, k)), Append(y, To(b, l)), n, e)
<1>1. PICK f, g : f = To(a, k) /\ g = To(b, l)
  OBVIOUS
<1>2. /\ IsFrame(f) /\ f.code = a.code /\ \A h : To(f, h) = To(a, h)
      /\ IsFrame(g) /\ g.code = b.code /\ \A h : To(g, h) = To(b, h)
  BY <1>1, ToIs
<1>3. PICK T, S : T = {i} /\ S = {j}
  OBVIOUS
<1>4. /\ T = Targets(f.code, n.label) /\ S = Targets(g.code, e.label)
      /\ T \subseteq Nat /\ S \subseteq Nat /\ T # {} /\ S # {}
  BY <1>2, <1>3 DEF Aims
<1>5. (CHOOSE h \in T : TRUE) = i /\ (CHOOSE h \in S : TRUE) = j
  BY <1>3
<1>6. FramesAlike(R, Append(x, To(f, CHOOSE h \in T : TRUE)),
                     Append(y, To(g, CHOOSE h \in S : TRUE)), r)
  BY <1>2, <1>5
<1>7. JumpsAlike(R, Append(x, f), Append(y, g), n, e)
  BY <1>2, <1>4, <1>6, JumpAlike
<1> QED BY <1>1, <1>7

\* Both machines are at the end of their codes.
LEMMA EndStep ==
  ASSUME NEW R, Justified(R), NEW s, NEW t, StacksAlike(R, s, t),
         NEW x, NEW y, NEW q, FramesAlike(R, x, y, q),
         NEW a, NEW b, KeptAlike(R, a, b), a.at > Len(a.code), b.at > Len(b.code),
         NEW m, m = Running(s, Append(x, a)), NEW w, w = Running(t, Append(y, b)), NEW r
  PROVE  GoesOn(R, m, w, r)
<1>1. IsSeq(x) /\ IsSeq(y)
  BY FramesSeqs
<1>2. m.ended = "no" /\ w.ended = "no"
  BY DEF Running
<1>3. a.phase = b.phase
  BY DEF KeptAlike
<1>9. EndsPart(Stepped(m), s, x, a) /\ EndsPart(Stepped(w), t, y, b)
  BY <1>1, StepAtEnd
<1>4. CASE a.phase = "call"
  <2>1. Stepped(m) = Running(s, x) /\ Stepped(w) = Running(t, y)
    BY <1>3, <1>4, <1>9 DEF EndsPart
  <2>2. Simulates(R, Running(s, x), Running(t, y), q)
    BY RunAlike
  <2> QED BY <1>2, <2>1, <2>2, JointStep DEF AgreeNext
<1>5. ASSUME a.phase # "call"
      PROVE  /\ a.phase \in {"cond", "body"}
             /\ IsLambda(a.lambdas[1]) /\ NodesAlike(R, a.lambdas[1], b.lambdas[1])
             /\ IsLambda(a.lambdas[2]) /\ NodesAlike(R, a.lambdas[2], b.lambdas[2])
  BY <1>5 DEF KeptAlike
<1>6. ASSUME NEW f, NEW g, StacksAlike(R, f, g), NEW phase \in {"cond", "body"},
             a.phase # "call"
      PROVE  AgreeNext(R, Running(f, Append(x, LoopPart(phase, a.lambdas[1], a.lambdas[2]))),
                          Running(g, Append(y, LoopPart(phase, b.lambdas[1], b.lambdas[2]))))
  BY <1>5, <1>6, LoopAlike
<1>7. CASE a.phase = "body"
  <2>1. /\ Stepped(m) = Running(s, Append(x, LoopPart("cond", a.lambdas[1], a.lambdas[2])))
        /\ Stepped(w) = Running(t, Append(y, LoopPart("cond", b.lambdas[1], b.lambdas[2])))
    BY <1>3, <1>7, <1>9 DEF EndsPart
  <2> QED BY <1>2, <1>6, <1>7, <2>1, JointStep
<1>8. CASE a.phase = "cond"
  <2>1. /\ s = << >> => HasAborted(Stepped(m))
        /\ s # << >> /\ Truthy(Last(s)) =>
             Stepped(m) = Running(Front(s),
                            Append(x, LoopPart("body", a.lambdas[1], a.lambdas[2])))
        /\ s # << >> /\ ~Truthy(Last(s)) => Stepped(m) = Running(Front(s), x)
    BY <1>8, <1>9 DEF EndsPart
  <2>2. /\ t = << >> => HasAborted(Stepped(w))
        /\ t # << >> /\ Truthy(Last(t)) =>
             Stepped(w) = Running(Front(t),
                            Append(y, LoopPart("body", b.lambdas[1], b.lambdas[2])))
        /\ t # << >> /\ ~Truthy(Last(t)) => Stepped(w) = Running(Front(t), y)
    BY <1>3, <1>8, <1>9 DEF EndsPart
  <2>3. CASE s = << >> /\ t = << >>
    BY <1>2, <2>1, <2>2, <2>3, AbortAlike, JointStep
  <2>4. CASE PopsAlike(R, s, t)
    <3>1. /\ s # << >> /\ t # << >>
          /\ StacksAlike(R, Front(s), Front(t)) /\ NodesAlike(R, Last(s), Last(t))
      BY <2>4 DEF PopsAlike
    <3>2. Truthy(Last(s)) <=> Truthy(Last(t))
      BY <3>1, AlikeOps
    <3>3. CASE Truthy(Last(s))
      <4>1. AgreeNext(R, Stepped(m), Stepped(w))
        BY <1>6, <1>8, <2>1, <2>2, <3>1, <3>2, <3>3
      <4> QED BY <1>2, <4>1, JointStep
    <3>4. CASE ~Truthy(Last(s))
      <4>1. Simulates(R, Running(Front(s), x), Running(Front(t), y), q)
        BY <3>1, RunAlike
      <4>2. AgreeNext(R, Stepped(m), Stepped(w))
        BY <2>1, <2>2, <3>1, <3>2, <3>4, <4>1 DEF AgreeNext
      <4> QED BY <1>2, <4>2, JointStep
    <3> QED BY <3>3, <3>4
  <2> QED BY <2>3, <2>4, StacksPopped
<1> QED BY <1>4, <1>5, <1>7, <1>8

-----------------------------------------------------------------------------
(* Steps at the same node of both codes, and outside of what was put in.   *)

\* The index of an activation of a code that means the same.
LEMMA SameAt ==
  ASSUME NEW R, NEW a, NEW b, KeptAlike(R, a, b), SameCode(R, a.code, b.code),
         NEW i \in 1 .. Len(a.code) + 1
  PROVE  OneForOne(R, To(a, i), To(b, i), 0)
<1>1. Len(a.code) \in Nat
  BY SeqIndices DEF SameCode
<1>2. i \in Nat /\ IsFrame(a) /\ IsFrame(b)
  BY <1>1 DEF KeptAlike
<1>3. KeptAlike(R, To(a, i), To(b, i))
  BY <1>2, KeptMoves
<1>4. /\ To(a, i).code = a.code /\ To(a, i).at = i
      /\ To(b, i).code = b.code /\ To(b, i).at = i
  BY <1>2, ToIs
<1>5. AtSame(R, To(a, i), To(b, i), 0)
  BY <1>4 DEF AtSame
<1> QED BY <1>3, <1>5 DEF OneForOne

\* The machines are at the same node, or at the end.
LEMMA SameGoesOn ==
  ASSUME NEW R, Justified(R), NEW s, NEW t, StacksAlike(R, s, t),
         NEW x, NEW y, NEW q, FramesAlike(R, x, y, q),
         NEW a, NEW b, KeptAlike(R, a, b), NEW r, AtSame(R, a, b, r),
         NEW m, m = Running(s, Append(x, a)), NEW w, w = Running(t, Append(y, b))
  PROVE  GoesOn(R, m, w, r)
<1>1. IsSeq(x) /\ IsSeq(y) /\ IsFrame(a) /\ IsFrame(b)
  BY FramesSeqs DEF KeptAlike
<1>2. /\ SameCode(R, a.code, b.code) /\ IsSeq(a.code) /\ IsSeq(b.code)
      /\ Len(a.code) = Len(b.code) /\ a.at \in 1 .. Len(a.code) + 1 /\ b.at = a.at
  BY DEF AtSame, SameCode
<1>3. /\ Len(a.code) \in Nat /\ DOMAIN a.code = 1 .. Len(a.code)
      /\ DOMAIN b.code = 1 .. Len(a.code)
  BY <1>2, SeqIndices
<1>4. CASE a.at > Len(a.code)
  <2>1. b.at > Len(b.code)
    BY <1>2, <1>4
  <2> QED BY <1>4, <2>1, EndStep
<1>5. CASE a.at \in DOMAIN a.code
  <2>1. PICK n, e, i : n = a.code[a.at] /\ e = b.code[b.at] /\ i = a.at
    OBVIOUS
  <2>2. i \in Nat /\ i + 1 \in Nat /\ i + 1 \in 1 .. Len(a.code) + 1
    BY <1>3, <1>5, <2>1
  <2>3. /\ NodesAlike(R, n, e)
        /\ n.op \in Branches => Targets(a.code, n.label) = Targets(b.code, e.label)
    BY <1>2, <1>5, <2>1 DEF SameCode
  <2>4. \A j \in 1 .. Len(a.code) + 1 : OneForOne(R, To(a, j), To(b, j), 0)
    BY <1>2, SameAt
  <2>5. \A j \in 1 .. Len(a.code) + 1 :
          FramesAlike(R, Append(x, To(a, j)), Append(y, To(b, j)), 0)
    BY <2>4, FramesOne
  <2>6. ASSUME n.op \in Branches
        PROVE  JumpsAlike(R, Append(x, To(a, i + 1)), Append(y, To(b, i + 1)), n, e)
    <3>1. PICK f, g : f = To(a, i + 1) /\ g = To(b, i + 1)
      OBVIOUS
    <3>2. /\ IsFrame(f) /\ f.code = a.code /\ \A h : To(f, h) = To(a, h)
          /\ IsFrame(g) /\ g.code = b.code /\ \A h : To(g, h) = To(b, h)
      BY <1>1, <2>2, <3>1, ToIs
    <3>3. PICK T : T = Targets(a.code, n.label)
      OBVIOUS
    <3>4. T = Targets(f.code, n.label) /\ T = Targets(g.code, e.label)
      BY <2>3, <2>6, <3>2, <3>3
    <3>5. T \subseteq 1 .. Len(a.code) /\ T \subseteq Nat
      BY <1>3, <3>3 DEF Targets
    <3>6. ASSUME T # {}
          PROVE  \E z : FramesAlike(R, Append(x, To(f, CHOOSE h \in T : TRUE)),
                                       Append(y, To(g, CHOOSE h \in T : TRUE)), z)
      <4>1. PICK j : j = (CHOOSE h \in T : TRUE)
        OBVIOUS
      <4>2. j \in T
        BY <3>6, <4>1
      <4>3. j \in 1 .. Len(a.code) + 1
        BY <1>3, <3>5, <4>2
      <4>4. FramesAlike(R, Append(x, To(a, j)), Append(y, To(b, j)), 0)
        BY <2>5, <4>3
      <4> QED BY <3>2, <4>1, <4>4
    <3>7. JumpsAlike(R, Append(x, f), Append(y, g), n, e)
      BY <1>1, <3>2, <3>4, <3>5, <3>6, JumpAlike
    <3> QED BY <3>1, <3>7
  <2>7. a.at = i /\ b.at = i /\ b.at \in DOMAIN b.code
    BY <1>2, <1>3, <1>5, <2>1
  <2>8. FramesAlike(R, Append(x, To(a, a.at + 1)), Append(y, To(b, b.at + 1)), 0)
    BY <2>2, <2>5, <2>7
  <2>9. n.op \in Branches =>
          JumpsAlike(R, Append(x, To(a, a.at + 1)), Append(y, To(b, b.at + 1)), n, e)
    BY <2>6, <2>7
  <2> QED BY <1>1, <1>2, <1>5, <2>1, <2>3, <2>7, <2>8, <2>9, NodeStep
<1>6. a.at > Len(a.code) \/ a.at \in DOMAIN a.code
  BY <1>2, <1>3
<1> QED BY <1>4, <1>5, <1>6

\* What every site is.
Sited(c, d, p, k, z) ==
  /\ Spliced(c, d, p, k, z) /\ IsLambda(c[p + 1])
  /\ p \in Nat /\ k \in Nat /\ z \in Nat /\ k >= 2
  /\ IsSeq(c) /\ Len(c) \in Nat /\ DOMAIN c = 1 .. Len(c)
  /\ IsSeq(d) /\ Len(d) \in Nat /\ DOMAIN d = 1 .. Len(d)
  /\ p + k <= Len(c) /\ Len(d) = (Len(c) - k) + z

\* A place where lambdas are put in is one.
LEMMA SiteIs ==
  ASSUME NEW c, NEW d, NEW p, NEW k, NEW z, Site(c, d, p, k, z)
  PROVE  Sited(c, d, p, k, z)
<1>1. Spliced(c, d, p, k, z) /\ IsLambda(c[p + 1])
  BY DEF Site, ExecSite, CondSite, WhileSite
<1>2. /\ p \in Nat /\ k \in Nat /\ z \in Nat /\ k >= 2
      /\ Len(c) \in Nat /\ DOMAIN c = 1 .. Len(c) /\ IsSeq(c)
      /\ Len(d) \in Nat /\ DOMAIN d = 1 .. Len(d) /\ IsSeq(d)
      /\ p + k <= Len(c) /\ Len(d) = (Len(c) - k) + z
  BY <1>1, SpliceNumbers
<1> QED BY <1>1, <1>2 DEF Sited

\* Activations that stand where a code and a rewritten one correspond.
LEMMA PlacedAlike ==
  ASSUME NEW R, NEW a, NEW b, KeptAlike(R, a, b), LikeItself(R, a.code),
         NEW p, NEW k, NEW z, Site(a.code, b.code, p, k, z),
         NEW i, NEW j, Places(Len(a.code), p, k, z, i, j)
  PROVE  /\ i \in Nat /\ j \in Nat
         /\ OneForOne(R, To(a, i), To(b, j), IF i = p + 1 THEN 4 ELSE 0)
<1>1. /\ p \in Nat /\ k \in Nat /\ z \in Nat /\ k >= 2 /\ Len(a.code) \in Nat
  BY SiteIs DEF Sited
<1>2. i \in Nat /\ j \in Nat
  <2>1. CASE i <= p + 1 /\ j = i
    BY <1>1, <2>1 DEF Places
  <2>2. CASE i >= p + k + 1 /\ j = (i - k) + z
    BY <1>1, <2>2 DEF Places
  <2> QED BY <2>1, <2>2 DEF Places
<1>3. IsFrame(a) /\ IsFrame(b)
  BY DEF KeptAlike
<1>4. PICK f, g : f = To(a, i) /\ g = To(b, j)
  OBVIOUS
<1>5. KeptAlike(R, f, g) /\ f.code = a.code /\ f.at = i /\ g.code = b.code /\ g.at = j
  BY <1>2, <1>3, <1>4, KeptMoves, ToIs
<1>6. Outside(f, g, p, k, z, IF i = p + 1 THEN 4 ELSE 0)
  BY <1>5 DEF Outside
<1>7. Site(f.code, g.code, p, k, z) /\ LikeItself(R, f.code)
  BY <1>5
<1>8. OneForOne(R, f, g, IF i = p + 1 THEN 4 ELSE 0)
  BY <1>5, <1>6, <1>7 DEF OneForOne
<1> QED BY <1>2, <1>4, <1>8

\* Both machines are outside, and not at the lambda that was put in.
LEMMA OutsideGoesOn ==
  ASSUME NEW R, Justified(R), NEW s, NEW t, StacksAlike(R, s, t),
         NEW x, NEW y, NEW q, FramesAlike(R, x, y, q),
         NEW a, NEW b, KeptAlike(R, a, b), LikeItself(R, a.code),
         NEW p, NEW k, NEW z, Site(a.code, b.code, p, k, z),
         NEW r, Outside(a, b, p, k, z, r), a.at # p + 1,
         NEW m, m = Running(s, Append(x, a)), NEW w, w = Running(t, Append(y, b))
  PROVE  GoesOn(R, m, w, r)
<1>1. IsSeq(x) /\ IsSeq(y) /\ IsFrame(a) /\ IsFrame(b)
  BY FramesSeqs DEF KeptAlike
<1>2. PICK c, d, i, j : c = a.code /\ d = b.code /\ i = a.at /\ j = b.at
  OBVIOUS
<1>3. /\ Spliced(c, d, p, k, z)
      /\ p \in Nat /\ k \in Nat /\ z \in Nat /\ k >= 2
      /\ IsSeq(c) /\ Len(c) \in Nat /\ DOMAIN c = 1 .. Len(c)
      /\ IsSeq(d) /\ Len(d) \in Nat /\ DOMAIN d = 1 .. Len(d)
      /\ p + k <= Len(c) /\ Len(d) = (Len(c) - k) + z
  BY <1>2, SiteIs DEF Sited
<1>4. Places(Len(c), p, k, z, i, j)
  BY <1>2 DEF Outside
<1>5. i \in 1 .. Len(c) + 1
  BY <1>4 DEF Places
<1>6. CASE i > Len(c)
  <2>1. i >= p + k + 1 /\ j = (i - k) + z
    BY <1>3, <1>4, <1>6 DEF Places
  <2>2. j > Len(d)
    BY <1>3, <1>5, <1>6, <2>1
  <2> QED BY <1>2, <1>6, <2>2, EndStep
<1>7. CASE i \in DOMAIN c
  <2>1. Stands(c, d, p, k, z, i, j)
    BY <1>2, <1>3, <1>4, <1>7, OuterNode
  <2>2. j \in DOMAIN d /\ d[j] = c[i] /\ Places(Len(c), p, k, z, i + 1, j + 1)
    BY <2>1 DEF Stands
  <2>3. NodesAlike(R, c[i], d[j])
    BY <1>2, <1>7, <2>2 DEF LikeItself
  <2>4. PICK g : FramesAlike(R, Append(x, To(a, i + 1)), Append(y, To(b, j + 1)), g)
    <3>1. PICK h : OneForOne(R, To(a, i + 1), To(b, j + 1), h)
      BY <1>2, <2>2, PlacedAlike
    <3> QED BY <3>1, FramesOne
  <2>5. ASSUME c[i].op \in Branches
        PROVE  JumpsAlike(R, Append(x, To(a, i + 1)), Append(y, To(b, j + 1)), c[i], d[j])
    <3>1. PICK n : n = c[i]
      OBVIOUS
    <3>2. PICK f \in Nat, h \in Nat :
            /\ Targets(c, n.label) = {f} /\ Targets(d, n.label) = {h}
            /\ Places(Len(c), p, k, z, f, h)
      BY <1>3, <1>7, <2>5, <3>1, OuterBranch
    <3>3. Aims(a, b, n, n, f, h)
      BY <1>2, <3>2 DEF Aims
    <3>4. PICK u : FramesAlike(R, Append(x, To(a, f)), Append(y, To(b, h)), u)
      <4>1. PICK u : OneForOne(R, To(a, f), To(b, h), u)
        BY <1>2, <3>2, PlacedAlike
      <4> QED BY <4>1, FramesOne
    <3>5. i + 1 \in Nat /\ j + 1 \in Nat
      BY <1>3, <1>7, <2>2
    <3>6. JumpsAlike(R, Append(x, To(a, i + 1)), Append(y, To(b, j + 1)), n, n)
      BY <1>1, <3>3, <3>4, <3>5, AimedAlike
    <3> QED BY <2>2, <3>1, <3>6
  <2>6. PICK n, e : n = c[i] /\ e = d[j]
    OBVIOUS
  <2>7. /\ n = a.code[a.at] /\ e = b.code[b.at] /\ NodesAlike(R, n, e)
        /\ IsSeq(a.code) /\ IsSeq(b.code)
        /\ a.at \in DOMAIN a.code /\ b.at \in DOMAIN b.code
    BY <1>2, <1>3, <1>7, <2>2, <2>3, <2>6
  <2>8. FramesAlike(R, Append(x, To(a, a.at + 1)), Append(y, To(b, b.at + 1)), g)
    BY <1>2, <2>4
  <2>9. n.op \in Branches =>
          JumpsAlike(R, Append(x, To(a, a.at + 1)), Append(y, To(b, b.at + 1)), n, e)
    BY <1>2, <2>5, <2>6
  <2> QED BY <1>1, <2>7, <2>8, <2>9, NodeStep
<1>8. i > Len(c) \/ i \in DOMAIN c
  BY <1>3, <1>5
<1> QED BY <1>6, <1>7, <1>8

-----------------------------------------------------------------------------
(* Steps of one machine alone, and out of what was put in.                 *)

\* One value behind a sequence, or two.
LEMMA BehindIs ==
  ASSUME NEW s, IsSeq(s), NEW e, NEW f
  PROVE  s \o <<e>> = Append(s, e) /\ s \o <<e, f>> = Append(Append(s, e), f)
<1>1. PICK S : s \in Seq(S)
  BY DEF IsSeq
<1>2. PICK T : T = S \cup {e, f}
  OBVIOUS
<1>3. s \in Seq(T) /\ e \in T /\ f \in T
  BY <1>1, <1>2, SeqMonotonic
<1>4. Append(s, e) = s \o <<e>>
  BY <1>3, AppendIsConcat
<1>5. Append(s, e) \in Seq(T)
  BY <1>3, AppendProperties
<1>6. Append(Append(s, e), f) = Append(s, e) \o <<f>>
  BY <1>3, <1>5, AppendIsConcat
<1>7. (s \o <<e>>) \o <<f>> = s \o (<<e>> \o <<f>>)
  BY <1>3, ConcatAssociative
<1>8. <<e>> \o <<f>> = <<e, f>>
  <2>1. <<e>> \in Seq(T) /\ <<f>> \in Seq(T) /\ <<e, f>> \in Seq(T)
    BY <1>3
  <2>2. Append(<<e>>, f) = <<e>> \o <<f>>
    BY <1>3, <2>1, AppendIsConcat
  <2>3. Append(<<e>>, f) = <<e, f>>
    <3>1. PICK v, u : v = Append(<<e>>, f) /\ u = <<e, f>>
      OBVIOUS
    <3>2. IsSeq(<<e>>) /\ Len(<<e>>) = 1 /\ <<e>>[1] = e
      BY <2>1 DEF IsSeq
    <3>3. Appended(v, <<e>>, f)
      BY <3>1, <3>2, AppendIs
    <3>4. Len(v) = 2 /\ v[1] = e /\ v[2] = f /\ IsSeq(v)
      BY <3>2, <3>3 DEF Appended
    <3>5. PICK U : v \in Seq(U)
      BY <3>4 DEF IsSeq
    <3>6. v \in Seq(U \cup T) /\ u \in Seq(U \cup T)
      BY <2>1, <3>1, <3>5, SeqMonotonic
    <3>7. Len(u) = 2 /\ u[1] = e /\ u[2] = f
      BY <3>1
    <3>8. \A i \in 1 .. 2 : i = 1 \/ i = 2
      OBVIOUS
    <3>9. \A i \in 1 .. Len(v) : v[i] = u[i]
      BY <3>4, <3>7, <3>8
    <3> QED BY <3>1, <3>4, <3>6, <3>7, <3>9, SeqEqual
  <2> QED BY <2>2, <2>3
<1> QED BY <1>4, <1>6, <1>7, <1>8

\* A lambda is pushed.
LEMMA PushStep ==
  ASSUME NEW x, IsSeq(x), NEW a, IsFrame(a), NEW s, IsSeq(a.code),
         a.at \in DOMAIN a.code, IsLambda(a.code[a.at])
  PROVE  Stepped(Running(s, Append(x, a)))
           = Running(Append(s, a.code[a.at]), Append(x, To(a, a.at + 1)))
<1>1. PICK n, f : n = a.code[a.at] /\ f = Append(x, To(a, a.at + 1))
  OBVIOUS
<1>2. Stepped(Running(s, Append(x, a))) = Instructed(Running(s, f), n)
  BY <1>1, StepAtNode
<1>3. Runs(Running(s, f), s, f)
  BY MachineIs
<1>4. Constant(n) /\ n.op = "lambda"
  BY <1>1 DEF Constant, IsLambda
<1>5. Instructed(Running(s, f), n) = Pushed(Running(s, f), n)
  BY <1>4 DEF Instructed
<1> QED BY <1>1, <1>2, <1>3, <1>5 DEF Runs

\* One machine goes on alone.
LEMMA LeftStep ==
  ASSUME NEW R, NEW m, NEW w, m.ended = "no", w.ended = "no",
         NEW r, NEW q, q < r, Simulates(R, Stepped(m), w, q)
  PROVE  GoesOn(R, m, w, r)
BY DEF GoesOn, Simulates

\* The second machine goes one step on alone, which it can do so often only.
LEMMA RightStep ==
  ASSUME NEW R, NEW m, NEW w, m.ended = "no", w.ended = "no",
         NEW r, NEW q, q < r, Simulates(R, m, Stepped(w), q)
  PROVE  GoesOn(R, m, w, r)
BY DEF GoesOn, Simulates

\* The one machine is at the lambda that was put in: it pushes it.
LEMMA FirstGoesOn ==
  ASSUME NEW R, NEW s, NEW t, StacksAlike(R, s, t),
         NEW x, NEW y, NEW q, FramesAlike(R, x, y, q),
         NEW a, NEW b, KeptAlike(R, a, b), LikeItself(R, a.code),
         NEW p, NEW k, NEW z, Site(a.code, b.code, p, k, z),
         NEW r, Outside(a, b, p, k, z, r), a.at = p + 1,
         NEW m, m = Running(s, Append(x, a)), NEW w, w = Running(t, Append(y, b))
  PROVE  GoesOn(R, m, w, r)
<1>1. IsSeq(x) /\ IsSeq(y) /\ IsFrame(a) /\ IsFrame(b) /\ IsSeq(s)
  BY FramesSeqs DEF KeptAlike, StacksAlike
<1>2. /\ p \in Nat /\ k \in Nat /\ k >= 2 /\ IsLambda(a.code[p + 1]) /\ IsSeq(a.code)
      /\ Len(a.code) \in Nat /\ DOMAIN a.code = 1 .. Len(a.code)
      /\ p + k <= Len(a.code)
  BY SiteIs DEF Sited
<1>3. b.at = p + 1
  <2>1. ~(p + 1 >= p + k + 1)
    BY <1>2
  <2> QED BY <2>1 DEF Outside, Places
<1>4. r = 4
  BY DEF Outside
<1>5. a.at \in DOMAIN a.code /\ p + 2 \in Nat /\ a.at + 1 = p + 2
  BY <1>2
<1>6. PICK n, f : n = a.code[p + 1] /\ f = To(a, p + 2)
  OBVIOUS
<1>7. Stepped(m) = Running(Append(s, n), Append(x, f))
  BY <1>1, <1>2, <1>5, <1>6, PushStep
<1>8. Append(s, n) = s \o <<n>>
  BY <1>1, BehindIs
<1>9. KeptAlike(R, f, b) /\ f.code = a.code /\ f.at = p + 2
  <2>1. /\ IsFrame(f) /\ f.code = a.code /\ f.at = p + 2
        /\ f.phase = a.phase /\ f.lambdas = a.lambdas
    BY <1>1, <1>5, <1>6, ToIs
  <2> QED BY <2>1 DEF KeptAlike
<1>10. Waits(R, f, b, 3, <<n>>)
  <2>1. LikeItself(R, f.code) /\ Site(f.code, b.code, p, k, z)
    BY <1>9
  <2> QED BY <1>3, <1>6, <1>9, <2>1 DEF Waits
<1>11. BothHeld(R, Stepped(m), w, 3)
  BY <1>7, <1>8, <1>10 DEF BothHeld
<1>12. Simulates(R, Stepped(m), w, 3)
  BY <1>11 DEF Simulates
<1>13. m.ended = "no" /\ w.ended = "no"
  BY DEF Running
<1> QED BY <1>4, <1>12, <1>13, LeftStep

\* The one machine is behind, the other passes the target that ends what was
\* put in.
LEMMA LandingGoesOn ==
  ASSUME NEW R, NEW s, NEW t, StacksAlike(R, s, t),
         NEW x, NEW y, NEW q, FramesAlike(R, x, y, q),
         NEW a, NEW b, KeptAlike(R, a, b), LikeItself(R, a.code),
         NEW p, NEW k, NEW z, Site(a.code, b.code, p, k, z),
         NEW r, Landing(a, b, p, k, z, r),
         NEW m, m = Running(s, Append(x, a)), NEW w, w = Running(t, Append(y, b))
  PROVE  GoesOn(R, m, w, r)
<1>1. IsSeq(x) /\ IsSeq(y) /\ IsFrame(a) /\ IsFrame(b)
  BY FramesSeqs DEF KeptAlike
<1>2. /\ p \in Nat /\ k \in Nat /\ z \in Nat /\ k >= 2
      /\ Len(a.code) \in Nat /\ p + k <= Len(a.code)
      /\ IsSeq(b.code) /\ DOMAIN b.code = 1 .. Len(b.code) /\ Len(b.code) \in Nat
      /\ Len(b.code) = (Len(a.code) - k) + z
  BY SiteIs DEF Sited
<1>3. /\ a.at = p + k + 1 /\ b.at = p + z /\ r = 1
      /\ b.code[b.at].op = "branch_target"
  BY DEF Landing
<1>4. z > 0
  BY DEF Landing
<1>5. b.at \in DOMAIN b.code
  BY <1>2, <1>3, <1>4
<1>6. PICK f : f = Append(y, To(b, b.at + 1))
  OBVIOUS
<1>7. Stepped(w) = Instructed(Running(t, f), b.code[b.at])
  BY <1>1, <1>2, <1>5, <1>6, StepAtNode
<1>8. Stepped(w) = Running(t, f)
  <2>1. Instructed(Running(t, f), b.code[b.at]) = Running(t, f)
    BY <1>3 DEF Instructed, Constant
  <2> QED BY <1>7, <2>1
<1>9. PICK i, j : i = a.at /\ j = b.at + 1
  OBVIOUS
<1>10. Places(Len(a.code), p, k, z, i, j) /\ i # p + 1
  <2>1. i \in 1 .. Len(a.code) + 1 /\ i >= p + k + 1 /\ j = (i - k) + z /\ i # p + 1
    BY <1>2, <1>3, <1>9
  <2> QED BY <2>1 DEF Places
<1>11. OneForOne(R, To(a, i), To(b, j), 0)
  BY <1>10, PlacedAlike
<1>12. To(a, i) = a
  BY <1>1, <1>9 DEF IsFrame, To
<1>13. FramesAlike(R, Append(x, a), f, 0)
  BY <1>6, <1>9, <1>11, <1>12, FramesOne
<1>14. Simulates(R, m, Stepped(w), 0)
  BY <1>8, <1>13, RunAlike
<1>15. m.ended = "no" /\ w.ended = "no"
  BY DEF Running
<1> QED BY <1>3, <1>14, <1>15, RightStep

-----------------------------------------------------------------------------
(* Steps within what was put in.                                           *)

\* Lambdas of a code that is like itself are so too.
LEMMA LikeItselfWithin ==
  ASSUME NEW R, Justified(R), NEW c, LikeItself(R, c), NEW i \in DOMAIN c, IsLambda(c[i])
  PROVE  LikeItself(R, c[i].code)
<1>1. PICK l : l = c[i].code
  OBVIOUS
<1>2. <<l, l>> \in R
  BY <1>1 DEF LikeItself, NodesAlike
<1>3. SameCode(R, l, l) \/ OneInlined(R, l, l)
  BY <1>2 DEF Justified
<1>4. SameCode(R, l, l) => LikeItself(R, l)
  BY DEF SameCode, LikeItself
<1>5. OneInlined(R, l, l) => LikeItself(R, l)
  BY DEF OneInlined
<1> QED BY <1>1, <1>3, <1>4, <1>5

\* An activation with two for one.
LEMMA TwoMade ==
  ASSUME NEW R, NEW a, NEW b, KeptAlike(R, a, b), LikeItself(R, a.code),
         NEW e, IsFrame(e), NEW f, IsFrame(f), f.code = b.code,
         f.phase = b.phase, f.lambdas = b.lambdas,
         NEW p, NEW k, NEW z, a.at = p + k + 1,
         NEW h, Inside(a.code, e, f, p, k, z, h) \/ AtTop(a.code, e, f, p, k, z, h)
  PROVE  TwoForOne(R, a, e, f, h)
<1>1. KeptAlike(R, a, f)
  BY DEF KeptAlike
<1> QED BY <1>1 DEF TwoForOne

\* e runs in a part of the code of b, behind q nodes.
PartOf(R, c, e, b, p, k, z, q) ==
  /\ InPart(e, b, q) /\ LikeItself(R, e.code)
  /\ \A i \in 1 .. Len(e.code) + 1 : \E h : Inside(c, To(e, i), To(b, q + i), p, k, z, h)

\* What runs inside does so in a part.
LEMMA InsideIs ==
  ASSUME NEW R, Justified(R), NEW c, LikeItself(R, c), NEW e, IsFrame(e), NEW b, IsFrame(b),
         NEW p, NEW k, NEW z, NEW r, Inside(c, e, b, p, k, z, r)
  PROVE  \E q : PartOf(R, c, e, b, p, k, z, q)
<1>1. Site(c, b.code, p, k, z)
  BY DEF Inside, Site
<1>2. /\ p \in Nat /\ k >= 2 /\ k \in Nat /\ IsLambda(c[p + 1])
      /\ Len(c) \in Nat /\ DOMAIN c = 1 .. Len(c) /\ p + k <= Len(c)
  BY <1>1, SiteIs DEF Sited
<1>3. p + 1 \in DOMAIN c /\ p + 2 \in DOMAIN c
  BY <1>2
<1>4. LikeItself(R, c[p + 1].code)
  BY <1>2, <1>3, LikeItselfWithin
<1>5. IsLambda(c[p + 2]) => LikeItself(R, c[p + 2].code)
  BY <1>3, LikeItselfWithin
<1>6. ASSUME NEW q \in Nat, InPart(e, b, q), NEW i \in 1 .. Len(e.code) + 1
      PROVE  /\ InPart(To(e, i), To(b, q + i), q)
             /\ To(e, i).code = e.code /\ To(e, i).at = i
             /\ To(e, i).phase = e.phase /\ To(e, i).lambdas = e.lambdas
             /\ To(b, q + i).code = b.code
  <2>1. Len(e.code) \in Nat
    <3>1. Good(e.code)
      BY <1>6 DEF InPart, Within
    <3> QED BY <3>1, GoodIndices
  <2>2. i \in Nat /\ q + i \in Nat
    BY <2>1
  <2>3. PICK f, g, n : f = To(e, i) /\ g = To(b, q + i) /\ n = q + i
    OBVIOUS
  <2>4. /\ f.code = e.code /\ f.at = i /\ f.phase = e.phase /\ f.lambdas = e.lambdas
        /\ g.code = b.code /\ g.at = n
    BY <2>2, <2>3, ToIs
  <2>5. InPart(f, g, q)
    BY <1>6, <2>3, <2>4 DEF InPart
  <2> QED BY <2>3, <2>4, <2>5
<1>7. CASE ExecSite(c, b.code, p, k, z) /\ Calls(c, p, e) /\ InPart(e, b, p)
  <2>1. ASSUME NEW i \in 1 .. Len(e.code) + 1
        PROVE  \E h : Inside(c, To(e, i), To(b, p + i), p, k, z, h)
    <3>1. PICK f, g : f = To(e, i) /\ g = To(b, p + i)
      OBVIOUS
    <3>2. InPart(f, g, p) /\ f.code = e.code /\ f.phase = e.phase /\ g.code = b.code
      BY <1>2, <1>6, <1>7, <3>1
    <3>3. Calls(c, p, f)
      BY <1>7, <3>2 DEF Calls
    <3>4. Inside(c, f, g, p, k, z, IF f.at = Len(f.code) + 1 THEN 1 ELSE 0)
      BY <1>7, <3>2, <3>3 DEF Inside
    <3> QED BY <3>1, <3>4
  <2>2. LikeItself(R, e.code)
    BY <1>4, <1>7 DEF Calls
  <2> QED BY <1>7, <2>1, <2>2 DEF PartOf
<1>8. CASE CondSite(c, b.code, p, k, z) /\ Calls(c, p, e) /\ InPart(e, b, p + 1)
  <2>0. PICK q \in Nat : q = p + 1
    BY <1>2
  <2>1. ASSUME NEW i \in 1 .. Len(e.code) + 1
        PROVE  \E h : Inside(c, To(e, i), To(b, q + i), p, k, z, h)
    <3>1. PICK f, g : f = To(e, i) /\ g = To(b, q + i)
      OBVIOUS
    <3>2. InPart(f, g, q) /\ f.code = e.code /\ f.phase = e.phase /\ g.code = b.code
      BY <2>0, <1>6, <1>8, <3>1
    <3>3. Calls(c, p, f)
      BY <1>8, <3>2 DEF Calls
    <3>4. Inside(c, f, g, p, k, z, IF f.at = Len(f.code) + 1 THEN 2 ELSE 0)
      BY <1>8, <2>0, <3>2, <3>3 DEF Inside
    <3> QED BY <3>1, <3>4
  <2>2. LikeItself(R, e.code)
    BY <1>4, <1>8 DEF Calls
  <2> QED BY <1>8, <2>0, <2>1, <2>2 DEF PartOf
<1>9. CASE WhileSite(c, b.code, p, k, z) /\ Loops(c, p, e, "cond") /\ InPart(e, b, p + 1)
  <2>0. PICK q \in Nat : q = p + 1
    BY <1>2
  <2>1. ASSUME NEW i \in 1 .. Len(e.code) + 1
        PROVE  \E h : Inside(c, To(e, i), To(b, q + i), p, k, z, h)
    <3>1. PICK f, g : f = To(e, i) /\ g = To(b, q + i)
      OBVIOUS
    <3>2. /\ InPart(f, g, q) /\ f.code = e.code /\ f.phase = e.phase
          /\ f.lambdas = e.lambdas /\ g.code = b.code
      BY <2>0, <1>6, <1>9, <3>1
    <3>3. Loops(c, p, f, "cond")
      BY <1>9, <3>2 DEF Loops
    <3>4. Inside(c, f, g, p, k, z, 0)
      BY <1>9, <2>0, <3>2, <3>3 DEF Inside
    <3> QED BY <3>1, <3>4
  <2>2. LikeItself(R, e.code)
    BY <1>4, <1>9 DEF Loops
  <2> QED BY <1>9, <2>0, <2>1, <2>2 DEF PartOf
<1>10. CASE /\ WhileSite(c, b.code, p, k, z) /\ Loops(c, p, e, "body")
            /\ InPart(e, b, p + 2 + Len(c[p + 1].code))
  <2>0. PICK q \in Nat : q = p + 2 + Len(c[p + 1].code)
    BY <1>10 DEF InPart, Within
  <2>1. ASSUME NEW i \in 1 .. Len(e.code) + 1
        PROVE  \E h : Inside(c, To(e, i), To(b, q + i), p, k, z, h)
    <3>1. PICK f, g : f = To(e, i) /\ g = To(b, q + i)
      OBVIOUS
    <3>2. /\ InPart(f, g, q) /\ f.code = e.code /\ f.phase = e.phase
          /\ f.lambdas = e.lambdas /\ g.code = b.code
      BY <2>0, <1>6, <1>10, <3>1
    <3>3. Loops(c, p, f, "body")
      BY <1>10, <3>2 DEF Loops
    <3>4. Inside(c, f, g, p, k, z, 0)
      BY <1>10, <2>0, <3>2, <3>3 DEF Inside
    <3> QED BY <3>1, <3>4
  <2>2. LikeItself(R, e.code)
    BY <1>5, <1>10 DEF Loops, WhileSite
  <2> QED BY <1>10, <2>0, <2>1, <2>2 DEF PartOf
<1> QED BY <1>7, <1>8, <1>9, <1>10 DEF Inside

\* Both machines are at a node of what was put in.
LEMMA InsideGoesOn ==
  ASSUME NEW R, Justified(R), NEW s, NEW t, StacksAlike(R, s, t),
         NEW x, NEW y, NEW g, FramesAlike(R, x, y, g),
         NEW a, NEW b, KeptAlike(R, a, b), LikeItself(R, a.code),
         NEW e, IsFrame(e), NEW p, NEW k, NEW z, a.at = p + k + 1,
         NEW q, PartOf(R, a.code, e, b, p, k, z, q), e.at \in DOMAIN e.code,
         NEW m, m = Running(s, Append(Append(x, a), e)),
         NEW w, w = Running(t, Append(y, b)), NEW r
  PROVE  GoesOn(R, m, w, r)
<1>1. IsSeq(x) /\ IsSeq(y) /\ IsFrame(a) /\ IsFrame(b)
  BY FramesSeqs DEF KeptAlike
<1>2. PICK u : u = Append(x, a)
  OBVIOUS
<1>3. IsSeq(u)
  <2>1. Appended(u, x, a)
    BY <1>1, <1>2, AppendIs
  <2> QED BY <2>1 DEF Appended
<1>4. PICK c, d, i : c = e.code /\ d = b.code /\ i = e.at
  OBVIOUS
<1>5. Within(d, c, q) /\ b.at = q + i /\ LikeItself(R, c)
  BY <1>4 DEF PartOf, InPart
<1>6. /\ IsSeq(c) /\ Len(c) \in Nat /\ DOMAIN c = 1 .. Len(c) /\ IsSeq(d) /\ q \in Nat
  BY <1>5, GoodIndices DEF Within
<1>7. /\ q + i \in DOMAIN d /\ d[q + i] = c[i] /\ i \in Nat
      /\ c[i].op \in Branches =>
           \E j \in 1 .. Len(c) : /\ Targets(c, c[i].label) = {j}
                                  /\ Targets(d, c[i].label) = {q + j}
  <2>1. StandsIn(d, c, q, i)
    BY <1>4, <1>5, InnerNode
  <2> QED BY <2>1 DEF StandsIn
<1>8. ASSUME NEW j \in 1 .. Len(c) + 1
      PROVE  \E h : FramesAlike(R, Append(u, To(e, j)), Append(y, To(b, q + j)), h)
  <2>1. PICK h : Inside(a.code, To(e, j), To(b, q + j), p, k, z, h)
    BY <1>4 DEF PartOf
  <2>2. j \in Nat /\ q + j \in Nat
    BY <1>6
  <2>3. PICK f, v : f = To(e, j) /\ v = To(b, q + j)
    OBVIOUS
  <2>4. /\ IsFrame(f) /\ IsFrame(v) /\ v.code = b.code /\ v.phase = b.phase
        /\ v.lambdas = b.lambdas
    BY <1>1, <2>2, <2>3, ToIs
  <2>5. TwoForOne(R, a, f, v, h)
    BY <2>1, <2>3, <2>4, TwoMade
  <2> QED BY <1>2, <2>3, <2>5, FramesTwo
<1>9. PICK h : FramesAlike(R, Append(u, To(e, i + 1)), Append(y, To(b, q + (i + 1))), h)
  <2>1. i + 1 \in 1 .. Len(c) + 1
    BY <1>4, <1>6
  <2> QED BY <1>8, <2>1
<1>10. q + (i + 1) = b.at + 1 /\ i + 1 = e.at + 1 /\ b.at \in DOMAIN b.code
       /\ i + 1 \in Nat /\ b.at + 1 \in Nat
  BY <1>4, <1>5, <1>6, <1>7
<1>11. PICK n : n = c[i]
  OBVIOUS
<1>12. ASSUME n.op \in Branches
       PROVE  JumpsAlike(R, Append(u, To(e, e.at + 1)), Append(y, To(b, b.at + 1)), n, n)
  <2>1. PICK j \in 1 .. Len(c) : /\ Targets(c, n.label) = {j}
                                 /\ Targets(d, n.label) = {q + j}
    BY <1>7, <1>11, <1>12
  <2>2. j \in Nat /\ q + j \in Nat /\ j \in 1 .. Len(c) + 1
    BY <1>6
  <2>3. PICK l : l = q + j
    OBVIOUS
  <2>4. Aims(e, b, n, n, j, l)
    BY <1>4, <2>1, <2>2, <2>3 DEF Aims
  <2>5. PICK v : FramesAlike(R, Append(u, To(e, j)), Append(y, To(b, l)), v)
    BY <1>8, <2>2, <2>3
  <2>6. e.at + 1 \in Nat /\ b.at + 1 \in Nat
    BY <1>10
  <2> QED BY <1>1, <1>3, <2>4, <2>5, <2>6, AimedAlike
<1>13. NodesAlike(R, n, n)
  BY <1>4, <1>5, <1>11 DEF LikeItself
<1>14. /\ n = e.code[e.at] /\ n = b.code[b.at] /\ IsSeq(e.code) /\ IsSeq(b.code)
  BY <1>4, <1>5, <1>6, <1>7, <1>11
<1>15. FramesAlike(R, Append(u, To(e, e.at + 1)), Append(y, To(b, b.at + 1)), h)
  BY <1>9, <1>10
<1>16. m = Running(s, Append(u, e))
  BY <1>2
<1> QED BY <1>1, <1>3, <1>10, <1>12, <1>13, <1>14, <1>15, <1>16, NodeStep

-----------------------------------------------------------------------------
(* The end of what was put in, and the top of a loop.                      *)

\* A label that a node of a good code is the target of.
LEMMA TargetFound ==
  ASSUME NEW d, Good(d), NEW l, NEW i, i \in DOMAIN d,
         d[i] = Labelled("branch_target", l)
  PROVE  Targets(d, l) = {i}
<1>1. i \in Targets(d, l)
  BY DEF Targets
<1> QED BY <1>1, UniqueTarget

\* Where the activation under the lambda goes on.
Goes(m, w, s, t, x, y, a, e, b) ==
  /\ m = Running(s, Append(Append(x, a), e)) /\ w = Running(t, Append(y, b))

\* A lambda that was called has come to its end.
LEMMA CallEndGoesOn ==
  ASSUME NEW R, NEW s, NEW t, StacksAlike(R, s, t),
         NEW x, NEW y, NEW g, FramesAlike(R, x, y, g),
         NEW a, NEW b, KeptAlike(R, a, b), LikeItself(R, a.code),
         NEW e, IsFrame(e), NEW p, NEW k, NEW z, a.at = p + k + 1,
         NEW q, InPart(e, b, q), Calls(a.code, p, e), e.at = Len(e.code) + 1, NEW r,
         \/ ExecSite(a.code, b.code, p, k, z) /\ q = p /\ r = 1
         \/ CondSite(a.code, b.code, p, k, z) /\ q = p + 1 /\ r = 2,
         NEW m, NEW w, Goes(m, w, s, t, x, y, a, e, b)
  PROVE  GoesOn(R, m, w, r)
<1>1. IsSeq(x) /\ IsSeq(y) /\ IsFrame(a) /\ IsFrame(b)
  BY FramesSeqs DEF KeptAlike
<1>2. PICK u : u = Append(x, a)
  OBVIOUS
<1>3. IsSeq(u)
  <2>1. Appended(u, x, a)
    BY <1>1, <1>2, AppendIs
  <2> QED BY <2>1 DEF Appended
<1>4. Site(a.code, b.code, p, k, z)
  BY DEF Site
<1>5. /\ p \in Nat /\ k \in Nat /\ z \in Nat /\ k >= 2
      /\ Len(a.code) \in Nat /\ p + k <= Len(a.code)
  BY <1>4, SiteIs DEF Sited
<1>6. b.at = q + e.at /\ Len(e.code) \in Nat /\ e.code = a.code[p + 1].code
  BY GoodIndices DEF InPart, Within, Calls
<1>12. PICK n, i, j, o : /\ n \in Nat
                      /\ n = Len(e.code) /\ i = a.at /\ j = b.at /\ o = Len(a.code)
  BY <1>6
<1>13. i = p + k + 1 /\ j = q + (n + 1) /\ e.at = n + 1 /\ o \in Nat /\ p + k <= o
  BY <1>5, <1>6, <1>12
<1>7. Stepped(m) = Running(s, u)
  <2>1. e.at > Len(e.code)
    BY <1>12, <1>13
  <2>2. m = Running(s, Append(u, e))
    BY <1>2 DEF Goes
  <2>3. EndsPart(Stepped(m), s, u, e)
    BY <1>3, <2>1, <2>2, StepAtEnd
  <2>4. e.phase = "call"
    BY DEF Calls
  <2> QED BY <2>3, <2>4 DEF EndsPart
<1>8. m.ended = "no" /\ w.ended = "no"
  BY DEF Running, Goes
<1>9. w = Running(t, Append(y, b))
  BY DEF Goes
<1>10. CASE ExecSite(a.code, b.code, p, k, z) /\ q = p /\ r = 1
  <2>1. z = n /\ q = p
    BY <1>6, <1>10, <1>12 DEF ExecSite
  <2>3. i \in 1 .. o + 1 /\ i >= p + k + 1 /\ j = (i - k) + z /\ i # p + 1
    BY <1>5, <1>13, <2>1
  <2>4. Outside(a, b, p, k, z, 0)
    BY <1>12, <2>3 DEF Outside, Places
  <2>5. OneForOne(R, a, b, 0)
    BY <1>4, <2>4 DEF OneForOne
  <2>6. FramesAlike(R, u, Append(y, b), 0)
    BY <1>2, <2>5, FramesOne
  <2>7. Simulates(R, Stepped(m), w, 0)
    BY <1>7, <1>9, <2>6, RunAlike
  <2> QED BY <1>8, <1>10, <2>7, LeftStep
<1>11. CASE CondSite(a.code, b.code, p, k, z) /\ q = p + 1 /\ r = 2
  <2>1. z = n + 2 /\ q = p + 1
    BY <1>6, <1>11, <1>12 DEF CondSite
  <2>2. j = p + z /\ z > 0
    <3>1. /\ n \in Nat /\ p \in Nat /\ j = q + (n + 1) /\ q = p + 1 /\ z = n + 2
      BY <1>5, <1>12, <1>13, <2>1
    <3>2. j = p + (n + 2)
      BY <3>1
    <3> QED BY <3>1, <3>2
  <2>3. b.code[p + z].op = "branch_target"
    BY <1>11 DEF CondSite, Labelled, Node
  <2>4. Landing(a, b, p, k, z, 1)
    BY <1>12, <2>2, <2>3 DEF Landing
  <2>5. OneForOne(R, a, b, 1)
    BY <1>4, <2>4 DEF OneForOne
  <2>6. FramesAlike(R, u, Append(y, b), 1)
    BY <1>2, <2>5, FramesOne
  <2>7. Simulates(R, Stepped(m), w, 1)
    BY <1>7, <1>9, <2>6, RunAlike
  <2> QED BY <1>8, <1>11, <2>7, LeftStep
<1> QED BY <1>10, <1>11

\* What there is to know of the site of a loop.
LoopSited(c, d, p, k, z, l, h) ==
  /\ Sited(c, d, p, k, z) /\ k = 3 /\ IsLambda(c[p + 2]) /\ Good(d)
  /\ Len(c[p + 1].code) \in Nat /\ Len(c[p + 2].code) \in Nat
  /\ z = Len(c[p + 1].code) + Len(c[p + 2].code) + 4
  /\ Within(d, c[p + 1].code, p + 1)
  /\ Within(d, c[p + 2].code, p + 2 + Len(c[p + 1].code))
  /\ d[p + 1] = Labelled("branch_target", l)
  /\ d[p + 2 + Len(c[p + 1].code)] = Labelled("branch_if_false", h)
  /\ d[p + z - 1] = Labelled("branch", l) /\ d[p + z] = Labelled("branch_target", h)
  /\ Targets(d, l) = {p + 1} /\ Targets(d, h) = {p + z}

\* A loop that is put in has such branches and targets.
LEMMA LoopSiteIs ==
  ASSUME NEW c, NEW d, NEW p, NEW k, NEW z, WhileSite(c, d, p, k, z)
  PROVE  \E l, h : LoopSited(c, d, p, k, z, l, h)
<1>1. Sited(c, d, p, k, z)
  BY SiteIs DEF Site
<1>2. /\ p \in Nat /\ z \in Nat /\ k = 3 /\ Len(c) \in Nat
      /\ Len(d) \in Nat /\ DOMAIN d = 1 .. Len(d)
      /\ p + k <= Len(c) /\ Len(d) = (Len(c) - k) + z
  BY <1>1 DEF Sited, WhileSite
<1>3. /\ Good(d) /\ Len(c[p + 1].code) \in Nat /\ Len(c[p + 2].code) \in Nat
  BY GoodIndices DEF WhileSite, Within
<1>4. PICK l, h : /\ d[p + 1] = Labelled("branch_target", l)
                  /\ d[p + 2 + Len(c[p + 1].code)] = Labelled("branch_if_false", h)
                  /\ d[p + z - 1] = Labelled("branch", l)
                  /\ d[p + z] = Labelled("branch_target", h)
  BY DEF WhileSite
<1>5. z = Len(c[p + 1].code) + Len(c[p + 2].code) + 4
  BY DEF WhileSite
<1>6. p + 1 \in DOMAIN d /\ p + z \in DOMAIN d
  <2>1. PICK n \in Nat, o \in Nat, f \in Nat, v \in Nat :
          /\ n = Len(c[p + 1].code) /\ o = Len(c[p + 2].code)
          /\ f = Len(c) /\ v = Len(d)
    BY <1>2, <1>3
  <2>2. z = n + o + 4 /\ p + k <= f /\ v = (f - k) + z /\ k = 3 /\ p \in Nat
    BY <1>2, <1>5, <2>1
  <2>3. p + 1 \in 1 .. v /\ p + z \in 1 .. v
    BY <2>2
  <2> QED BY <1>2, <2>1, <2>3
<1>7. Targets(d, l) = {p + 1} /\ Targets(d, h) = {p + z}
  BY <1>3, <1>4, <1>6, TargetFound
<1> QED BY <1>1, <1>2, <1>3, <1>4, <1>5, <1>7 DEF LoopSited, WhileSite

\* The activation of a part of a loop.
LEMMA LoopPartIs ==
  ASSUME NEW c, NEW p, NEW phase \in {"cond", "body"},
         NEW f, f = LoopPart(phase, c[p + 1], c[p + 2])
  PROVE  IsFrame(f) /\ f.at = 1 /\ Loops(c, p, f, phase)
<1>1. /\ f.code = (IF phase = "cond" THEN c[p + 1].code ELSE c[p + 2].code)
      /\ f.at = 1 /\ f.phase = phase /\ f.lambdas = <<c[p + 1], c[p + 2]>>
  BY DEF LoopPart
<1>2. f = Frame(f.code, f.at, f.phase, f.lambdas)
  BY DEF LoopPart, Frame
<1>3. f.lambdas[1] = c[p + 1] /\ f.lambdas[2] = c[p + 2]
  BY <1>1
<1> QED BY <1>1, <1>2, <1>3 DEF IsFrame, Loops

\* The end of the body of a loop: the one begins the condition again, the other
\* branches to the target before it.
LEMMA BodyEndGoesOn ==
  ASSUME NEW R, NEW s, NEW t, StacksAlike(R, s, t),
         NEW x, NEW y, NEW g, FramesAlike(R, x, y, g),
         NEW a, NEW b, KeptAlike(R, a, b), LikeItself(R, a.code),
         NEW e, IsFrame(e), NEW p, NEW k, NEW z, a.at = p + k + 1,
         WhileSite(a.code, b.code, p, k, z), Loops(a.code, p, e, "body"),
         InPart(e, b, p + 2 + Len(a.code[p + 1].code)), e.at = Len(e.code) + 1,
         NEW m, NEW w, Goes(m, w, s, t, x, y, a, e, b), NEW r
  PROVE  GoesOn(R, m, w, r)
<1>1. IsSeq(x) /\ IsSeq(y) /\ IsFrame(a) /\ IsFrame(b)
  BY FramesSeqs DEF KeptAlike
<1>2. PICK u : u = Append(x, a)
  OBVIOUS
<1>3. IsSeq(u)
  <2>1. Appended(u, x, a)
    BY <1>1, <1>2, AppendIs
  <2> QED BY <2>1 DEF Appended
<1>4. PICK c, d : c = a.code /\ d = b.code
  OBVIOUS
<1>5. PICK l, h : LoopSited(c, d, p, k, z, l, h)
  BY <1>4, LoopSiteIs
<1>6. /\ p \in Nat /\ z \in Nat /\ IsSeq(d) /\ DOMAIN d = 1 .. Len(d)
      /\ Len(c) \in Nat /\ k = 3 /\ p + k <= Len(c) /\ Len(d) = (Len(c) - k) + z
      /\ Len(c[p + 1].code) \in Nat /\ Len(c[p + 2].code) \in Nat
      /\ z = Len(c[p + 1].code) + Len(c[p + 2].code) + 4
  BY <1>5 DEF LoopSited, Sited
<1>7. e.code = c[p + 2].code /\ e.phase = "body"
      /\ e.lambdas[1] = c[p + 1] /\ e.lambdas[2] = c[p + 2]
  BY <1>4 DEF Loops
<1>8. b.at = p + 2 + Len(c[p + 1].code) + e.at
  BY <1>4 DEF InPart
<1>9. b.at = p + z - 1 /\ b.at \in DOMAIN d /\ b.at + 1 \in Nat /\ p + 1 \in Nat
      /\ e.at > Len(e.code)
  <2>1. PICK n, o, j, q :
          /\ n \in Nat /\ o \in Nat /\ n = Len(c[p + 1].code) /\ o = Len(c[p + 2].code)
          /\ j = b.at /\ q = Len(c)
    BY <1>6
  <2>2. PICK ld : ld = Len(d)
    OBVIOUS
  <2>3. /\ z = n + o + 4 /\ p + k <= q /\ ld = (q - k) + z /\ k = 3 /\ p \in Nat
        /\ q \in Nat /\ j = p + 2 + n + (o + 1) /\ e.at = o + 1 /\ Len(e.code) = o
    BY <1>6, <1>7, <1>8, <2>1, <2>2
  <2>4. j = p + z - 1 /\ j \in 1 .. ld /\ j + 1 \in Nat /\ p + 1 \in Nat /\ o + 1 > o
    <3>1. n \in Nat /\ o \in Nat /\ p \in Nat /\ q \in Nat
      BY <2>1, <2>3
    <3>2. j = p + n + o + 3 /\ z = n + o + 4
      BY <2>3, <3>1
    <3>3. ld = (q - 3) + (n + o + 4) /\ p + 3 <= q
      BY <2>3, <3>1
    <3> QED BY <3>1, <3>2, <3>3
  <2> QED BY <1>6, <2>1, <2>2, <2>3, <2>4
<1>10. PICK f : f = LoopPart("cond", c[p + 1], c[p + 2])
  OBVIOUS
<1>11. Stepped(m) = Running(s, Append(u, f))
  <2>1. e.at > Len(e.code)
    BY <1>9
  <2>2. m = Running(s, Append(u, e))
    BY <1>2 DEF Goes
  <2>3. EndsPart(Stepped(m), s, u, e)
    BY <1>3, <2>1, <2>2, StepAtEnd
  <2> QED BY <1>7, <1>10, <2>3 DEF EndsPart
<1>12. PICK v, j : v = To(b, b.at + 1) /\ j = p + 1
  OBVIOUS
<1>13. IsFrame(v) /\ v.code = d /\ \A i : To(v, i) = To(b, i)
  <2>1. b.at + 1 \in Nat
    BY <1>9
  <2> QED BY <1>1, <1>4, <1>12, <2>1, ToIs
<1>14. Stepped(w) = Instructed(Running(t, Append(y, v)), d[b.at])
  <2>1. w = Running(t, Append(y, b))
    BY DEF Goes
  <2> QED BY <1>1, <1>4, <1>6, <1>9, <1>12, <2>1, StepAtNode
<1>15. d[b.at].op = "branch" /\ d[b.at].label = l
  <2>1. d[p + z - 1] = Labelled("branch", l)
    BY <1>5 DEF LoopSited
  <2>2. d[b.at] = Labelled("branch", l)
    BY <1>9, <2>1
  <2> QED BY <2>2 DEF Labelled, Node
<1>16. Stepped(w) = Jumped(Running(t, Append(y, v)), l)
  BY <1>14, <1>15 DEF Instructed, Constant
<1>17. Stepped(w) = Running(t, Append(y, To(b, j)))
  <2>1. PICK T : T = Targets(v.code, l)
    OBVIOUS
  <2>2. T = {j} /\ T # {} /\ T \subseteq Nat
    BY <1>5, <1>6, <1>12, <1>13, <2>1 DEF LoopSited
  <2>3. (CHOOSE i \in T : TRUE) = j
    BY <2>2
  <2>4. PICK n : n = Running(t, Append(y, v))
    OBVIOUS
  <2>5. JumpsTo(n, l, t, y, v, T)
    BY <1>1, <1>13, <2>1, <2>2, <2>4, JumpedIs
  <2>6. Jumped(n, l) = Running(t, Append(y, To(v, CHOOSE i \in T : TRUE)))
    BY <2>2, <2>5 DEF JumpsTo
  <2> QED BY <1>13, <1>16, <2>3, <2>4, <2>6
<1>18. PICK o : o = To(b, j)
  OBVIOUS
<1>19. /\ IsFrame(o) /\ o.code = b.code /\ o.at = p + 1
       /\ o.phase = b.phase /\ o.lambdas = b.lambdas
  <2>1. j \in Nat
    BY <1>6, <1>12
  <2> QED BY <1>1, <1>12, <1>18, <2>1, ToIs
<1>20. IsFrame(f) /\ f.at = 1 /\ Loops(c, p, f, "cond")
  BY <1>10, LoopPartIs
<1>21. AtTop(a.code, f, o, p, k, z, 1)
  BY <1>4, <1>19, <1>20 DEF AtTop
<1>22. TwoForOne(R, a, f, o, 1)
  BY <1>19, <1>20, <1>21, TwoMade
<1>23. FramesAlike(R, Append(u, f), Append(y, o), 1)
  BY <1>2, <1>22, FramesTwo
<1>24. AgreeNext(R, Stepped(m), Stepped(w))
  BY <1>11, <1>17, <1>18, <1>23, RunAlike DEF AgreeNext
<1>25. m.ended = "no" /\ w.ended = "no"
  BY DEF Running, Goes
<1> QED BY <1>24, <1>25, JointStep

\* What a branch on a condition does, if its target is j.
BranchesTo(o, t, y, b, j) ==
  /\ t = << >> => HasAborted(o)
  /\ t # << >> /\ Truthy(Last(t)) =>
       o = Running(Front(t), Append(y, To(b, b.at + 1)))
  /\ t # << >> /\ ~Truthy(Last(t)) => o = Running(Front(t), Append(y, To(b, j)))

\* A branch on a condition goes to its target, or on.
LEMMA BranchStep ==
  ASSUME NEW y, IsSeq(y), NEW b, IsFrame(b), NEW t, IsSeq(b.code),
         b.at \in DOMAIN b.code, NEW h, b.code[b.at] = Labelled("branch_if_false", h),
         NEW j \in Nat, Targets(b.code, h) = {j}, NEW w, w = Running(t, Append(y, b))
  PROVE  BranchesTo(Stepped(w), t, y, b, j)
<1>1. PICK v, n, i : v = To(b, b.at + 1) /\ n = b.code[b.at] /\ i = b.at
  OBVIOUS
<1>2. IsFrame(v) /\ v.code = b.code /\ \A k : To(v, k) = To(b, k)
  <2>1. i \in 1 .. Len(b.code) /\ Len(b.code) \in Nat
    BY <1>1, SeqIndices
  <2>2. i + 1 \in Nat
    BY <2>1
  <2> QED BY <1>1, <2>2, ToIs
<1>3. n.op = "branch_if_false" /\ n.label = h
  BY <1>1 DEF Labelled, Node
<1>4. PICK f : f = Running(t, Append(y, v))
  OBVIOUS
<1>5. Stepped(w) = Instructed(f, n)
  BY <1>1, <1>4, StepAtNode
<1>6. Stepped(w) = BranchIfFalse(f, h)
  BY <1>3, <1>5 DEF Instructed, Constant
<1>7. f.stack = t /\ Popped(f) = Running(Front(t), Append(y, v)) /\ HasAborted(Aborted(f))
  <2>1. Runs(f, t, Append(y, v))
    BY <1>4, MachineIs
  <2> QED BY <2>1 DEF Runs
<1>8. Jumped(Popped(f), h) = Running(Front(t), Append(y, To(b, j)))
  <2>1. PICK T : T = Targets(v.code, h)
    OBVIOUS
  <2>2. T = {j} /\ T # {} /\ T \subseteq Nat
    BY <1>2, <2>1
  <2>3. (CHOOSE k \in T : TRUE) = j
    BY <2>2
  <2>4. PICK g : g = Running(Front(t), Append(y, v))
    OBVIOUS
  <2>5. JumpsTo(g, h, Front(t), y, v, T)
    BY <1>2, <2>1, <2>2, <2>4, JumpedIs
  <2>6. Jumped(g, h) = Running(Front(t), Append(y, To(v, CHOOSE k \in T : TRUE)))
    BY <2>2, <2>5 DEF JumpsTo
  <2> QED BY <1>2, <1>7, <2>3, <2>4, <2>6
<1>9. CASE t = << >>
  <2>1. Stepped(w) = Aborted(f)
    BY <1>6, <1>7, <1>9 DEF BranchIfFalse
  <2> QED BY <1>7, <1>9, <2>1 DEF BranchesTo
<1>10. CASE t # << >> /\ Truthy(Last(t))
  <2>1. Stepped(w) = Popped(f)
    BY <1>6, <1>7, <1>10 DEF BranchIfFalse
  <2> QED BY <1>1, <1>7, <1>10, <2>1 DEF BranchesTo
<1>11. CASE t # << >> /\ ~Truthy(Last(t))
  <2>1. Stepped(w) = Jumped(Popped(f), h)
    BY <1>6, <1>7, <1>11 DEF BranchIfFalse
  <2> QED BY <1>8, <1>11, <2>1 DEF BranchesTo
<1> QED BY <1>9, <1>10, <1>11

\* The activation under the lambda lands behind what was put in.
LEMMA LandsAlike ==
  ASSUME NEW R, NEW x, NEW y, NEW g, FramesAlike(R, x, y, g),
         NEW a, NEW b, KeptAlike(R, a, b), LikeItself(R, a.code),
         NEW p, NEW k, NEW z, Site(a.code, b.code, p, k, z), a.at = p + k + 1,
         z > 0, b.code[p + z].op = "branch_target"
  PROVE  FramesAlike(R, Append(x, a), Append(y, To(b, p + z)), 1)
<1>1. IsFrame(b) /\ IsFrame(a)
  BY DEF KeptAlike
<1>2. p \in Nat /\ z \in Nat
  BY SiteIs DEF Sited
<1>3. PICK j \in Nat : j = p + z
  BY <1>2
<1>4. PICK v : v = To(b, j)
  OBVIOUS
<1>5. /\ IsFrame(v) /\ v.code = b.code /\ v.at = j
      /\ v.phase = b.phase /\ v.lambdas = b.lambdas
  BY <1>1, <1>4, ToIs
<1>6. KeptAlike(R, a, v)
  BY <1>5 DEF KeptAlike
<1>7. Landing(a, v, p, k, z, 1)
  BY <1>3, <1>5 DEF Landing
<1>8. Site(a.code, v.code, p, k, z)
  BY <1>5
<1>9. OneForOne(R, a, v, 1)
  BY <1>6, <1>7, <1>8 DEF OneForOne
<1> QED BY <1>3, <1>4, <1>9, FramesOne

\* The end of the condition of a loop.
LEMMA CondEndGoesOn ==
  ASSUME NEW R, NEW s, NEW t, StacksAlike(R, s, t),
         NEW x, NEW y, NEW g, FramesAlike(R, x, y, g),
         NEW a, NEW b, KeptAlike(R, a, b), LikeItself(R, a.code),
         NEW e, IsFrame(e), NEW p, NEW k, NEW z, a.at = p + k + 1,
         WhileSite(a.code, b.code, p, k, z), Loops(a.code, p, e, "cond"),
         InPart(e, b, p + 1), e.at = Len(e.code) + 1,
         NEW m, NEW w, Goes(m, w, s, t, x, y, a, e, b), NEW r
  PROVE  GoesOn(R, m, w, r)
<1>1. IsSeq(x) /\ IsSeq(y) /\ IsFrame(a) /\ IsFrame(b)
  BY FramesSeqs DEF KeptAlike
<1>2. PICK u : u = Append(x, a)
  OBVIOUS
<1>3. IsSeq(u)
  <2>1. Appended(u, x, a)
    BY <1>1, <1>2, AppendIs
  <2> QED BY <2>1 DEF Appended
<1>4. PICK c, d : c = a.code /\ d = b.code
  OBVIOUS
<1>5. PICK l, h : LoopSited(c, d, p, k, z, l, h)
  BY <1>4, LoopSiteIs
<1>6. /\ p \in Nat /\ z \in Nat /\ IsSeq(d) /\ DOMAIN d = 1 .. Len(d)
      /\ Len(c) \in Nat /\ k = 3 /\ p + k <= Len(c) /\ Len(d) = (Len(c) - k) + z
      /\ Len(c[p + 1].code) \in Nat /\ Len(c[p + 2].code) \in Nat
      /\ z = Len(c[p + 1].code) + Len(c[p + 2].code) + 4
  BY <1>5 DEF LoopSited, Sited
<1>7. e.code = c[p + 1].code /\ e.phase = "cond"
      /\ e.lambdas[1] = c[p + 1] /\ e.lambdas[2] = c[p + 2]
  BY <1>4 DEF Loops
<1>8. b.at = p + 1 + e.at
  BY <1>4 DEF InPart
<1>9. /\ b.at = p + 2 + Len(c[p + 1].code) /\ b.at \in DOMAIN d
      /\ b.at + 1 \in Nat /\ b.at + 1 = (p + 2 + Len(c[p + 1].code)) + 1
      /\ p + z \in Nat /\ z > 0 /\ e.at > Len(e.code)
  <2>1. PICK n, o, j, q :
          /\ n \in Nat /\ o \in Nat /\ n = Len(c[p + 1].code) /\ o = Len(c[p + 2].code)
          /\ j = b.at /\ q = Len(c)
    BY <1>6
  <2>2. PICK ld : ld = Len(d)
    OBVIOUS
  <2>3. /\ z = n + o + 4 /\ p + k <= q /\ ld = (q - k) + z /\ k = 3 /\ p \in Nat
        /\ q \in Nat /\ j = p + 1 + (n + 1) /\ e.at = n + 1 /\ Len(e.code) = n
    BY <1>6, <1>7, <1>8, <2>1, <2>2
  <2>4. n \in Nat /\ o \in Nat /\ p \in Nat /\ q \in Nat
    BY <2>1, <2>3
  <2>5. j = p + n + 2 /\ z = n + o + 4
    BY <2>3, <2>4
  <2>6. ld = (q - 3) + (n + o + 4) /\ p + 3 <= q
    BY <2>3, <2>4
  <2>7. /\ j = p + 2 + n /\ j \in 1 .. ld /\ j + 1 \in Nat /\ j + 1 = (p + 2 + n) + 1
        /\ p + z \in Nat /\ z > 0 /\ n + 1 > n
    BY <2>4, <2>5, <2>6
  <2> QED BY <1>6, <2>1, <2>2, <2>3, <2>7
<1>10. PICK f : f = LoopPart("body", c[p + 1], c[p + 2])
  OBVIOUS
<1>11. EndsPart(Stepped(m), s, u, e)
  <2>1. m = Running(s, Append(u, e))
    BY <1>2 DEF Goes
  <2> QED BY <1>3, <1>9, <2>1, StepAtEnd
<1>12. BranchesTo(Stepped(w), t, y, b, p + z)
  <2>1. w = Running(t, Append(y, b))
    BY DEF Goes
  <2>2. PICK j \in Nat : j = p + z
    BY <1>9
  <2>3. Targets(d, h) = {j} /\ d[b.at] = Labelled("branch_if_false", h)
    BY <1>5, <1>9, <2>2 DEF LoopSited
  <2> QED BY <1>1, <1>4, <1>6, <1>9, <2>1, <2>2, <2>3, BranchStep
<1>13. m.ended = "no" /\ w.ended = "no"
  BY DEF Running, Goes
<1>14. CASE s = << >> /\ t = << >>
  <2>1. HasAborted(Stepped(m)) /\ HasAborted(Stepped(w))
    BY <1>7, <1>11, <1>12, <1>14 DEF EndsPart, BranchesTo
  <2> QED BY <1>13, <2>1, AbortAlike, JointStep
<1>15. CASE PopsAlike(R, s, t)
  <2>1. /\ s # << >> /\ t # << >>
        /\ StacksAlike(R, Front(s), Front(t)) /\ NodesAlike(R, Last(s), Last(t))
    BY <1>15 DEF PopsAlike
  <2>2. Truthy(Last(s)) <=> Truthy(Last(t))
    BY <2>1, AlikeOps
  <2>3. CASE Truthy(Last(s))
    <3>1. Stepped(m) = Running(Front(s), Append(u, f))
      BY <1>7, <1>10, <1>11, <2>1, <2>3 DEF EndsPart
    <3>2. PICK j, v : j = b.at + 1 /\ v = To(b, j)
      OBVIOUS
    <3>3. Stepped(w) = Running(Front(t), Append(y, v))
      BY <1>12, <2>1, <2>2, <2>3, <3>2 DEF BranchesTo
    <3>4. /\ IsFrame(v) /\ v.code = d /\ v.at = j
          /\ v.phase = b.phase /\ v.lambdas = b.lambdas
      BY <1>1, <1>4, <1>9, <3>2, ToIs
    <3>5. IsFrame(f) /\ f.at = 1 /\ Loops(c, p, f, "body")
      BY <1>10, LoopPartIs
    <3>6. PICK q \in Nat : q = p + 2 + Len(c[p + 1].code)
      <4>1. PICK n : n = Len(c[p + 1].code)
        OBVIOUS
      <4>2. n \in Nat /\ p \in Nat
        BY <1>6, <4>1
      <4>3. p + 2 + n \in Nat
        BY <4>2
      <4> QED BY <4>1, <4>3
    <3>7. InPart(f, v, q)
      <4>1. Within(d, f.code, q)
        BY <1>5, <3>5, <3>6 DEF LoopSited, Loops
      <4>2. v.at = q + f.at
        BY <1>9, <3>2, <3>4, <3>5, <3>6
      <4>3. Len(f.code) \in Nat
        BY <4>1, GoodIndices DEF Within
      <4>4. f.at \in 1 .. Len(f.code) + 1
        BY <3>5, <4>3
      <4> QED BY <3>4, <4>1, <4>2, <4>4 DEF InPart
    <3>8. Inside(a.code, f, v, p, k, z, 0)
      BY <1>4, <3>4, <3>5, <3>6, <3>7 DEF Inside
    <3>9. TwoForOne(R, a, f, v, 0)
      BY <1>4, <3>4, <3>5, <3>8, TwoMade
    <3>10. FramesAlike(R, Append(u, f), Append(y, v), 0)
      BY <1>2, <3>9, FramesTwo
    <3>11. AgreeNext(R, Stepped(m), Stepped(w))
      BY <2>1, <3>1, <3>3, <3>10, RunAlike DEF AgreeNext
    <3> QED BY <1>13, <3>11, JointStep
  <2>4. CASE ~Truthy(Last(s))
    <3>1. Stepped(m) = Running(Front(s), u)
      BY <1>7, <1>11, <2>1, <2>4 DEF EndsPart
    <3>2. Stepped(w) = Running(Front(t), Append(y, To(b, p + z)))
      BY <1>12, <2>1, <2>2, <2>4 DEF BranchesTo
    <3>3. b.code[p + z].op = "branch_target"
      BY <1>4, <1>5 DEF LoopSited, Labelled, Node
    <3>4. FramesAlike(R, u, Append(y, To(b, p + z)), 1)
      BY <1>2, <1>9, <3>3, LandsAlike DEF Site
    <3>5. AgreeNext(R, Stepped(m), Stepped(w))
      BY <2>1, <3>1, <3>2, <3>4, RunAlike DEF AgreeNext
    <3> QED BY <1>13, <3>5, JointStep
  <2> QED BY <2>3, <2>4
<1> QED BY <1>14, <1>15, StacksPopped

\* The other machine passes the target at the top of a loop.
LEMMA TopGoesOn ==
  ASSUME NEW R, NEW s, NEW t, StacksAlike(R, s, t),
         NEW x, NEW y, NEW g, FramesAlike(R, x, y, g),
         NEW a, NEW b, KeptAlike(R, a, b), LikeItself(R, a.code),
         NEW e, IsFrame(e), NEW p, NEW k, NEW z, a.at = p + k + 1,
         NEW r, AtTop(a.code, e, b, p, k, z, r),
         NEW m, NEW w, Goes(m, w, s, t, x, y, a, e, b)
  PROVE  GoesOn(R, m, w, r)
<1>1. IsSeq(x) /\ IsSeq(y) /\ IsFrame(a) /\ IsFrame(b)
  BY FramesSeqs DEF KeptAlike
<1>2. PICK c, d : c = a.code /\ d = b.code
  OBVIOUS
<1>3. /\ WhileSite(c, d, p, k, z) /\ Loops(c, p, e, "cond")
      /\ e.at = 1 /\ b.at = p + 1 /\ r = 1
  BY <1>2 DEF AtTop
<1>4. PICK l, h : LoopSited(c, d, p, k, z, l, h)
  BY <1>3, LoopSiteIs
<1>5. /\ p \in Nat /\ IsSeq(d) /\ DOMAIN d = 1 .. Len(d) /\ Targets(d, l) = {p + 1}
      /\ d[p + 1] = Labelled("branch_target", l)
  BY <1>4 DEF LoopSited, Sited
<1>6. p + 1 \in DOMAIN d /\ p + 2 \in Nat /\ b.at + 1 = p + 2
  <2>1. p + 1 \in Targets(d, l)
    BY <1>5
  <2> QED BY <1>3, <1>5, <2>1 DEF Targets
<1>7. PICK v : v = To(b, p + 2)
  OBVIOUS
<1>8. Stepped(w) = Running(t, Append(y, v))
  <2>1. w = Running(t, Append(y, b))
    BY DEF Goes
  <2>2. Stepped(w) = Instructed(Running(t, Append(y, v)), d[p + 1])
    BY <1>1, <1>2, <1>3, <1>5, <1>6, <1>7, <2>1, StepAtNode
  <2>3. d[p + 1].op = "branch_target"
    BY <1>5 DEF Labelled, Node
  <2>4. Instructed(Running(t, Append(y, v)), d[p + 1]) = Running(t, Append(y, v))
    BY <2>3 DEF Instructed, Constant
  <2> QED BY <2>2, <2>4
<1>9. /\ IsFrame(v) /\ v.code = d /\ v.at = p + 2
      /\ v.phase = b.phase /\ v.lambdas = b.lambdas
  BY <1>1, <1>2, <1>6, <1>7, ToIs
<1>10. PICK q \in Nat : q = p + 1
  BY <1>5
<1>11. InPart(e, v, q)
  <2>1. Within(d, e.code, q)
    BY <1>3, <1>4, <1>10 DEF LoopSited, Loops
  <2>2. v.at = q + e.at
    BY <1>3, <1>5, <1>9, <1>10
  <2>3. Len(e.code) \in Nat
    BY <2>1, GoodIndices DEF Within
  <2>4. e.at \in 1 .. Len(e.code) + 1
    BY <1>3, <2>3
  <2> QED BY <1>9, <2>1, <2>2, <2>4 DEF InPart
<1>12. Inside(a.code, e, v, p, k, z, 0)
  BY <1>2, <1>3, <1>9, <1>10, <1>11 DEF Inside
<1>13. TwoForOne(R, a, e, v, 0)
  BY <1>2, <1>9, <1>12, TwoMade
<1>14. FramesAlike(R, Append(Append(x, a), e), Append(y, v), 0)
  BY <1>13, FramesTwo
<1>15. Simulates(R, m, Stepped(w), 0)
  BY <1>8, <1>14, RunAlike DEF Goes
<1>16. m.ended = "no" /\ w.ended = "no"
  BY DEF Running, Goes
<1> QED BY <1>3, <1>15, <1>16, RightStep

-----------------------------------------------------------------------------
(* Lambdas that are about to be called.                                    *)

\* What is known of both machines while one holds lambdas.
Holding(R, s, t, x, y, g, a, b, p, k, z, i) ==
  /\ StacksAlike(R, s, t) /\ FramesAlike(R, x, y, g)
  /\ KeptAlike(R, a, b) /\ LikeItself(R, a.code) /\ Site(a.code, b.code, p, k, z)
  /\ a.at = i /\ b.at = p + 1

\* The plain facts of it.
HoldingFacts(s, t, x, y, a, b, p, k, z) ==
  /\ IsSeq(s) /\ IsSeq(t) /\ IsSeq(x) /\ IsSeq(y) /\ IsFrame(a) /\ IsFrame(b)
  /\ p \in Nat /\ k \in Nat /\ z \in Nat /\ k >= 2
  /\ IsSeq(a.code) /\ Len(a.code) \in Nat /\ DOMAIN a.code = 1 .. Len(a.code)
  /\ IsSeq(b.code) /\ Len(b.code) \in Nat /\ DOMAIN b.code = 1 .. Len(b.code)
  /\ p + k <= Len(a.code) /\ Len(b.code) = (Len(a.code) - k) + z
  /\ IsLambda(a.code[p + 1])
  /\ p + 1 \in Nat /\ p + 2 \in Nat /\ p + 3 \in Nat /\ p + 4 \in Nat
  /\ p + 1 \in DOMAIN a.code /\ p + 2 \in DOMAIN a.code
  /\ k = 3 => p + 3 \in DOMAIN a.code

\* These follow.
LEMMA HoldingIs ==
  ASSUME NEW R, NEW s, NEW t, NEW x, NEW y, NEW g, NEW a, NEW b, NEW p, NEW k, NEW z,
         NEW i, Holding(R, s, t, x, y, g, a, b, p, k, z, i)
  PROVE  HoldingFacts(s, t, x, y, a, b, p, k, z)
<1>1. IsSeq(s) /\ IsSeq(t) /\ IsSeq(x) /\ IsSeq(y) /\ IsFrame(a) /\ IsFrame(b)
  BY FramesSeqs DEF Holding, StacksAlike, KeptAlike
<1>2. Sited(a.code, b.code, p, k, z)
  BY SiteIs DEF Holding
<1>3. PICK n : n = Len(a.code)
  OBVIOUS
<1>4. p \in Nat /\ k \in Nat /\ k >= 2 /\ n \in Nat /\ p + k <= n
  BY <1>2, <1>3 DEF Sited
<1>5. /\ p + 1 \in Nat /\ p + 2 \in Nat /\ p + 3 \in Nat /\ p + 4 \in Nat
      /\ p + 1 \in 1 .. n /\ p + 2 \in 1 .. n
      /\ k = 3 => p + 3 \in 1 .. n
  BY <1>4
<1> QED BY <1>1, <1>2, <1>3, <1>5 DEF Sited, HoldingFacts

\* A call.
LEMMA ActivationIs ==
  ASSUME NEW c, NEW f, f = Activation(c)
  PROVE  IsFrame(f) /\ f.code = c /\ f.at = 1 /\ f.phase = "call"
BY DEF Activation, IsFrame, Frame

\* The activation of a lambda that has been put in begins.
LEMMA BeginsInside ==
  ASSUME NEW d, NEW c, NEW q, Within(d, c, q), NEW f, f.code = c, f.at = 1,
         NEW b, b.code = d, b.at = q + 1
  PROVE  InPart(f, b, q)
<1>1. Len(c) \in Nat
  BY GoodIndices DEF Within
<1>2. 1 \in 1 .. Len(c) + 1
  BY <1>1
<1> QED BY <1>2 DEF InPart

\* `exec'.
LEMMA HeldExec ==
  ASSUME NEW R, NEW s, NEW t, NEW x, NEW y, NEW g, NEW a, NEW b, NEW p, NEW k, NEW z,
         Holding(R, s, t, x, y, g, a, b, p, k, z, p + 2),
         ExecSite(a.code, b.code, p, k, z),
         NEW m, m = Running(Append(s, a.code[p + 1]), Append(x, a)),
         NEW w, w = Running(t, Append(y, b))
  PROVE  GoesOn(R, m, w, 3)
<1>1. HoldingFacts(s, t, x, y, a, b, p, k, z)
  BY HoldingIs
<1>2. PICK n, f, v, o : /\ n = a.code[p + 1] /\ f = To(a, p + 3)
                        /\ v = Append(s, n) /\ o = Activation(n.code)
  OBVIOUS
<1>3. Appended(v, s, n)
  BY <1>1, <1>2, AppendIs DEF HoldingFacts
<1>4. v # << >> /\ Last(v) = n /\ Front(v) = s
  BY <1>3 DEF Appended
<1>5. a.at = p + 2 /\ b.at = p + 1 /\ (p + 2) + 1 = p + 3 /\ k = 2
  BY <1>1 DEF HoldingFacts, Holding, ExecSite
<1>6. PICK h : h = Running(v, Append(x, f))
  OBVIOUS
<1>7. Stepped(m) = Instructed(h, a.code[p + 2])
  BY <1>1, <1>2, <1>5, <1>6, StepAtNode DEF HoldingFacts
<1>8. Stepped(m) = Exec(h)
  <2>1. a.code[p + 2].op = "exec"
    BY DEF ExecSite
  <2> QED BY <1>7, <2>1 DEF Instructed, Constant
<1>9. h.stack = v /\ Popped(h) = Running(s, Append(x, f))
  <2>1. Runs(h, v, Append(x, f))
    BY <1>6, MachineIs
  <2> QED BY <1>4, <2>1 DEF Runs
<1>10. Stepped(m) = Running(s, Append(Append(x, f), o))
  <2>1. IsLambda(n)
    BY <1>1, <1>2 DEF HoldingFacts
  <2>2. Exec(h) = Entered(Popped(h), o)
    BY <1>2, <1>4, <1>9, <2>1 DEF Exec
  <2>3. Runs(Popped(h), s, Append(x, f))
    BY <1>9, MachineIs
  <2> QED BY <1>8, <2>2, <2>3 DEF Runs
<1>11. IsFrame(f) /\ f.code = a.code /\ f.at = p + 3
       /\ f.phase = a.phase /\ f.lambdas = a.lambdas
  BY <1>1, <1>2, ToIs DEF HoldingFacts
<1>12. KeptAlike(R, f, b) /\ LikeItself(R, f.code) /\ IsFrame(b)
  BY <1>11 DEF KeptAlike, Holding
<1>13. IsFrame(o) /\ o.code = n.code /\ o.at = 1 /\ o.phase = "call"
  BY <1>2, ActivationIs
<1>14. PICK r : r = IF o.at = Len(o.code) + 1 THEN 1 ELSE 0
  OBVIOUS
<1>15. Inside(f.code, o, b, p, k, z, r)
  <2>1. Calls(f.code, p, o)
    BY <1>2, <1>11, <1>13 DEF Calls
  <2>2. Within(b.code, n.code, p)
    BY <1>2 DEF ExecSite
  <2>3. InPart(o, b, p)
    BY <1>5, <1>13, <2>2, BeginsInside
  <2> QED BY <1>11, <1>14, <2>1, <2>3 DEF Inside
<1>16. f.at = p + k + 1
  BY <1>1, <1>5, <1>11 DEF HoldingFacts
<1>17. TwoForOne(R, f, o, b, r)
  BY <1>12, <1>13, <1>15, <1>16, TwoMade
<1>18. FramesAlike(R, Append(Append(x, f), o), Append(y, b), r)
  BY <1>17, FramesTwo DEF Holding
<1>19. Simulates(R, Stepped(m), w, r)
  BY <1>10, <1>18, RunAlike DEF Holding
<1>20. m.ended = "no" /\ w.ended = "no" /\ r < 3
  BY <1>14 DEF Running
<1> QED BY <1>19, <1>20, LeftStep

\* `cond_exec': the other machine branches at the same time.
LEMMA HeldCond ==
  ASSUME NEW R, NEW s, NEW t, NEW x, NEW y, NEW g, NEW a, NEW b, NEW p, NEW k, NEW z,
         Holding(R, s, t, x, y, g, a, b, p, k, z, p + 2),
         CondSite(a.code, b.code, p, k, z),
         NEW m, m = Running(Append(s, a.code[p + 1]), Append(x, a)),
         NEW w, w = Running(t, Append(y, b)), NEW r
  PROVE  GoesOn(R, m, w, r)
<1>1. HoldingFacts(s, t, x, y, a, b, p, k, z)
  BY HoldingIs
<1>2. PICK n, f, v, o : /\ n = a.code[p + 1] /\ f = To(a, p + 3)
                        /\ v = Append(s, n) /\ o = Activation(n.code)
  OBVIOUS
<1>3. Appended(v, s, n)
  BY <1>1, <1>2, AppendIs DEF HoldingFacts
<1>4. v # << >> /\ Last(v) = n /\ Front(v) = s /\ Len(v) = Len(s) + 1 /\ Len(s) \in Nat
  BY <1>3 DEF Appended
<1>5. a.at = p + 2 /\ b.at = p + 1 /\ (p + 2) + 1 = p + 3 /\ k = 2
  BY <1>1 DEF HoldingFacts, Holding, CondSite
<1>6. PICK h : h = Running(v, Append(x, f))
  OBVIOUS
<1>7. Stepped(m) = Instructed(h, a.code[p + 2])
  BY <1>1, <1>2, <1>5, <1>6, StepAtNode DEF HoldingFacts
<1>8. Stepped(m) = CondExec(h)
  <2>1. a.code[p + 2].op = "cond_exec"
    BY DEF CondSite
  <2> QED BY <1>7, <2>1 DEF Instructed, Constant
<1>9. h.stack = v /\ HasAborted(Aborted(h))
      /\ Popped(Popped(h)) = Running(Front(s), Append(x, f))
      /\ Entered(Popped(Popped(h)), o) = Running(Front(s), Append(Append(x, f), o))
  <2>1. Runs(h, v, Append(x, f))
    BY <1>6, MachineIs
  <2>2. /\ Popped(Popped(h)) = Running(Front(Front(v)), Append(x, f))
        /\ \A i : Entered(Popped(Popped(h)), i)
                    = Running(Front(Front(v)), Append(Append(x, f), i))
    BY <1>6, PoppedTwice
  <2> QED BY <1>4, <2>1, <2>2 DEF Runs
<1>10. PICK l : /\ b.code[p + 1] = Labelled("branch_if_false", l)
                /\ b.code[p + z] = Labelled("branch_target", l)
  BY DEF CondSite
<1>11. /\ Within(b.code, n.code, p + 1) /\ Len(n.code) \in Nat /\ z = Len(n.code) + 2
       /\ Good(b.code)
  BY <1>2, GoodIndices DEF CondSite, Within
<1>12. p + z \in Nat /\ z > 0 /\ p + z \in DOMAIN b.code /\ p + 1 \in DOMAIN b.code
  <2>1. PICK e, i, j : e = Len(n.code) /\ i = Len(a.code) /\ j = Len(b.code)
    OBVIOUS
  <2>2. /\ e \in Nat /\ i \in Nat /\ p \in Nat /\ z = e + 2 /\ j = (i - 2) + z
        /\ p + 2 <= i /\ DOMAIN b.code = 1 .. j
    BY <1>1, <1>5, <1>11, <2>1 DEF HoldingFacts
  <2>3. p + z \in Nat /\ z > 0 /\ p + z \in 1 .. j /\ p + 1 \in 1 .. j
    BY <2>2
  <2> QED BY <2>2, <2>3
<1>13. Targets(b.code, l) = {p + z}
  BY <1>10, <1>11, <1>12, TargetFound
<1>14. BranchesTo(Stepped(w), t, y, b, p + z)
  <2>1. PICK j \in Nat : j = p + z
    BY <1>12
  <2>2. Targets(b.code, l) = {j} /\ b.code[b.at] = Labelled("branch_if_false", l)
        /\ b.at \in DOMAIN b.code
    BY <1>5, <1>10, <1>12, <1>13, <2>1
  <2> QED BY <1>1, <2>1, <2>2, BranchStep DEF HoldingFacts
<1>15. m.ended = "no" /\ w.ended = "no"
  BY DEF Running
<1>16. IsFrame(f) /\ f.code = a.code /\ f.at = p + 3
       /\ f.phase = a.phase /\ f.lambdas = a.lambdas
  BY <1>1, <1>2, ToIs DEF HoldingFacts
<1>17. KeptAlike(R, f, b) /\ LikeItself(R, f.code) /\ IsFrame(b)
  BY <1>16 DEF KeptAlike, Holding
<1>18. f.at = p + k + 1
  BY <1>1, <1>5, <1>16 DEF HoldingFacts
<1>19. StacksAlike(R, s, t)
  BY DEF Holding
<1>20. CASE s = << >> /\ t = << >>
  <2>1. Len(v) < 2
    BY <1>4, <1>20, EmptySeq
  <2>2. Stepped(m) = Aborted(h)
    BY <1>8, <1>9, <2>1 DEF CondExec
  <2>3. HasAborted(Stepped(m)) /\ HasAborted(Stepped(w))
    BY <1>9, <1>14, <1>20, <2>2 DEF BranchesTo
  <2> QED BY <1>15, <2>3, AbortAlike, JointStep
<1>21. CASE PopsAlike(R, s, t)
  <2>1. /\ s # << >> /\ t # << >>
        /\ StacksAlike(R, Front(s), Front(t)) /\ NodesAlike(R, Last(s), Last(t))
    BY <1>21 DEF PopsAlike
  <2>2. Truthy(Last(s)) <=> Truthy(Last(t))
    BY <2>1, AlikeOps
  <2>3. ~(Len(v) < 2)
    <3>1. Len(s) # 0
      BY <1>1, <2>1, EmptySeq DEF HoldingFacts, IsSeq
    <3> QED BY <1>4, <3>1
  <2>4. CASE Truthy(Last(s))
    <3>1. Stepped(m) = Running(Front(s), Append(Append(x, f), o))
      <4>1. IsLambda(n)
        BY <1>1, <1>2 DEF HoldingFacts
      <4>2. CondExec(h) = Entered(Popped(Popped(h)), o)
        BY <1>2, <1>4, <1>9, <2>3, <2>4, <4>1 DEF CondExec
      <4> QED BY <1>8, <1>9, <4>2
    <3>2. PICK j, u : j = b.at + 1 /\ u = To(b, j)
      OBVIOUS
    <3>3. Stepped(w) = Running(Front(t), Append(y, u))
      BY <1>14, <2>1, <2>2, <2>4, <3>2 DEF BranchesTo
    <3>4. j = (p + 1) + 1 /\ j \in Nat
      BY <1>1, <1>5, <3>2 DEF HoldingFacts
    <3>5. /\ IsFrame(u) /\ u.code = b.code /\ u.at = j
          /\ u.phase = b.phase /\ u.lambdas = b.lambdas
      BY <1>17, <3>2, <3>4, ToIs
    <3>6. IsFrame(o) /\ o.code = n.code /\ o.at = 1 /\ o.phase = "call"
      BY <1>2, ActivationIs
    <3>7. PICK q : q = p + 1
      OBVIOUS
    <3>8. InPart(o, u, q)
      <4>1. Within(u.code, o.code, q) /\ u.at = q + 1
        BY <1>11, <3>4, <3>5, <3>6, <3>7
      <4> QED BY <3>6, <4>1, BeginsInside
    <3>9. PICK i : i = IF o.at = Len(o.code) + 1 THEN 2 ELSE 0
      OBVIOUS
    <3>10. Inside(f.code, o, u, p, k, z, i)
      <4>1. Calls(f.code, p, o)
        BY <1>2, <1>16, <3>6 DEF Calls
      <4>2. CondSite(f.code, u.code, p, k, z)
        BY <1>16, <3>5
      <4> QED BY <3>7, <3>8, <3>9, <4>1, <4>2 DEF Inside
    <3>11. TwoForOne(R, f, o, u, i)
      BY <1>17, <1>18, <3>5, <3>6, <3>10, TwoMade
    <3>12. FramesAlike(R, Append(Append(x, f), o), Append(y, u), i)
      BY <3>11, FramesTwo DEF Holding
    <3>13. AgreeNext(R, Stepped(m), Stepped(w))
      BY <2>1, <3>1, <3>3, <3>12, RunAlike DEF AgreeNext
    <3> QED BY <1>15, <3>13, JointStep
  <2>5. CASE ~Truthy(Last(s))
    <3>1. Stepped(m) = Running(Front(s), Append(x, f))
      <4>1. CondExec(h) = Popped(Popped(h))
        BY <1>4, <1>9, <2>3, <2>5 DEF CondExec
      <4> QED BY <1>8, <1>9, <4>1
    <3>2. Stepped(w) = Running(Front(t), Append(y, To(b, p + z)))
      BY <1>14, <2>1, <2>2, <2>5 DEF BranchesTo
    <3>3. b.code[p + z].op = "branch_target" /\ Site(f.code, b.code, p, k, z)
      BY <1>10, <1>16 DEF Labelled, Node, Site
    <3>4. FramesAlike(R, Append(x, f), Append(y, To(b, p + z)), 1)
      BY <1>12, <1>17, <1>18, <3>3, LandsAlike DEF Holding
    <3>5. AgreeNext(R, Stepped(m), Stepped(w))
      BY <2>1, <3>1, <3>2, <3>4, RunAlike DEF AgreeNext
    <3> QED BY <1>15, <3>5, JointStep
  <2> QED BY <2>4, <2>5
<1> QED BY <1>19, <1>20, <1>21, StacksPopped

\* The second lambda of a loop is pushed.
LEMMA HeldSecond ==
  ASSUME NEW R, NEW s, NEW t, NEW x, NEW y, NEW g, NEW a, NEW b, NEW p, NEW k, NEW z,
         Holding(R, s, t, x, y, g, a, b, p, k, z, p + 2),
         WhileSite(a.code, b.code, p, k, z),
         NEW m, m = Running(Append(s, a.code[p + 1]), Append(x, a)),
         NEW w, w = Running(t, Append(y, b))
  PROVE  GoesOn(R, m, w, 3)
<1>1. HoldingFacts(s, t, x, y, a, b, p, k, z)
  BY HoldingIs
<1>2. PICK n, e, f, v : /\ n = a.code[p + 1] /\ e = a.code[p + 2] /\ f = To(a, p + 3)
                        /\ v = Append(s, n)
  OBVIOUS
<1>3. a.at = p + 2 /\ b.at = p + 1 /\ (p + 2) + 1 = p + 3 /\ k = 3 /\ IsLambda(e)
  BY <1>1, <1>2 DEF HoldingFacts, Holding, WhileSite
<1>4. Stepped(m) = Running(Append(v, e), Append(x, f))
  BY <1>1, <1>2, <1>3, PushStep DEF HoldingFacts
<1>5. Append(v, e) = s \o <<n, e>>
  <2>1. IsSeq(s)
    BY <1>1 DEF HoldingFacts
  <2>2. s \o <<n, e>> = Append(Append(s, n), e)
    BY <2>1, BehindIs
  <2> QED BY <1>2, <2>2
<1>6. IsFrame(f) /\ f.code = a.code /\ f.at = p + 3
      /\ f.phase = a.phase /\ f.lambdas = a.lambdas
  BY <1>1, <1>2, ToIs DEF HoldingFacts
<1>7. KeptAlike(R, f, b) /\ LikeItself(R, f.code)
  BY <1>6 DEF KeptAlike, Holding
<1>8. Waits(R, f, b, 2, <<n, e>>)
  <2>1. WhileSite(f.code, b.code, p, k, z)
    BY <1>6
  <2> QED BY <1>2, <1>3, <1>6, <1>7, <2>1 DEF Waits
<1>9. BothHeld(R, Stepped(m), w, 2)
  BY <1>4, <1>5, <1>8 DEF BothHeld, Holding
<1>10. Simulates(R, Stepped(m), w, 2)
  BY <1>9 DEF Simulates
<1>11. m.ended = "no" /\ w.ended = "no"
  BY DEF Running
<1> QED BY <1>10, <1>11, LeftStep

\* `while'.
LEMMA HeldWhile ==
  ASSUME NEW R, NEW s, NEW t, NEW x, NEW y, NEW g, NEW a, NEW b, NEW p, NEW k, NEW z,
         Holding(R, s, t, x, y, g, a, b, p, k, z, p + 3),
         WhileSite(a.code, b.code, p, k, z),
         NEW m, m = Running(Append(Append(s, a.code[p + 1]), a.code[p + 2]), Append(x, a)),
         NEW w, w = Running(t, Append(y, b))
  PROVE  GoesOn(R, m, w, 2)
<1>1. HoldingFacts(s, t, x, y, a, b, p, k, z)
  BY HoldingIs
<1>2. PICK n, e, f : n = a.code[p + 1] /\ e = a.code[p + 2] /\ f = To(a, p + 4)
  OBVIOUS
<1>3. PICK u, v, o : u = Append(s, n) /\ v = Append(u, e) /\ o = LoopPart("cond", n, e)
  OBVIOUS
<1>4. Appended(u, s, n)
  BY <1>1, <1>3, AppendIs DEF HoldingFacts
<1>5. IsSeq(u) /\ Last(u) = n /\ Front(u) = s /\ Len(u) = Len(s) + 1 /\ Len(s) \in Nat
  BY <1>4 DEF Appended
<1>6. Appended(v, u, e)
  BY <1>3, <1>5, AppendIs
<1>7. Last(v) = e /\ Front(v) = u /\ Len(v) = Len(u) + 1
  BY <1>6 DEF Appended
<1>8. ~(Len(v) < 2)
  BY <1>5, <1>7
<1>9. /\ a.at = p + 3 /\ b.at = p + 1 /\ (p + 3) + 1 = p + 4 /\ k = 3
      /\ IsLambda(n) /\ IsLambda(e) /\ p + 3 \in DOMAIN a.code
  BY <1>1, <1>2 DEF HoldingFacts, Holding, WhileSite
<1>10. PICK h : h = Running(v, Append(x, f))
  OBVIOUS
<1>11. Stepped(m) = Instructed(h, a.code[p + 3])
  BY <1>1, <1>2, <1>3, <1>9, <1>10, StepAtNode DEF HoldingFacts
<1>12. Stepped(m) = While(h)
  <2>1. a.code[p + 3].op = "while"
    BY DEF WhileSite
  <2> QED BY <1>11, <2>1 DEF Instructed, Constant
<1>13. h.stack = v
       /\ Entered(Popped(Popped(h)), o) = Running(s, Append(Append(x, f), o))
  <2>1. Runs(h, v, Append(x, f))
    BY <1>10, MachineIs
  <2>2. \A i : Entered(Popped(Popped(h)), i)
                 = Running(Front(Front(v)), Append(Append(x, f), i))
    BY <1>10, PoppedTwice
  <2> QED BY <1>5, <1>7, <2>1, <2>2 DEF Runs
<1>14. Stepped(m) = Running(s, Append(Append(x, f), o))
  <2>1. While(h) = Entered(Popped(Popped(h)), o)
    BY <1>3, <1>5, <1>7, <1>8, <1>9, <1>13 DEF While
  <2> QED BY <1>12, <1>13, <2>1
<1>15. IsFrame(f) /\ f.code = a.code /\ f.at = p + 4
       /\ f.phase = a.phase /\ f.lambdas = a.lambdas
  BY <1>1, <1>2, ToIs DEF HoldingFacts
<1>16. KeptAlike(R, f, b) /\ LikeItself(R, f.code) /\ IsFrame(b)
  BY <1>15 DEF KeptAlike, Holding
<1>17. IsFrame(o) /\ o.at = 1 /\ Loops(f.code, p, o, "cond")
  BY <1>2, <1>3, <1>15, LoopPartIs
<1>18. AtTop(f.code, o, b, p, k, z, 1)
  BY <1>9, <1>15, <1>17 DEF AtTop
<1>19. f.at = p + k + 1
  BY <1>1, <1>9, <1>15 DEF HoldingFacts
<1>20. TwoForOne(R, f, o, b, 1)
  BY <1>16, <1>17, <1>18, <1>19, TwoMade
<1>21. FramesAlike(R, Append(Append(x, f), o), Append(y, b), 1)
  BY <1>20, FramesTwo DEF Holding
<1>22. Simulates(R, Stepped(m), w, 1)
  BY <1>14, <1>21, RunAlike DEF Holding
<1>23. m.ended = "no" /\ w.ended = "no"
  BY DEF Running
<1> QED BY <1>22, <1>23, LeftStep

\* Lambdas are held.
LEMMA HeldGoesOn ==
  ASSUME NEW R, NEW m, NEW w, NEW r, BothHeld(R, m, w, r)
  PROVE  GoesOn(R, m, w, r)
<1>1. PICK s, t, u, v, q, a, b, extra :
        /\ m = Running(s \o extra, Append(u, a)) /\ w = Running(t, Append(v, b))
        /\ StacksAlike(R, s, t) /\ FramesAlike(R, u, v, q) /\ Waits(R, a, b, r, extra)
  BY DEF BothHeld
<1>2. IsSeq(s)
  BY <1>1 DEF StacksAlike
<1>3. PICK p, k, z :
        /\ b.at = p + 1
        /\ \/ /\ Site(a.code, b.code, p, k, z) /\ a.at = p + 2 /\ r = 3
              /\ extra = <<a.code[p + 1]>>
           \/ /\ WhileSite(a.code, b.code, p, k, z) /\ a.at = p + 3 /\ r = 2
              /\ extra = <<a.code[p + 1], a.code[p + 2]>>
  BY <1>1 DEF Waits
<1>4. KeptAlike(R, a, b) /\ LikeItself(R, a.code)
  BY <1>1 DEF Waits
<1>5. CASE /\ Site(a.code, b.code, p, k, z) /\ a.at = p + 2 /\ r = 3
           /\ extra = <<a.code[p + 1]>>
  <2>1. Holding(R, s, t, u, v, q, a, b, p, k, z, p + 2)
    BY <1>1, <1>3, <1>4, <1>5 DEF Holding
  <2>2. m = Running(Append(s, a.code[p + 1]), Append(u, a))
    BY <1>1, <1>2, <1>5, BehindIs
  <2>3. CASE ExecSite(a.code, b.code, p, k, z)
    BY <1>1, <1>5, <2>1, <2>2, <2>3, HeldExec
  <2>4. CASE CondSite(a.code, b.code, p, k, z)
    BY <1>1, <2>1, <2>2, <2>4, HeldCond
  <2>5. CASE WhileSite(a.code, b.code, p, k, z)
    BY <1>1, <1>5, <2>1, <2>2, <2>5, HeldSecond
  <2> QED BY <1>5, <2>3, <2>4, <2>5 DEF Site
<1>6. CASE /\ WhileSite(a.code, b.code, p, k, z) /\ a.at = p + 3 /\ r = 2
           /\ extra = <<a.code[p + 1], a.code[p + 2]>>
  <2>1. Holding(R, s, t, u, v, q, a, b, p, k, z, p + 3)
    BY <1>1, <1>3, <1>4, <1>6 DEF Holding, Site
  <2>2. m = Running(Append(Append(s, a.code[p + 1]), a.code[p + 2]), Append(u, a))
    <3>1. PICK n, e : n = a.code[p + 1] /\ e = a.code[p + 2]
      OBVIOUS
    <3>2. s \o <<n, e>> = Append(Append(s, n), e)
      BY <1>2, BehindIs
    <3>3. extra = <<n, e>>
      BY <1>6, <3>1
    <3> QED BY <1>1, <3>1, <3>2, <3>3
  <2> QED BY <1>1, <1>6, <2>1, <2>2, HeldWhile
<1> QED BY <1>3, <1>5, <1>6

\* Both run.
LEMMA RunGoesOn ==
  ASSUME NEW R, Justified(R), NEW m, NEW w, NEW r, BothRun(R, m, w, r)
  PROVE  GoesOn(R, m, w, r)
<1>1. PICK s, t, f, v : /\ m = Running(s, f) /\ w = Running(t, v)
                        /\ StacksAlike(R, s, t) /\ FramesAlike(R, f, v, r)
  BY DEF BothRun
<1>2. m.ended = "no" /\ w.ended = "no"
  BY <1>1 DEF Running
<1>3. CASE f = << >> /\ v = << >>
  <2>1. /\ Stepped(m).ended = "finished" /\ Stepped(m).stack = s
        /\ Stepped(w).ended = "finished" /\ Stepped(w).stack = t
    BY <1>1, <1>3, StepFinishes
  <2>2. Simulates(R, Stepped(m), Stepped(w), 0)
    BY <1>1, <2>1, BothFinished
  <2> QED BY <1>2, <2>2, JointStep DEF AgreeNext
<1>4. ASSUME NEW x, NEW y, NEW q, NEW a, NEW b,
             FramesAlike(R, x, y, q), f = Append(x, a), v = Append(y, b),
             OneForOne(R, a, b, r)
      PROVE  GoesOn(R, m, w, r)
  <2>1. KeptAlike(R, a, b)
    BY <1>4 DEF OneForOne
  <2>2. CASE AtSame(R, a, b, r)
    BY <1>1, <1>4, <2>1, <2>2, SameGoesOn
  <2>3. ASSUME NEW p, NEW k, NEW z, Site(a.code, b.code, p, k, z), LikeItself(R, a.code),
               Outside(a, b, p, k, z, r)
        PROVE  GoesOn(R, m, w, r)
    <3>1. CASE a.at = p + 1
      BY <1>1, <1>4, <2>1, <2>3, <3>1, FirstGoesOn
    <3>2. CASE a.at # p + 1
      BY <1>1, <1>4, <2>1, <2>3, <3>2, OutsideGoesOn
    <3> QED BY <3>1, <3>2
  <2>4. ASSUME NEW p, NEW k, NEW z, Site(a.code, b.code, p, k, z), LikeItself(R, a.code),
               Landing(a, b, p, k, z, r)
        PROVE  GoesOn(R, m, w, r)
    BY <1>1, <1>4, <2>1, <2>4, LandingGoesOn
  <2> QED BY <1>4, <2>2, <2>3, <2>4 DEF OneForOne
<1>5. ASSUME NEW x, NEW y, NEW q, NEW a, NEW e, NEW b,
             FramesAlike(R, x, y, q), f = Append(Append(x, a), e), v = Append(y, b),
             TwoForOne(R, a, e, b, r)
      PROVE  GoesOn(R, m, w, r)
  <2>1. KeptAlike(R, a, b) /\ IsFrame(e) /\ LikeItself(R, a.code)
    BY <1>5 DEF TwoForOne
  <2>2. PICK p, k, z :
          /\ a.at = p + k + 1
          /\ Inside(a.code, e, b, p, k, z, r) \/ AtTop(a.code, e, b, p, k, z, r)
    BY <1>5 DEF TwoForOne
  <2>3. Goes(m, w, s, t, x, y, a, e, b)
    BY <1>1, <1>5 DEF Goes
  <2>4. CASE AtTop(a.code, e, b, p, k, z, r)
    BY <1>1, <1>5, <2>1, <2>2, <2>3, <2>4, TopGoesOn
  <2>5. CASE Inside(a.code, e, b, p, k, z, r)
    <3>1. IsFrame(b)
      BY <2>1 DEF KeptAlike
    <3>2. PICK h : PartOf(R, a.code, e, b, p, k, z, h)
      BY <2>1, <2>5, <3>1, InsideIs
    <3>3. CASE e.at \in DOMAIN e.code
      BY <1>1, <1>5, <2>1, <2>2, <3>2, <3>3, InsideGoesOn
    <3>4. CASE e.at \notin DOMAIN e.code
      <4>1. e.at = Len(e.code) + 1
        <5>1. Good(e.code) /\ e.at \in 1 .. Len(e.code) + 1
          BY <3>2 DEF PartOf, InPart, Within
        <5>2. Len(e.code) \in Nat /\ DOMAIN e.code = 1 .. Len(e.code)
          BY <5>1, GoodIndices
        <5>3. PICK n, i : n = Len(e.code) /\ i = e.at
          OBVIOUS
        <5>4. n \in Nat /\ i \in 1 .. n + 1 /\ i \notin 1 .. n
          BY <3>4, <5>1, <5>2, <5>3
        <5>5. i = n + 1
          BY <5>4
        <5> QED BY <5>3, <5>5
      <4>2. CASE /\ ExecSite(a.code, b.code, p, k, z) /\ Calls(a.code, p, e)
                 /\ InPart(e, b, p) /\ r = 1
        BY <1>1, <1>5, <2>1, <2>2, <2>3, <4>1, <4>2, CallEndGoesOn
      <4>3. CASE /\ CondSite(a.code, b.code, p, k, z) /\ Calls(a.code, p, e)
                 /\ InPart(e, b, p + 1) /\ r = 2
        BY <1>1, <1>5, <2>1, <2>2, <2>3, <4>1, <4>3, CallEndGoesOn
      <4>4. CASE /\ WhileSite(a.code, b.code, p, k, z) /\ Loops(a.code, p, e, "cond")
                 /\ InPart(e, b, p + 1)
        BY <1>1, <1>5, <2>1, <2>2, <2>3, <4>1, <4>4, CondEndGoesOn
      <4>5. CASE /\ WhileSite(a.code, b.code, p, k, z) /\ Loops(a.code, p, e, "body")
                 /\ InPart(e, b, p + 2 + Len(a.code[p + 1].code))
        BY <1>1, <1>5, <2>1, <2>2, <2>3, <4>1, <4>5, BodyEndGoesOn
      <4> QED BY <2>5, <4>1, <4>2, <4>3, <4>4, <4>5 DEF Inside
    <3> QED BY <3>3, <3>4
  <2> QED BY <2>2, <2>4, <2>5
<1>6. Made(R, f, v, r)
  BY <1>1, FramesMade
<1> QED BY <1>3, <1>4, <1>5, <1>6 DEF Made

\* Machines that simulate one another go on so.
LEMMA SimulatesOn ==
  ASSUME NEW R, Justified(R), NEW m, NEW w, NEW r, Simulates(R, m, w, r)
  PROVE  GoesOn(R, m, w, r)
<1>1. BothEnded(m, w) => GoesOn(R, m, w, r)
  BY DEF GoesOn
<1>2. BothRun(R, m, w, r) => GoesOn(R, m, w, r)
  BY RunGoesOn
<1>3. BothHeld(R, m, w, r) => GoesOn(R, m, w, r)
  BY HeldGoesOn
<1> QED BY <1>1, <1>2, <1>3 DEF Simulates

-----------------------------------------------------------------------------
(* Machines that simulate one another end alike.                           *)

\* What ends after a step ends.
LEMMA EndsStepped ==
  ASSUME NEW m, NEW o, EndsAs(Stepped(m), o)
  PROVE  EndsAs(m, o)
<1>1. PICK n \in Nat : o = Seen(After(Stepped(m), n))
  BY DEF EndsAs
<1>2. After(m, n + 1) = After(Stepped(m), n) /\ n + 1 \in Nat
  BY AfterSteps
<1> QED BY <1>1, <1>2 DEF EndsAs

\* What has ended has ended as it looks.
LEMMA EndsNow ==
  ASSUME NEW m, m.ended # "no"
  PROVE  EndsAs(m, Seen(m)) /\ \A n \in Nat : Seen(After(m, n)) = Seen(m)
<1>1. \A n \in Nat : After(m, n) = m
  BY EndedStays
<1>2. Seen(m).ended # "no"
  BY DEF Seen
<1>3. 0 \in Nat
  OBVIOUS
<1> QED BY <1>1, <1>2, <1>3 DEF EndsAs

\* What is seen of a machine that has not ended is not an end.
LEMMA NotEnded ==
  ASSUME NEW m, m.ended = "no", NEW n \in Nat, Seen(After(m, n)).ended # "no"
  PROVE  n # 0 /\ n - 1 \in Nat /\ After(m, n) = After(Stepped(m), n - 1)
<1>1. n # 0
  <2>1. After(m, 0) = m
    BY AfterSteps
  <2> QED BY <2>1 DEF Seen
<1>2. n - 1 \in Nat /\ (n - 1) + 1 = n
  BY <1>1
<1>3. After(m, (n - 1) + 1) = After(Stepped(m), n - 1)
  BY <1>2, AfterSteps
<1> QED BY <1>1, <1>2, <1>3

\* An end of the one is an end of the other.
LEMMA LeftEnds ==
  ASSUME NEW R, Justified(R), NEW o, o.ended # "no",
         NEW m, NEW w, NEW r, Simulates(R, m, w, r), EndsAs(m, o)
  PROVE  EndsAs(w, o)
<1> DEFINE Bad == {v \in Nat :
             \E m1, w1, r1 : \E n \in Nat :
               /\ Simulates(R, m1, w1, r1) /\ v = 5 * n + r1
               /\ Seen(After(m1, n)) = o /\ ~EndsAs(w1, o)}
<1>1. ASSUME Bad # {}
      PROVE  FALSE
  <2>1. PICK v \in Bad : \A y \in Bad : v <= y
    <3>1. Bad \in SUBSET Nat
      OBVIOUS
    <3> HIDE DEF Bad
    <3> QED BY <1>1, <3>1, LeastNatural
  <2>2. PICK m1, w1, r1 : \E n \in Nat :
               /\ Simulates(R, m1, w1, r1) /\ v = 5 * n + r1
               /\ Seen(After(m1, n)) = o /\ ~EndsAs(w1, o)
    BY <2>1
  <2>3. PICK n \in Nat : /\ Simulates(R, m1, w1, r1) /\ v = 5 * n + r1
                         /\ Seen(After(m1, n)) = o /\ ~EndsAs(w1, o)
    BY <2>2
  <2>4. r1 \in 0 .. 4
    BY <2>3 DEF Simulates
  <2>5. ASSUME NEW m2, NEW w2, NEW r2, Simulates(R, m2, w2, r2), NEW j \in Nat,
               5 * j + r2 < v, Seen(After(m2, j)) = o
        PROVE  EndsAs(w2, o)
    <3>1. r2 \in 0 .. 4
      BY <2>5 DEF Simulates
    <3>2. 5 * j + r2 \in Nat /\ ~(v <= 5 * j + r2)
      BY <2>3, <2>4, <2>5, <3>1
    <3>3. 5 * j + r2 \notin Bad
      BY <2>1, <3>2
    <3> HIDE DEF Bad
    <3>4. ASSUME ~EndsAs(w2, o)
          PROVE  5 * j + r2 \in Bad
      BY <2>5, <3>2, <3>4 DEF Bad
    <3> QED BY <3>3, <3>4
  <2> HIDE DEF Bad
  <2>6. GoesOn(R, m1, w1, r1)
    BY <2>3, SimulatesOn
  <2>7. CASE BothEnded(m1, w1)
    <3>1. m1.ended # "no" /\ Seen(m1) = Seen(w1)
      BY <2>7 DEF BothEnded
    <3>2. w1.ended # "no"
      BY <3>1 DEF Seen
    <3>3. Seen(m1) = o
      BY <2>3, <3>1, EndsNow
    <3>4. EndsAs(w1, Seen(w1))
      BY <3>2, EndsNow
    <3> QED BY <2>3, <3>1, <3>3, <3>4
  <2>8. ASSUME m1.ended = "no"
        PROVE  n # 0 /\ n - 1 \in Nat /\ Seen(After(Stepped(m1), n - 1)) = o
    BY <2>3, <2>8, NotEnded
  <2>9. ASSUME m1.ended = "no", NEW q \in 0 .. 4,
               Simulates(R, Stepped(m1), Stepped(w1), q)
        PROVE  FALSE
    <3>1. 5 * (n - 1) + q < v
      BY <2>3, <2>4, <2>8, <2>9
    <3>2. EndsAs(Stepped(w1), o)
      BY <2>5, <2>8, <2>9, <3>1
    <3> QED BY <2>3, <3>2, EndsStepped
  <2>10. ASSUME m1.ended = "no", NEW q \in 0 .. 4, Simulates(R, Stepped(m1), w1, q)
         PROVE  FALSE
    <3>1. 5 * (n - 1) + q < v
      BY <2>3, <2>4, <2>8, <2>10
    <3>2. EndsAs(w1, o)
      BY <2>5, <2>8, <2>10, <3>1
    <3> QED BY <2>3, <3>2
  <2>11. ASSUME NEW q \in 0 .. 4, q < r1, Simulates(R, m1, Stepped(w1), q)
         PROVE  FALSE
    <3>1. 5 * n + q < v
      BY <2>3, <2>4, <2>11
    <3>2. EndsAs(Stepped(w1), o)
      BY <2>3, <2>5, <2>11, <3>1
    <3> QED BY <2>3, <3>2, EndsStepped
  <2> QED BY <2>6, <2>7, <2>9, <2>10, <2>11 DEF GoesOn
<1>2. PICK n \in Nat : o = Seen(After(m, n))
  BY DEF EndsAs
<1>3. r \in 0 .. 4
  BY DEF Simulates
<1>4. 5 * n + r \in Nat
  BY <1>3
<1>5. Bad = {}
  BY <1>1
<1>6. 5 * n + r \notin Bad
  <2> HIDE DEF Bad
  <2> QED BY <1>5
<1> QED BY <1>2, <1>4, <1>6

\* And the other way round.
LEMMA RightEnds ==
  ASSUME NEW R, Justified(R), NEW o, o.ended # "no",
         NEW m, NEW w, NEW r, Simulates(R, m, w, r), EndsAs(w, o)
  PROVE  EndsAs(m, o)
<1> DEFINE Bad == {v \in Nat :
             \E m1, w1, r1 : \E n \in Nat :
               /\ Simulates(R, m1, w1, r1) /\ v = 5 * n + r1
               /\ Seen(After(w1, n)) = o /\ ~EndsAs(m1, o)}
<1>1. ASSUME Bad # {}
      PROVE  FALSE
  <2>1. PICK v \in Bad : \A y \in Bad : v <= y
    <3>1. Bad \in SUBSET Nat
      OBVIOUS
    <3> HIDE DEF Bad
    <3> QED BY <1>1, <3>1, LeastNatural
  <2>2. PICK m1, w1, r1 : \E n \in Nat :
               /\ Simulates(R, m1, w1, r1) /\ v = 5 * n + r1
               /\ Seen(After(w1, n)) = o /\ ~EndsAs(m1, o)
    BY <2>1
  <2>3. PICK n \in Nat : /\ Simulates(R, m1, w1, r1) /\ v = 5 * n + r1
                         /\ Seen(After(w1, n)) = o /\ ~EndsAs(m1, o)
    BY <2>2
  <2>4. r1 \in 0 .. 4
    BY <2>3 DEF Simulates
  <2>5. ASSUME NEW m2, NEW w2, NEW r2, Simulates(R, m2, w2, r2), NEW j \in Nat,
               5 * j + r2 < v, Seen(After(w2, j)) = o
        PROVE  EndsAs(m2, o)
    <3>1. r2 \in 0 .. 4
      BY <2>5 DEF Simulates
    <3>2. 5 * j + r2 \in Nat /\ ~(v <= 5 * j + r2)
      BY <2>3, <2>4, <2>5, <3>1
    <3>3. 5 * j + r2 \notin Bad
      BY <2>1, <3>2
    <3> HIDE DEF Bad
    <3>4. ASSUME ~EndsAs(m2, o)
          PROVE  5 * j + r2 \in Bad
      BY <2>5, <3>2, <3>4 DEF Bad
    <3> QED BY <3>3, <3>4
  <2> HIDE DEF Bad
  <2>6. GoesOn(R, m1, w1, r1)
    BY <2>3, SimulatesOn
  <2>7. CASE BothEnded(m1, w1)
    <3>1. m1.ended # "no" /\ Seen(m1) = Seen(w1)
      BY <2>7 DEF BothEnded
    <3>2. w1.ended # "no"
      BY <3>1 DEF Seen
    <3>3. Seen(w1) = o
      BY <2>3, <3>2, EndsNow
    <3>4. EndsAs(m1, Seen(m1))
      BY <3>1, EndsNow
    <3> QED BY <2>3, <3>1, <3>3, <3>4
  <2>8. ASSUME w1.ended = "no"
        PROVE  n # 0 /\ n - 1 \in Nat /\ Seen(After(Stepped(w1), n - 1)) = o
    BY <2>3, <2>8, NotEnded
  <2>9. ASSUME w1.ended = "no", NEW q \in 0 .. 4,
               Simulates(R, Stepped(m1), Stepped(w1), q)
        PROVE  FALSE
    <3>1. 5 * (n - 1) + q < v
      BY <2>3, <2>4, <2>8, <2>9
    <3>2. EndsAs(Stepped(m1), o)
      BY <2>5, <2>8, <2>9, <3>1
    <3> QED BY <2>3, <3>2, EndsStepped
  <2>10. ASSUME NEW q \in 0 .. 4, q < r1, Simulates(R, Stepped(m1), w1, q)
         PROVE  FALSE
    <3>1. 5 * n + q < v
      BY <2>3, <2>4, <2>10
    <3>2. EndsAs(Stepped(m1), o)
      BY <2>3, <2>5, <2>10, <3>1
    <3> QED BY <2>3, <3>2, EndsStepped
  <2>11. ASSUME w1.ended = "no", NEW q \in 0 .. 4, Simulates(R, m1, Stepped(w1), q)
         PROVE  FALSE
    <3>1. 5 * (n - 1) + q < v
      BY <2>3, <2>4, <2>8, <2>11
    <3>2. EndsAs(m1, o)
      BY <2>5, <2>8, <2>11, <3>1
    <3> QED BY <2>3, <3>2
  <2> QED BY <2>6, <2>7, <2>9, <2>10, <2>11 DEF GoesOn
<1>2. PICK n \in Nat : o = Seen(After(w, n))
  BY DEF EndsAs
<1>3. r \in 0 .. 4
  BY DEF Simulates
<1>4. 5 * n + r \in Nat
  BY <1>3
<1>5. Bad = {}
  BY <1>1
<1>6. 5 * n + r \notin Bad
  <2> HIDE DEF Bad
  <2> QED BY <1>5
<1> QED BY <1>2, <1>4, <1>6

-----------------------------------------------------------------------------
(* Codes that leave the same.                                              *)

\* From operands on, c and d end in the same ways.
Same(c, d, operands) ==
  \A o : EndsAs(Started(c, operands), o) <=> EndsAs(Started(d, operands), o)

\* Codes that R pairs, started with operands that R pairs with themselves.
LEMMA PairedSame ==
  ASSUME NEW R, Justified(R), NEW c, NEW d, <<c, d>> \in R,
         NEW operands, StacksAlike(R, operands, operands)
  PROVE  Same(c, d, operands)
<1>1. PICK a, b : a = Activation(c) /\ b = Activation(d)
  OBVIOUS
<1>2. /\ IsFrame(a) /\ a.code = c /\ a.at = 1 /\ a.phase = "call"
      /\ IsFrame(b) /\ b.code = d /\ b.at = 1 /\ b.phase = "call"
  BY <1>1, ActivationIs
<1>3. KeptAlike(R, a, b)
  BY <1>2 DEF KeptAlike
<1>4. PICK r : OneForOne(R, a, b, r)
  BY <1>2, <1>3, BeginAlike
<1>5. FramesAlike(R, << >>, << >>, 0)
  BY FramesNone
<1>6. FramesAlike(R, Append(<< >>, a), Append(<< >>, b), r)
  BY <1>4, <1>5, FramesOne
<1>7. Append(<< >>, a) = <<a>> /\ Append(<< >>, b) = <<b>>
  OBVIOUS
<1>8. PICK m, w : m = Started(c, operands) /\ w = Started(d, operands)
  OBVIOUS
<1>9. m = Running(operands, <<a>>) /\ w = Running(operands, <<b>>)
  BY <1>1, <1>8 DEF Started, Running
<1>10. Simulates(R, m, w, r)
  BY <1>6, <1>7, <1>9, RunAlike
<1>11. ASSUME NEW o
       PROVE  EndsAs(m, o) <=> EndsAs(w, o)
  <2>1. EndsAs(m, o) => EndsAs(w, o)
    BY <1>10, LeftEnds DEF EndsAs
  <2>2. EndsAs(w, o) => EndsAs(m, o)
    BY <1>10, RightEnds DEF EndsAs
  <2> QED BY <2>1, <2>2
<1> QED BY <1>8, <1>11 DEF Same

-----------------------------------------------------------------------------
(* What the passes make of a code is the code with one lambda put in.      *)

\* In r there are the given nodes where s has k nodes behind its first p.
PutIn(r, s, p, k, nodes) ==
  /\ IsSeq(r) /\ IsSeq(s) /\ IsSeq(nodes)
  /\ Len(s) \in Nat /\ Len(nodes) \in Nat /\ Len(r) = (Len(s) - k) + Len(nodes)
  /\ \A i \in 1 .. p : r[i] = s[i]
  /\ \A i \in 1 .. Len(nodes) : r[p + i] = nodes[i]
  /\ \A i \in p + k + 1 .. Len(s) : r[(i - k) + Len(nodes)] = s[i]

\* unordered_remove of two nodes keeps the order if not more than two are behind.
LEMMA ExecOut ==
  ASSUME NEW s, IsSeq(s), NEW i \in 1 .. Len(s), i + 1 <= Len(s), Len(s) - i < 4,
         NEW r, r = UnorderedRemove(UnorderedRemove(s, i + 1), i)
  PROVE  TakenOut(r, s, i, 2)
<1>1. PICK n \in Nat : n = Len(s) - 2
  BY SeqIndices
<1>2. PICK j \in Nat : j = i + 1
  BY SeqIndices
<1>3. PICK t : t = UnorderedRemove(s, j)
  OBVIOUS
<1>4. /\ Len(s) \in Nat /\ Len(s) = n + 2
      /\ i \in 1 .. n + 1 /\ j \in 1 .. Len(s) /\ n <= j
  BY <1>1, <1>2, SeqIndices
<1>5. /\ IsSeq(t) /\ Len(t) = n + 1
      /\ \A k \in 1 .. n + 1 : t[k] = IF k = j THEN s[n + 2] ELSE s[k]
  <2>1. LastMoved(t, s, j)
    BY <1>3, <1>4, UnorderedRemoved
  <2>2. Len(t) = n + 1
    BY <1>4, <2>1 DEF LastMoved
  <2> QED BY <1>4, <2>1, <2>2 DEF LastMoved
<1>6. /\ IsSeq(r) /\ Len(r) = n
      /\ \A k \in 1 .. n : r[k] = IF k = i THEN t[n + 1] ELSE t[k]
  <2>1. LastMoved(r, t, i)
    BY <1>2, <1>3, <1>4, <1>5, UnorderedRemoved
  <2>2. Len(r) = n
    BY <1>5, <2>1 DEF LastMoved
  <2> QED BY <2>1, <2>2, <1>5 DEF LastMoved
<1>7. ASSUME NEW k \in 1 .. n
      PROVE  r[k] = IF k < i THEN s[k] ELSE s[k + 2]
  <2>1. CASE k < i
    <3>1. k # i /\ k # j /\ k \in 1 .. n + 1
      BY <1>2, <1>4, <2>1
    <3> QED BY <1>5, <1>6, <2>1, <3>1
  <2>2. CASE k = i /\ n = i
    <3>1. n + 1 = j /\ n + 1 \in 1 .. n + 1 /\ k + 2 = n + 2 /\ ~(k < i)
      BY <1>2, <1>4, <2>2
    <3>2. t[n + 1] = s[n + 2]
      BY <1>5, <3>1
    <3> QED BY <1>6, <2>2, <3>1, <3>2
  <2>3. CASE k = i /\ n # i
    <3>1. n + 1 # j /\ n + 1 \in 1 .. n + 1 /\ k + 2 = n + 1 /\ ~(k < i)
      BY <1>2, <1>4, <2>3
    <3>2. t[n + 1] = s[n + 1]
      BY <1>5, <3>1
    <3> QED BY <1>6, <2>3, <3>1, <3>2
  <2>4. CASE k > i
    <3>1. k = j /\ k # i /\ k \in 1 .. n + 1 /\ k + 2 = n + 2 /\ ~(k < i)
      BY <1>2, <1>4, <2>4
    <3>2. t[k] = s[n + 2]
      BY <1>5, <3>1
    <3> QED BY <1>6, <3>1, <3>2
  <2> QED BY <1>4, <2>1, <2>2, <2>3, <2>4
<1>8. Len(r) = Len(s) - 2
  BY <1>4, <1>6
<1> QED BY <1>6, <1>7, <1>8 DEF TakenOut

\* ordered_remove of two nodes, of the last first.
LEMMA CondOut ==
  ASSUME NEW s, IsSeq(s), NEW i \in 1 .. Len(s), i + 1 <= Len(s),
         NEW r, r = OrderedRemove(OrderedRemove(s, i + 1), i)
  PROVE  TakenOut(r, s, i, 2)
<1>1. Len(s) \in Nat
  BY SeqIndices
<1>2. PICK j \in 1 .. Len(s) : j = i + 1
  BY <1>1
<1>3. PICK t : t = OrderedRemove(s, j)
  OBVIOUS
<1>4. TakenOut(t, s, i + 1, 1)
  BY <1>2, <1>3, OrderedRemoved
<1>5. 1 \in Nat /\ i + 1 <= Len(s) /\ r = OrderedRemove(t, i)
  BY <1>2, <1>3
<1>6. TakenOut(r, s, i, 1 + 1)
  BY <1>4, <1>5, TakenOutOneMore, Zenon
<1>7. 1 + 1 = 2
  OBVIOUS
<1> QED BY <1>6, <1>7

\* And of three.
LEMMA WhileOut ==
  ASSUME NEW s, IsSeq(s), NEW i \in 1 .. Len(s), i + 2 <= Len(s),
         NEW r, r = OrderedRemove(OrderedRemove(OrderedRemove(s, i + 2), i + 1), i)
  PROVE  TakenOut(r, s, i, 3)
<1>1. Len(s) \in Nat
  BY SeqIndices
<1>2. PICK j \in 1 .. Len(s) : j = i + 1
  BY <1>1
<1>3. PICK t : t = OrderedRemove(OrderedRemove(s, i + 2), i + 1)
  OBVIOUS
<1>4. j + 1 <= Len(s) /\ i + 2 = j + 1
  BY <1>1, <1>2
<1>5. t = OrderedRemove(OrderedRemove(s, j + 1), j)
  BY <1>2, <1>3, <1>4
<1>6. TakenOut(t, s, j, 2)
  BY <1>4, <1>5, CondOut
<1>7. 2 \in Nat /\ i + 2 <= Len(s) /\ r = OrderedRemove(t, i) /\ TakenOut(t, s, i + 1, 2)
  BY <1>2, <1>3, <1>6
<1>8. TakenOut(r, s, i, 2 + 1)
  BY <1>7, TakenOutOneMore, Zenon
<1>9. 2 + 1 = 3
  OBVIOUS
<1> QED BY <1>8, <1>9

\* extend_before puts the nodes in where others were taken out.
LEMMA PutInPlace ==
  ASSUME NEW s, IsSeq(s), NEW i \in 1 .. Len(s), NEW k \in Nat, k >= 2,
         i + k - 1 <= Len(s), NEW t, TakenOut(t, s, i, k), NEW nodes, IsSeq(nodes),
         NEW r, r = ExtendBefore(t, i, nodes)
  PROVE  PutIn(r, s, i - 1, k, nodes)
<1>1. PICK n \in Nat, p \in Nat, m \in Nat, q \in Nat :
        n = Len(s) /\ p = i - 1 /\ m = Len(nodes) /\ q = Len(t)
  <2>1. Len(s) \in Nat /\ Len(nodes) \in Nat /\ Len(t) \in Nat
    BY SeqIndices DEF TakenOut
  <2>2. i - 1 \in Nat
    BY <2>1
  <2> QED BY <2>1, <2>2
<1>2. /\ IsSeq(t) /\ q = n - k /\ i = p + 1 /\ p + k <= n /\ p <= q /\ i > 0 /\ i \in Nat
      /\ \A x \in 1 .. q : t[x] = IF x < i THEN s[x] ELSE s[x + k]
  <2>1. IsSeq(t) /\ q = n - k /\ \A x \in 1 .. q : t[x] = IF x < i THEN s[x] ELSE s[x + k]
    BY <1>1 DEF TakenOut
  <2>2. i = p + 1 /\ p + k <= n /\ i > 0 /\ i \in Nat
    BY <1>1
  <2>3. p <= q
    BY <2>1, <2>2, <1>1
  <2> QED BY <2>1, <2>2, <2>3
<1>3. PICK a : a = SubSeq(t, 1, p)
  OBVIOUS
<1>4. PICK b : b = SubSeq(t, i, q)
  OBVIOUS
<1>5. IsPart(a, t, 1, p)
  <2>1. 1 \in Nat /\ 1 > 0 /\ p <= Len(t)
    BY <1>1, <1>2
  <2> QED BY <1>2, <1>3, <2>1, PartSeq, Zenon
<1>6. IsPart(b, t, i, q)
  <2>1. q <= Len(t)
    BY <1>1
  <2> QED BY <1>2, <1>4, <2>1, PartSeq
<1>7. /\ IsSeq(a) /\ Len(a) = p /\ \A x \in 1 .. p : a[x] = s[x]
  <2>1. IsSeq(a) /\ Len(a) = p /\ \A x \in 1 .. p : a[x] = t[1 + x - 1]
    BY <1>5 DEF IsPart
  <2>2. ASSUME NEW x \in 1 .. p
        PROVE  a[x] = s[x]
    <3>1. 1 + x - 1 = x /\ x < i /\ x \in 1 .. q
      BY <1>2
    <3> QED BY <1>2, <2>1, <3>1
  <2> QED BY <2>1, <2>2
<1>8. /\ IsSeq(b) /\ Len(b) = q - p /\ \A x \in 1 .. q - p : b[x] = s[p + k + x]
  <2>1. IsSeq(b) /\ Len(b) = (IF i <= q THEN q - i + 1 ELSE 0)
        /\ \A x \in 1 .. Len(b) : b[x] = t[i + x - 1]
    BY <1>6 DEF IsPart
  <2>2. Len(b) = q - p
    BY <2>1, <1>2
  <2>3. ASSUME NEW x \in 1 .. q - p
        PROVE  b[x] = s[p + k + x]
    <3>1. i + x - 1 \in 1 .. q /\ ~(i + x - 1 < i) /\ (i + x - 1) + k = p + k + x
      BY <1>2
    <3> QED BY <1>2, <2>1, <2>2, <3>1
  <2> QED BY <2>1, <2>2, <2>3
<1>9. PICK c : c = a \o nodes
  OBVIOUS
<1>10. IsJoin(c, a, nodes)
  BY <1>7, <1>9, JoinSeqs
<1>11. IsSeq(c) /\ Len(c) = p + m
       /\ \A x \in 1 .. p + m : c[x] = IF x <= p THEN s[x] ELSE nodes[x - p]
  <2>1. IsSeq(c) /\ Len(c) = p + m
        /\ \A x \in 1 .. p + m : c[x] = IF x <= p THEN a[x] ELSE nodes[x - p]
    BY <1>1, <1>7, <1>10 DEF IsJoin
  <2>2. \A x \in 1 .. p + m : x <= p => a[x] = s[x]
    BY <1>7
  <2> QED BY <2>1, <2>2
<1>12. r = c \o b
  BY <1>1, <1>2, <1>3, <1>4, <1>9 DEF ExtendBefore
<1>13. IsJoin(r, c, b)
  BY <1>8, <1>11, <1>12, JoinSeqs
<1>14. IsSeq(r) /\ Len(r) = (p + m) + (q - p)
       /\ \A x \in 1 .. Len(r) : r[x] = IF x <= p + m THEN c[x] ELSE b[x - (p + m)]
  BY <1>8, <1>11, <1>13 DEF IsJoin
<1>15. Len(r) = (n - k) + m
  <2>1. q = n - k
    BY <1>2
  <2>2. (p + m) + (q - p) = (n - k) + m
    BY <2>1
  <2> QED BY <1>14, <2>2
<1>16. ASSUME NEW x \in 1 .. p
       PROVE  r[x] = s[x]
  <2>1. x \in 1 .. Len(r) /\ x <= p + m /\ x \in 1 .. p + m /\ x <= p
    BY <1>2, <1>14
  <2> QED BY <1>11, <1>14, <2>1
<1>17. ASSUME NEW x \in 1 .. m
       PROVE  r[p + x] = nodes[x]
  <2>1. p + x \in 1 .. Len(r) /\ p + x <= p + m /\ p + x \in 1 .. p + m
        /\ ~(p + x <= p) /\ (p + x) - p = x
    BY <1>2, <1>14
  <2> QED BY <1>11, <1>14, <2>1
<1>18. ASSUME NEW x \in p + k + 1 .. n
       PROVE  r[(x - k) + m] = s[x]
  <2>1. PICK y \in 1 .. q - p : y = x - (p + k)
    BY <1>2
  <2>2. (x - k) + m \in 1 .. (n - k) + m /\ ~((x - k) + m <= p + m)
        /\ ((x - k) + m) - (p + m) = y /\ p + k + y = x
    BY <2>1
  <2>3. b[y] = s[x]
    BY <1>8, <2>1, <2>2
  <2> QED BY <1>14, <1>15, <2>2, <2>3
<1> QED BY <1>1, <1>14, <1>15, <1>16, <1>17, <1>18 DEF PutIn

-----------------------------------------------------------------------------
(* The code of a conditional and of a loop, node by node.                  *)

\* r branches over the body.
Branching(r, body, l) ==
  /\ IsSeq(r) /\ Len(body) \in Nat /\ Len(r) = Len(body) + 2
  /\ r[1] = Labelled("branch_if_false", l)
  /\ \A x \in 1 .. Len(body) : r[1 + x] = body[x]
  /\ r[Len(body) + 2] = Labelled("branch_target", l)

\* r branches over the body and back to the condition.
Looping(r, cond, body, l, h) ==
  /\ IsSeq(r) /\ Len(cond) \in Nat /\ Len(body) \in Nat
  /\ Len(r) = (Len(cond) + Len(body)) + 4
  /\ r[1] = Labelled("branch_target", l)
  /\ \A x \in 1 .. Len(cond) : r[1 + x] = cond[x]
  /\ r[2 + Len(cond)] = Labelled("branch_if_false", h)
  /\ \A x \in 1 .. Len(body) : r[(2 + Len(cond)) + x] = body[x]
  /\ r[(Len(cond) + Len(body)) + 3] = Labelled("branch", l)
  /\ r[(Len(cond) + Len(body)) + 4] = Labelled("branch_target", h)

\* A sequence of one, and one of two.
LEMMA FewSeq ==
  ASSUME NEW x, NEW y
  PROVE  /\ IsSeq(<<x>>) /\ Len(<<x>>) = 1 /\ <<x>>[1] = x
         /\ IsSeq(<<x, y>>) /\ Len(<<x, y>>) = 2
         /\ <<x, y>>[1] = x /\ <<x, y>>[2] = y
<1>1. <<x>> \in Seq({x, y}) /\ <<x, y>> \in Seq({x, y})
  OBVIOUS
<1> QED BY <1>1 DEF IsSeq

\* A conditional's.
LEMMA ConditionalIs ==
  ASSUME NEW body, IsSeq(body), NEW l, NEW r, r = Conditional(body, l)
  PROVE  Branching(r, body, l)
<1>1. PICK x : x = Labelled("branch_if_false", l)
  OBVIOUS
<1>2. PICK y : y = Labelled("branch_target", l)
  OBVIOUS
<1>3. PICK n \in Nat : n = Len(body)
  BY SeqIndices
<1>4. PICK a : a = <<x>>
  OBVIOUS
<1>5. PICK b : b = <<y>>
  OBVIOUS
<1>6. /\ IsSeq(a) /\ Len(a) = 1 /\ a[1] = x
      /\ IsSeq(b) /\ Len(b) = 1 /\ b[1] = y
  BY <1>4, <1>5, FewSeq
<1>7. PICK c : c = a \o body
  OBVIOUS
<1>8. IsJoin(c, a, body)
  BY <1>6, <1>7, JoinSeqs
<1>9. IsSeq(c) /\ Len(c) = n + 1
      /\ \A k \in 1 .. n + 1 : c[k] = IF k <= 1 THEN a[k] ELSE body[k - 1]
  <2>1. Len(c) = n + 1
    BY <1>3, <1>6, <1>8 DEF IsJoin
  <2> QED BY <1>3, <1>6, <1>8, <2>1 DEF IsJoin
<1>10. r = c \o b
  BY <1>1, <1>2, <1>4, <1>5, <1>7 DEF Conditional
<1>11. IsJoin(r, c, b)
  BY <1>6, <1>9, <1>10, JoinSeqs
<1>12. IsSeq(r) /\ Len(r) = n + 2
       /\ \A k \in 1 .. n + 2 : r[k] = IF k <= n + 1 THEN c[k] ELSE b[k - (n + 1)]
  <2>1. Len(r) = n + 2
    BY <1>6, <1>9, <1>11 DEF IsJoin
  <2> QED BY <1>9, <1>11, <2>1 DEF IsJoin
<1>13. r[1] = x
  <2>1. 1 \in 1 .. n + 2 /\ 1 <= n + 1 /\ 1 \in 1 .. n + 1
    OBVIOUS
  <2> QED BY <1>6, <1>9, <1>12, <2>1
<1>14. ASSUME NEW k \in 1 .. n
       PROVE  r[1 + k] = body[k]
  <2>1. 1 + k \in 1 .. n + 2 /\ 1 + k <= n + 1 /\ 1 + k \in 1 .. n + 1
        /\ ~(1 + k <= 1) /\ (1 + k) - 1 = k
    OBVIOUS
  <2> QED BY <1>9, <1>12, <2>1
<1>15. r[n + 2] = y
  <2>1. n + 2 \in 1 .. n + 2 /\ ~(n + 2 <= n + 1) /\ (n + 2) - (n + 1) = 1
    OBVIOUS
  <2> QED BY <1>6, <1>12, <2>1
<1> QED BY <1>1, <1>2, <1>3, <1>12, <1>13, <1>14, <1>15 DEF Branching

\* A loop's.
LEMMA LoopIs ==
  ASSUME NEW cond, IsSeq(cond), NEW body, IsSeq(body), NEW l, NEW h,
         NEW r, r = Loop(cond, body, l, h)
  PROVE  Looping(r, cond, body, l, h)
<1>1. PICK w : w = Labelled("branch_target", l)
  OBVIOUS
<1>2. PICK x : x = Labelled("branch_if_false", h)
  OBVIOUS
<1>3. PICK y : y = Labelled("branch", l)
  OBVIOUS
<1>4. PICK z : z = Labelled("branch_target", h)
  OBVIOUS
<1>5. PICK n \in Nat, m \in Nat : n = Len(cond) /\ m = Len(body)
  BY SeqIndices
<1>6. PICK a : a = <<w>>
  OBVIOUS
<1>7. PICK b : b = <<x>>
  OBVIOUS
<1>8. PICK e : e = <<y, z>>
  OBVIOUS
<1>9. /\ IsSeq(a) /\ Len(a) = 1 /\ a[1] = w
      /\ IsSeq(b) /\ Len(b) = 1 /\ b[1] = x
      /\ IsSeq(e) /\ Len(e) = 2 /\ e[1] = y /\ e[2] = z
  BY <1>6, <1>7, <1>8, FewSeq
<1>10. PICK c : c = a \o cond
  OBVIOUS
<1>11. PICK d : d = c \o b
  OBVIOUS
<1>12. PICK f : f = d \o body
  OBVIOUS
<1>13. r = f \o e
  BY <1>1, <1>2, <1>3, <1>4, <1>6, <1>7, <1>8, <1>10, <1>11, <1>12 DEF Loop
<1>14. IsSeq(c) /\ Len(c) = n + 1
       /\ \A k \in 1 .. n + 1 : c[k] = IF k <= 1 THEN a[k] ELSE cond[k - 1]
  <2>1. IsJoin(c, a, cond)
    BY <1>9, <1>10, JoinSeqs
  <2>2. Len(c) = n + 1
    BY <1>5, <1>9, <2>1 DEF IsJoin
  <2> QED BY <1>5, <1>9, <2>1, <2>2 DEF IsJoin
<1>15. IsSeq(d) /\ Len(d) = n + 2
       /\ \A k \in 1 .. n + 2 : d[k] = IF k <= n + 1 THEN c[k] ELSE b[k - (n + 1)]
  <2>1. IsJoin(d, c, b)
    BY <1>9, <1>11, <1>14, JoinSeqs
  <2>2. Len(d) = n + 2
    BY <1>9, <1>14, <2>1 DEF IsJoin
  <2> QED BY <1>14, <2>1, <2>2 DEF IsJoin
<1>16. IsSeq(f) /\ Len(f) = (n + m) + 2
       /\ \A k \in 1 .. (n + m) + 2 :
            f[k] = IF k <= n + 2 THEN d[k] ELSE body[k - (n + 2)]
  <2>1. IsJoin(f, d, body)
    BY <1>12, <1>15, JoinSeqs
  <2>2. Len(f) = (n + m) + 2
    BY <1>5, <1>15, <2>1 DEF IsJoin
  <2> QED BY <1>15, <2>1, <2>2 DEF IsJoin
<1>17. IsSeq(r) /\ Len(r) = (n + m) + 4
       /\ \A k \in 1 .. (n + m) + 4 :
            r[k] = IF k <= (n + m) + 2 THEN f[k] ELSE e[k - ((n + m) + 2)]
  <2>1. IsJoin(r, f, e)
    BY <1>9, <1>13, <1>16, JoinSeqs
  <2>2. Len(r) = (n + m) + 4
    BY <1>9, <1>16, <2>1 DEF IsJoin
  <2> QED BY <1>16, <2>1, <2>2 DEF IsJoin
<1>18. r[1] = w
  <2>1. 1 \in 1 .. (n + m) + 4 /\ 1 <= (n + m) + 2 /\ 1 \in 1 .. (n + m) + 2
        /\ 1 <= n + 2 /\ 1 \in 1 .. n + 2 /\ 1 <= n + 1 /\ 1 \in 1 .. n + 1
    OBVIOUS
  <2>2. r[1] = f[1] /\ f[1] = d[1]
    BY <1>16, <1>17, <2>1
  <2> QED BY <1>9, <1>14, <1>15, <2>1, <2>2
<1>19. ASSUME NEW k \in 1 .. n
       PROVE  r[1 + k] = cond[k]
  <2>1. PICK j \in Nat : j = 1 + k
    OBVIOUS
  <2>2. j \in 1 .. (n + m) + 4 /\ j <= (n + m) + 2 /\ j \in 1 .. (n + m) + 2
        /\ j <= n + 2 /\ j \in 1 .. n + 2 /\ j <= n + 1 /\ j \in 1 .. n + 1
        /\ ~(j <= 1) /\ j - 1 = k
    BY <2>1
  <2>3. r[j] = f[j] /\ f[j] = d[j]
    BY <1>16, <1>17, <2>2
  <2>4. d[j] = c[j] /\ c[j] = cond[k]
    BY <1>14, <1>15, <2>2
  <2> QED BY <2>1, <2>3, <2>4
<1>20. r[2 + n] = x
  <2>1. PICK j \in Nat : j = 2 + n
    OBVIOUS
  <2>2. j \in 1 .. (n + m) + 4 /\ j <= (n + m) + 2 /\ j \in 1 .. (n + m) + 2
        /\ j <= n + 2 /\ j \in 1 .. n + 2 /\ ~(j <= n + 1) /\ j - (n + 1) = 1
    BY <2>1
  <2>3. r[j] = f[j] /\ f[j] = d[j]
    BY <1>16, <1>17, <2>2
  <2> QED BY <1>9, <1>15, <2>1, <2>2, <2>3
<1>21. ASSUME NEW k \in 1 .. m
       PROVE  r[(2 + n) + k] = body[k]
  <2>1. PICK j \in Nat : j = (2 + n) + k
    OBVIOUS
  <2>2. j \in 1 .. (n + m) + 4 /\ j <= (n + m) + 2 /\ j \in 1 .. (n + m) + 2
        /\ ~(j <= n + 2) /\ j - (n + 2) = k
    BY <2>1
  <2>3. r[j] = f[j] /\ f[j] = body[k]
    BY <1>16, <1>17, <2>2
  <2> QED BY <2>1, <2>3
<1>22. r[(n + m) + 3] = y /\ r[(n + m) + 4] = z
  <2>1. (n + m) + 3 \in 1 .. (n + m) + 4 /\ ~((n + m) + 3 <= (n + m) + 2)
        /\ ((n + m) + 3) - ((n + m) + 2) = 1
    OBVIOUS
  <2>2. (n + m) + 4 \in 1 .. (n + m) + 4 /\ ~((n + m) + 4 <= (n + m) + 2)
        /\ ((n + m) + 4) - ((n + m) + 2) = 2
    OBVIOUS
  <2> QED BY <1>9, <1>17, <2>1, <2>2
<1> QED BY <1>1, <1>2, <1>3, <1>4, <1>5, <1>17, <1>18, <1>19, <1>20, <1>21, <1>22
        DEF Looping

-----------------------------------------------------------------------------
(* Each pass leaves a site.                                                *)

\* Where the nodes of a conditional are.
LEMMA BranchingNumbers ==
  ASSUME NEW p \in Nat, NEW n \in Nat, NEW e \in Nat, p + (n + 2) <= e
  PROVE  /\ (p + 1) + n <= e
         /\ \A x \in 1 .. n : 1 + x \in 1 .. n + 2 /\ p + (1 + x) = (p + 1) + x
  OBVIOUS

\* Where those of a loop are.
LEMMA LoopingNumbers ==
  ASSUME NEW p \in Nat, NEW n \in Nat, NEW m \in Nat, NEW t \in Nat,
         t = (n + m) + 4, NEW e \in Nat, p + t <= e
  PROVE  /\ (p + 1) + n <= e /\ ((p + 2) + n) + m <= e /\ (p + 2) + n \in Nat
         /\ 1 \in 1 .. t /\ t \in 1 .. t /\ 2 + n \in 1 .. t /\ (n + m) + 3 \in 1 .. t
         /\ p + (2 + n) = (p + 2) + n /\ p + ((n + m) + 3) = (p + t) - 1
         /\ \A x \in 1 .. n : 1 + x \in 1 .. t /\ p + (1 + x) = (p + 1) + x
         /\ \A x \in 1 .. m :
              (2 + n) + x \in 1 .. t /\ p + ((2 + n) + x) = ((p + 2) + n) + x
<1>1. /\ (p + 1) + n <= e /\ ((p + 2) + n) + m <= e /\ (p + 2) + n \in Nat
      /\ 1 \in 1 .. t /\ t \in 1 .. t /\ 2 + n \in 1 .. t /\ (n + m) + 3 \in 1 .. t
      /\ p + (2 + n) = (p + 2) + n /\ p + ((n + m) + 3) = (p + t) - 1
  OBVIOUS
<1>2. \A x \in 1 .. n : 1 + x \in 1 .. t /\ p + (1 + x) = (p + 1) + x
  OBVIOUS
<1>3. \A x \in 1 .. m :
        (2 + n) + x \in 1 .. t /\ p + ((2 + n) + x) = ((p + 2) + n) + x
  OBVIOUS
<1> QED BY <1>1, <1>2, <1>3

\* Codes of which one has nodes put in.
LEMMA SplicedIs ==
  ASSUME NEW s, Good(s), NEW r, Good(r), NEW p \in Nat, NEW k \in Nat, k >= 2,
         p + k <= Len(s), NEW nodes, PutIn(r, s, p, k, nodes),
         \A i \in p + 1 .. p + k : s[i].op # "branch_target"
  PROVE  Spliced(s, r, p, k, Len(nodes)) /\ p + Len(nodes) <= Len(r)
<1>1. /\ Len(s) \in Nat /\ Len(nodes) \in Nat /\ Len(r) = (Len(s) - k) + Len(nodes)
      /\ \A i \in 1 .. p : r[i] = s[i]
      /\ \A i \in p + k + 1 .. Len(s) : r[(i - k) + Len(nodes)] = s[i]
  BY DEF PutIn
<1>2. p + Len(nodes) <= Len(r)
  BY <1>1
<1> QED BY <1>1, <1>2 DEF Spliced

\* inline_exec's.
LEMMA ExecSiteIs ==
  ASSUME NEW s, Good(s), NEW r, Good(r), NEW p \in Nat, p + 2 <= Len(s),
         IsLambda(s[p + 1]), s[p + 2].op = "exec",
         NEW body, body = s[p + 1].code, PutIn(r, s, p, 2, body)
  PROVE  \E k, m : Site(s, r, p, k, m)
<1>1. p + 1 \in DOMAIN s /\ Len(s) \in Nat
  <2>1. Len(s) \in Nat /\ DOMAIN s = 1 .. Len(s)
    BY GoodPiece, SeqIndices DEF Piece
  <2> QED BY <2>1
<1>2. Good(body) /\ s[p + 1].op # "branch_target"
  BY <1>1, BodyOwn
<1>3. \A i \in p + 1 .. p + 2 : i = p + 1 \/ i = p + 2
  OBVIOUS
<1>4. \A i \in p + 1 .. p + 2 : s[i].op # "branch_target"
  BY <1>2, <1>3
<1>5. Spliced(s, r, p, 2, Len(body)) /\ p + Len(body) <= Len(r)
  BY <1>4, SplicedIs
<1>6. Within(r, body, p)
  BY <1>2, <1>5 DEF Within, PutIn
<1>7. ExecSite(s, r, p, 2, Len(body))
  BY <1>5, <1>6 DEF ExecSite
<1> QED BY <1>7 DEF Site

\* inline_cond_exec's.
LEMMA CondSiteIs ==
  ASSUME NEW s, Good(s), NEW r, Good(r), NEW p \in Nat, p + 2 <= Len(s),
         IsLambda(s[p + 1]), s[p + 2].op = "cond_exec",
         NEW body, body = s[p + 1].code, NEW l, NEW nodes, Branching(nodes, body, l),
         PutIn(r, s, p, 2, nodes)
  PROVE  \E k, m : Site(s, r, p, k, m)
<1>1. p + 1 \in DOMAIN s /\ Len(s) \in Nat
  <2>1. Len(s) \in Nat /\ DOMAIN s = 1 .. Len(s)
    BY GoodPiece, SeqIndices DEF Piece
  <2> QED BY <2>1
<1>2. Good(body) /\ s[p + 1].op # "branch_target"
  BY <1>1, BodyOwn
<1>3. \A i \in p + 1 .. p + 2 : i = p + 1 \/ i = p + 2
  OBVIOUS
<1>4. \A i \in p + 1 .. p + 2 : s[i].op # "branch_target"
  BY <1>2, <1>3
<1>5. Spliced(s, r, p, 2, Len(nodes)) /\ p + Len(nodes) <= Len(r)
  BY <1>4, SplicedIs
<1>6. PICK n \in Nat, m \in Nat : n = Len(body) /\ m = n + 2
  BY DEF Branching
<1>7. Len(nodes) = m /\ nodes[1] = Labelled("branch_if_false", l)
      /\ nodes[m] = Labelled("branch_target", l)
      /\ \A x \in 1 .. n : nodes[1 + x] = body[x]
  BY <1>6 DEF Branching
<1>8. \A x \in 1 .. m : r[p + x] = nodes[x]
  BY <1>7 DEF PutIn
<1>9. r[p + 1] = Labelled("branch_if_false", l) /\ r[p + m] = Labelled("branch_target", l)
  <2>1. 1 \in 1 .. m /\ m \in 1 .. m
    BY <1>6
  <2> QED BY <1>7, <1>8, <2>1
<1>10. Within(r, body, p + 1)
  <2>1. PICK e \in Nat : e = Len(r) /\ p + (n + 2) <= e
    <3>1. p + m <= Len(r) /\ Len(r) \in Nat
      BY <1>5, <1>7, GoodPiece, SeqIndices DEF Piece
    <3> QED BY <1>6, <3>1
  <2>2. /\ (p + 1) + n <= e
        /\ \A x \in 1 .. n : 1 + x \in 1 .. n + 2 /\ p + (1 + x) = (p + 1) + x
    BY <2>1, BranchingNumbers
  <2>3. ASSUME NEW x \in 1 .. n
        PROVE  r[(p + 1) + x] = body[x]
    <3>1. 1 + x \in 1 .. m /\ p + (1 + x) = (p + 1) + x
      BY <1>6, <2>2
    <3> QED BY <1>7, <1>8, <3>1
  <2>4. p + 1 \in Nat
    OBVIOUS
  <2>5. (p + 1) + Len(body) <= Len(r)
    BY <1>6, <2>1, <2>2
  <2> QED BY <1>2, <1>6, <2>3, <2>4, <2>5 DEF Within
<1>11. CondSite(s, r, p, 2, m)
  BY <1>5, <1>6, <1>7, <1>9, <1>10 DEF CondSite
<1> QED BY <1>11 DEF Site

\* inline_while's.
LEMMA WhileSiteIs ==
  ASSUME NEW s, Good(s), NEW r, Good(r), NEW p \in Nat, p + 3 <= Len(s),
         IsLambda(s[p + 1]), IsLambda(s[p + 2]), s[p + 3].op = "while",
         NEW cond, cond = s[p + 1].code, NEW body, body = s[p + 2].code,
         NEW l, NEW h, NEW nodes, Looping(nodes, cond, body, l, h),
         PutIn(r, s, p, 3, nodes)
  PROVE  \E k, m : Site(s, r, p, k, m)
<1>1. p + 1 \in DOMAIN s /\ p + 2 \in DOMAIN s /\ Len(s) \in Nat
  <2>1. Len(s) \in Nat /\ DOMAIN s = 1 .. Len(s)
    BY GoodPiece, SeqIndices DEF Piece
  <2> QED BY <2>1
<1>2. /\ Good(cond) /\ s[p + 1].op # "branch_target"
      /\ Good(body) /\ s[p + 2].op # "branch_target"
  BY <1>1, BodyOwn
<1>3. \A i \in p + 1 .. p + 3 : i = p + 1 \/ i = p + 2 \/ i = p + 3
  OBVIOUS
<1>4. \A i \in p + 1 .. p + 3 : s[i].op # "branch_target"
  BY <1>2, <1>3
<1>5. Spliced(s, r, p, 3, Len(nodes)) /\ p + Len(nodes) <= Len(r)
  <2>1. 3 \in Nat /\ 3 >= 2
    OBVIOUS
  <2> QED BY <1>4, <2>1, SplicedIs
<1>6. PICK n \in Nat, m \in Nat, t \in Nat :
        n = Len(cond) /\ m = Len(body) /\ t = (n + m) + 4
  BY DEF Looping
<1>7. /\ Len(nodes) = t /\ nodes[1] = Labelled("branch_target", l)
      /\ \A x \in 1 .. n : nodes[1 + x] = cond[x]
      /\ nodes[2 + n] = Labelled("branch_if_false", h)
      /\ \A x \in 1 .. m : nodes[(2 + n) + x] = body[x]
      /\ nodes[(n + m) + 3] = Labelled("branch", l)
      /\ nodes[t] = Labelled("branch_target", h)
  BY <1>6 DEF Looping
<1>8. \A x \in 1 .. t : r[p + x] = nodes[x]
  BY <1>7 DEF PutIn
<1>9. PICK e \in Nat : e = Len(r) /\ p + t <= e
  <2>1. p + t <= Len(r) /\ Len(r) \in Nat
    BY <1>5, <1>7, GoodPiece, SeqIndices DEF Piece
  <2> QED BY <2>1
<1>10. /\ (p + 1) + n <= e /\ ((p + 2) + n) + m <= e /\ (p + 2) + n \in Nat
       /\ 1 \in 1 .. t /\ t \in 1 .. t /\ 2 + n \in 1 .. t /\ (n + m) + 3 \in 1 .. t
       /\ p + (2 + n) = (p + 2) + n /\ p + ((n + m) + 3) = (p + t) - 1
       /\ \A x \in 1 .. n : 1 + x \in 1 .. t /\ p + (1 + x) = (p + 1) + x
       /\ \A x \in 1 .. m :
            (2 + n) + x \in 1 .. t /\ p + ((2 + n) + x) = ((p + 2) + n) + x
  <2>1. t = (n + m) + 4 /\ p + t <= e
    BY <1>6, <1>9
  <2> QED BY <2>1, LoopingNumbers
<1>11. /\ r[p + 1] = Labelled("branch_target", l)
       /\ r[(p + 2) + n] = Labelled("branch_if_false", h)
       /\ r[(p + t) - 1] = Labelled("branch", l)
       /\ r[p + t] = Labelled("branch_target", h)
  <2>1. r[p + 1] = nodes[1] /\ r[p + t] = nodes[t] /\ r[p + (2 + n)] = nodes[2 + n]
        /\ r[p + ((n + m) + 3)] = nodes[(n + m) + 3]
    BY <1>8, <1>10
  <2> QED BY <1>7, <1>10, <2>1
<1>12. Within(r, cond, p + 1)
  <2>1. ASSUME NEW x \in 1 .. n
        PROVE  r[(p + 1) + x] = cond[x]
    <3>1. 1 + x \in 1 .. t /\ p + (1 + x) = (p + 1) + x
      BY <1>10
    <3> QED BY <1>7, <1>8, <3>1
  <2>2. p + 1 \in Nat /\ (p + 1) + Len(cond) <= Len(r)
    <3>1. p + 1 \in Nat
      OBVIOUS
    <3>2. (p + 1) + n <= e
      BY <1>10
    <3> QED BY <1>6, <1>9, <3>1, <3>2
  <2>3. \A x \in 1 .. Len(cond) : r[(p + 1) + x] = cond[x]
    BY <1>6, <2>1
  <2> QED BY <1>2, <2>2, <2>3 DEF Within
<1>13. Within(r, body, (p + 2) + n)
  <2>1. ASSUME NEW x \in 1 .. m
        PROVE  r[((p + 2) + n) + x] = body[x]
    <3>1. (2 + n) + x \in 1 .. t /\ p + ((2 + n) + x) = ((p + 2) + n) + x
      BY <1>10
    <3> QED BY <1>7, <1>8, <3>1
  <2>2. ((p + 2) + n) + Len(body) <= Len(r)
    BY <1>6, <1>9, <1>10
  <2>3. \A x \in 1 .. Len(body) : r[((p + 2) + n) + x] = body[x]
    BY <1>6, <2>1
  <2> QED BY <1>2, <1>10, <2>2, <2>3 DEF Within
<1>14. n = Len(s[p + 1].code) /\ m = Len(s[p + 2].code) /\ t = n + m + 4
  BY <1>6
<1>15. Within(r, s[p + 1].code, p + 1) /\ Within(r, s[p + 2].code, p + 2 + n)
  BY <1>12, <1>13
<1>16. Spliced(s, r, p, 3, t)
  BY <1>5, <1>7
<1>17. \E x, y : /\ r[p + 1] = Labelled("branch_target", x)
                 /\ r[p + 2 + n] = Labelled("branch_if_false", y)
                 /\ r[p + t - 1] = Labelled("branch", x)
                 /\ r[p + t] = Labelled("branch_target", y)
  BY <1>11
<1>18. WhileSite(s, r, p, 3, t)
  BY <1>14, <1>15, <1>16, <1>17, Zenon DEF WhileSite
<1> QED BY <1>18 DEF Site

-----------------------------------------------------------------------------
(* Codes whose lambdas are known.                                          *)

\* Every code of U with itself.
Diag(U) == {<<l, l>> : l \in U}

\* U has the lambdas of its codes.
Universe(U) == \A c \in U : LikeItself(Diag(U), c)

\* c with the code d in the lambda at its index.
Rebuilt(c, d) == [c.code EXCEPT ![c.i].code = d]

\* r is s with the code d in its lambda at i.
BodyPut(r, s, i, d) ==
  /\ IsSeq(r) /\ IsSeq(s) /\ i \in DOMAIN s /\ DOMAIN r = DOMAIN s /\ Len(r) = Len(s)
  /\ IsLambda(s[i]) /\ IsLambda(r[i]) /\ r[i].code = d
  /\ \A k \in DOMAIN s \ {i} : r[k] = s[k]

\* W[k] is what the activation k is at, with the code t in the last of n.
Whole(W, cs, t, n) ==
  W[n] = t /\ \A k \in 1 .. n - 1 : W[k] = Rebuilt(cs[k], W[k + 1])

\* Where known codes are like themselves.
LEMMA AlikeIn ==
  ASSUME NEW U, NEW n
  PROVE  NodesAlike(Diag(U), n, n) <=> n.op \in Ops /\ (IsLambda(n) => n.code \in U)
  BY DEF NodesAlike, Diag

\* What is alike is so in more.
LEMMA AlikeMore ==
  ASSUME NEW R, NEW S, R \subseteq S
  PROVE  /\ \A n, m : NodesAlike(R, n, m) => NodesAlike(S, n, m)
         /\ \A c : LikeItself(R, c) => LikeItself(S, c)
         /\ \A c, d : SameCode(R, c, d) => SameCode(S, c, d)
<1>1. \A n, m : NodesAlike(R, n, m) => NodesAlike(S, n, m)
  BY DEF NodesAlike
<1>2. ASSUME NEW c, LikeItself(R, c)
      PROVE  LikeItself(S, c)
  BY <1>1, <1>2 DEF LikeItself
<1>3. ASSUME NEW c, NEW d, SameCode(R, c, d)
      PROVE  SameCode(S, c, d)
  BY <1>1, <1>3 DEF SameCode
<1> QED BY <1>1, <1>2, <1>3

\* A code is the same as itself.
LEMMA SameItself ==
  ASSUME NEW R, NEW c, LikeItself(R, c)
  PROVE  SameCode(R, c, c)
  BY DEF LikeItself, SameCode

\* The diagonal grows with the set.
LEMMA DiagMore ==
  ASSUME NEW U, NEW V, U \subseteq V
  PROVE  Diag(U) \subseteq Diag(V)
  BY DEF Diag

\* What parse builds is known.
LEMMA ProgramsKnown == Universe(Programs)
<1>1. ASSUME NEW c \in Programs
      PROVE  LikeItself(Diag(Programs), c)
  <2>1. /\ IsSeq(c)
        /\ \A i \in DOMAIN c : c[i].op \in Ops /\ (IsLambda(c[i]) => c[i].code \in Programs)
    BY ProgramIs DEF IsSeq
  <2> QED BY <2>1, AlikeIn DEF LikeItself
<1> QED BY <1>1 DEF Universe

\* A code put into a lambda.
LEMMA RebuiltPut ==
  ASSUME NEW c, IsSeq(c.code), c.i \in DOMAIN c.code, IsLambda(c.code[c.i]),
         IsNode(c.code[c.i]), NEW d
  PROVE  BodyPut(Rebuilt(c, d), c.code, c.i, d)
<1>1. PICK s : s = c.code
  OBVIOUS
<1>2. PICK i : i = c.i
  OBVIOUS
<1>3. PICK e : e = [s[i] EXCEPT !.code = d]
  OBVIOUS
<1>4. PICK r : r = [s EXCEPT ![i] = e]
  OBVIOUS
<1>5. r = Rebuilt(c, d)
  BY <1>1, <1>2, <1>3, <1>4 DEF Rebuilt
<1>6. /\ IsSeq(s) /\ i \in DOMAIN s /\ IsLambda(s[i]) /\ IsNode(s[i])
      /\ Len(s) \in Nat /\ DOMAIN s = 1 .. Len(s)
  BY <1>1, <1>2, SeqIndices
<1>7. IsLambda(e) /\ e.code = d
  <2>1. s[i] = [op |-> s[i].op, code |-> s[i].code, label |-> s[i].label]
    BY <1>6 DEF IsNode, Node
  <2>2. e = [op |-> s[i].op, code |-> d, label |-> s[i].label]
    BY <1>3, <2>1
  <2> QED BY <1>6, <2>2 DEF IsLambda
<1>8. /\ DOMAIN r = DOMAIN s /\ r[i] = e
      /\ \A k \in DOMAIN s \ {i} : r[k] = s[k]
  BY <1>4, <1>6
<1>9. IsSeq(r) /\ Len(r) = Len(s)
  <2>1. PICK S : s \in Seq(S)
    BY <1>6 DEF IsSeq
  <2>2. PICK T : T = S \cup {e}
    OBVIOUS
  <2>3. s \in Seq(T) /\ e \in T /\ i \in 1 .. Len(s)
    BY <1>6, <2>1, <2>2, SeqMonotonic
  <2>4. r \in Seq(T) /\ Len(r) = Len(s)
    BY <1>4, <2>3, ExceptSeq
  <2> QED BY <2>4 DEF IsSeq
<1> QED BY <1>1, <1>2, <1>5, <1>6, <1>7, <1>8, <1>9 DEF BodyPut

\* A known code put into a known one makes one that is like itself.
LEMMA BodyPutLike ==
  ASSUME NEW R, NEW s, LikeItself(R, s), NEW r, NEW i, NEW d, BodyPut(r, s, i, d),
         <<d, d>> \in R
  PROVE  LikeItself(R, r)
<1>1. ASSUME NEW k \in DOMAIN r
      PROVE  NodesAlike(R, r[k], r[k])
  <2>1. CASE k = i
    <3>1. r[k].op = "lambda" /\ r[k].code = d
      BY <2>1 DEF BodyPut, IsLambda
    <3> QED BY <3>1 DEF NodesAlike, Ops
  <2>2. CASE k # i
    <3>1. r[k] = s[k] /\ k \in DOMAIN s
      BY <1>1, <2>2 DEF BodyPut
    <3> QED BY <3>1 DEF LikeItself
  <2> QED BY <2>1, <2>2
<1> QED BY <1>1 DEF LikeItself, BodyPut

\* Codes that mean the same, put into one lambda.
LEMMA BodyPutSame ==
  ASSUME NEW R, NEW s, LikeItself(R, s), NEW r, NEW q, NEW i, NEW d, NEW e,
         BodyPut(r, s, i, d), BodyPut(q, s, i, e), <<d, e>> \in R
  PROVE  SameCode(R, r, q)
<1>1. /\ IsSeq(r) /\ IsSeq(q) /\ Len(r) = Len(q) /\ DOMAIN r = DOMAIN s
      /\ DOMAIN q = DOMAIN s
  BY DEF BodyPut
<1>2. ASSUME NEW k \in DOMAIN s
      PROVE  \/ /\ k = i /\ r[k].op = "lambda" /\ q[k].op = "lambda"
                /\ r[k].code = d /\ q[k].code = e
             \/ k # i /\ r[k] = s[k] /\ q[k] = s[k]
  BY DEF BodyPut, IsLambda
<1>3. ASSUME NEW k \in DOMAIN s
      PROVE  NodesAlike(R, r[k], q[k])
  <2>1. CASE k = i
    <3>1. /\ r[k].op = "lambda" /\ q[k].op = "lambda" /\ r[k].code = d /\ q[k].code = e
      BY <1>2, <2>1
    <3> QED BY <3>1 DEF NodesAlike, Ops
  <2>2. CASE k # i
    <3>1. r[k] = s[k] /\ q[k] = s[k]
      BY <1>2, <2>2
    <3> QED BY <3>1 DEF LikeItself
  <2> QED BY <2>1, <2>2
<1>4. ASSUME NEW l
      PROVE  Targets(r, l) = Targets(q, l)
  <2>1. PICK t : t = Labelled("branch_target", l)
    OBVIOUS
  <2>2. t.op # "lambda"
    BY <2>1 DEF Labelled, Node
  <2>3. \A k \in DOMAIN s : r[k] = t <=> q[k] = t
    BY <1>2, <2>2
  <2>4. {k \in DOMAIN s : r[k] = t} = {k \in DOMAIN s : q[k] = t}
    BY <2>3
  <2> QED BY <1>1, <2>1, <2>4 DEF Targets
<1>5. ASSUME NEW k \in DOMAIN r, r[k].op \in Branches
      PROVE  Targets(r, r[k].label) = Targets(q, q[k].label)
  <2>1. r[k] = q[k]
    <3>1. k \in DOMAIN s
      BY <1>1
    <3>2. r[k].op # "lambda"
      BY <1>5 DEF Branches
    <3> QED BY <1>2, <3>1, <3>2
  <2> QED BY <1>4, <2>1
<1> QED BY <1>1, <1>3, <1>5 DEF SameCode

\* A whole can be had for every code of the last activation.
LEMMA WholeExists ==
  ASSUME NEW cs, NEW t, NEW n \in Nat, n > 0
  PROVE  \E W : Whole(W, cs, t, n)
<1> DEFINE Upto(W, j) ==
             W[n] = t /\ \A k \in n - j .. n - 1 : W[k] = Rebuilt(cs[k], W[k + 1])
           Bad == {j \in Nat : j < n /\ ~\E W : Upto(W, j)}
<1>1. ASSUME Bad # {}
      PROVE  FALSE
  <2>1. PICK j \in Bad : \A y \in Bad : j <= y
    <3>1. Bad \in SUBSET Nat
      OBVIOUS
    <3> HIDE DEF Bad
    <3> QED BY <1>1, <3>1, LeastNatural
  <2>2. j \in Nat /\ j < n
    BY <2>1
  <2>3. CASE j = 0
    <3> DEFINE W == [x \in {n} |-> t]
    <3>1. W[n] = t
      OBVIOUS
    <3>2. \A k \in n - 0 .. n - 1 : FALSE
      OBVIOUS
    <3> HIDE DEF W
    <3>3. Upto(W, 0)
      BY <3>1, <3>2
    <3> QED BY <2>1, <2>3, <3>3
  <2>4. CASE j # 0
    <3>1. j - 1 \in Nat /\ ~(j <= j - 1) /\ j - 1 < n
      BY <2>2, <2>4
    <3>2. PICK g : Upto(g, j - 1)
      BY <2>1, <3>1
    <3>3. PICK p \in Nat : p = n - j
      BY <2>2
    <3>4. PICK z : z = Rebuilt(cs[p], g[p + 1])
      OBVIOUS
    <3> DEFINE W == [x \in 1 .. n |-> IF x = p THEN z ELSE g[x]]
    <3>5. p \in 1 .. n /\ n \in 1 .. n /\ p # n /\ p + 1 \in 1 .. n /\ p + 1 # p
      BY <2>2, <2>4, <3>3
    <3>6. W[n] = g[n] /\ W[p] = z /\ W[p + 1] = g[p + 1]
      BY <3>5
    <3>7. ASSUME NEW k \in n - j .. n - 1, k # p
          PROVE  W[k] = g[k] /\ W[k + 1] = g[k + 1] /\ k \in n - (j - 1) .. n - 1
      <4>1. k \in 1 .. n /\ k + 1 \in 1 .. n /\ k + 1 # p /\ k \in n - (j - 1) .. n - 1
        BY <2>2, <3>3, <3>5, <3>7
      <4> QED BY <3>7, <4>1
    <3> HIDE DEF W
    <3>8. ASSUME NEW k \in n - j .. n - 1
          PROVE  W[k] = Rebuilt(cs[k], W[k + 1])
      <4>1. CASE k = p
        BY <3>4, <3>6, <4>1
      <4>2. CASE k # p
        <5>1. W[k] = g[k] /\ W[k + 1] = g[k + 1] /\ k \in n - (j - 1) .. n - 1
          BY <3>7, <4>2
        <5> QED BY <3>2, <5>1
      <4> QED BY <4>1, <4>2
    <3>9. Upto(W, j)
      BY <3>2, <3>6, <3>8
    <3> QED BY <2>1, <3>9
  <2> QED BY <2>3, <2>4
<1>2. n - 1 \in Nat /\ n - 1 < n
  OBVIOUS
<1>3. PICK W : Upto(W, n - 1)
  BY <1>1, <1>2
<1>4. \A k \in 1 .. n - 1 : k \in n - (n - 1) .. n - 1
  OBVIOUS
<1> QED BY <1>3, <1>4 DEF Whole

-----------------------------------------------------------------------------
(* The whole program while one of its lambdas is optimized.                *)

\* All but the last of n activations are at a lambda.
AllWait(cs, n) ==
  \A k \in 1 .. n - 1 :
    /\ IsSeq(cs[k].code) /\ cs[k].i \in DOMAIN cs[k].code
    /\ IsLambda(cs[k].code[cs[k].i]) /\ IsNode(cs[k].code[cs[k].i])

\* The whole means what src means, and all its codes are known.
Meant(U, W, cs, n, src) ==
  /\ Universe(U) /\ Programs \subseteq U
  /\ Whole(W, cs, cs[n].code, n)
  /\ \A k \in 1 .. n : W[k] \in U /\ cs[k].code \in U
  /\ \A operands \in Operands : Same(src, W[1], operands)

\* The old whole and the new one, with what is in them.
Paired(W, V, n, U) == Diag(U) \cup {<<W[k], V[k]>> : k \in 1 .. n}

\* A code of the last activation that means the same gives a whole that does.
LEMMA WholesPaired ==
  ASSUME NEW U, Universe(U), NEW n \in Nat, n > 0, NEW cs, AllWait(cs, n),
         NEW W, NEW V, NEW t, NEW r, Whole(W, cs, t, n), Whole(V, cs, r, n),
         \A k \in 1 .. n : W[k] \in U /\ cs[k].code \in U,
         LikeItself(Diag(U), r), OneInlined(Diag(U), t, r),
         NEW X, X = U \cup {V[k] : k \in 1 .. n}
  PROVE  Universe(X) /\ Justified(Paired(W, V, n, X))
<1>1. Diag(U) \subseteq Diag(X) /\ Diag(X) \subseteq Paired(W, V, n, X)
  BY DiagMore DEF Paired
<1>2. \A c \in U : LikeItself(Diag(X), c)
  BY <1>1, AlikeMore DEF Universe
<1>3. ASSUME NEW k \in 1 .. n, k # n
      PROVE  /\ cs[k].code \in U
             /\ k + 1 \in 1 .. n
             /\ BodyPut(W[k], cs[k].code, cs[k].i, W[k + 1])
             /\ BodyPut(V[k], cs[k].code, cs[k].i, V[k + 1])
  <2>1. k \in 1 .. n - 1 /\ k + 1 \in 1 .. n
    BY <1>3
  <2>2. W[k] = Rebuilt(cs[k], W[k + 1]) /\ V[k] = Rebuilt(cs[k], V[k + 1])
    BY <2>1 DEF Whole
  <2>3. PICK c : c = cs[k]
    OBVIOUS
  <2>4. /\ IsSeq(c.code) /\ c.i \in DOMAIN c.code
        /\ IsLambda(c.code[c.i]) /\ IsNode(c.code[c.i])
    BY <2>1, <2>3 DEF AllWait
  <2>5. \A d : BodyPut(Rebuilt(c, d), c.code, c.i, d)
    BY <2>4, RebuiltPut
  <2> QED BY <2>1, <2>2, <2>3, <2>5
<1>4. n \in 1 .. n /\ V[n] = r /\ W[n] = t
  BY DEF Whole
<1>5. \A k \in 1 .. n : V[k] \in X
  OBVIOUS
<1>6. ASSUME NEW k \in 1 .. n
      PROVE  LikeItself(Diag(X), V[k])
  <2>1. CASE k = n
    BY <1>1, <1>4, <2>1, AlikeMore
  <2>2. CASE k # n
    <3>1. /\ LikeItself(Diag(X), cs[k].code)
          /\ BodyPut(V[k], cs[k].code, cs[k].i, V[k + 1])
          /\ <<V[k + 1], V[k + 1]>> \in Diag(X)
      BY <1>2, <1>3, <1>5, <2>2 DEF Diag
    <3> QED BY <3>1, BodyPutLike
  <2> QED BY <2>1, <2>2
<1>7. ASSUME NEW c \in X
      PROVE  LikeItself(Diag(X), c)
  BY <1>2, <1>6
<1>8. PICK R : R = Paired(W, V, n, X)
  OBVIOUS
<1>9. \A k \in 1 .. n : <<W[k], V[k]>> \in R
  BY <1>8 DEF Paired
<1>10. \A c : LikeItself(Diag(X), c) => LikeItself(R, c)
  BY <1>1, <1>8, AlikeMore
<1>11. ASSUME NEW k \in 1 .. n
       PROVE  SameCode(R, W[k], V[k]) \/ OneInlined(R, W[k], V[k])
  <2>1. CASE k = n
    <3>1. LikeItself(Diag(U), t) /\ \E p, j, m : Site(t, r, p, j, m)
      BY DEF OneInlined
    <3>2. LikeItself(R, t)
      BY <1>1, <1>10, <3>1, AlikeMore
    <3>3. OneInlined(R, t, r)
      BY <3>1, <3>2 DEF OneInlined
    <3> QED BY <1>4, <2>1, <3>3
  <2>2. CASE k # n
    <3>1. /\ LikeItself(R, cs[k].code)
          /\ BodyPut(W[k], cs[k].code, cs[k].i, W[k + 1])
          /\ BodyPut(V[k], cs[k].code, cs[k].i, V[k + 1])
          /\ <<W[k + 1], V[k + 1]>> \in R
      BY <1>2, <1>3, <1>9, <1>10, <2>2
    <3>2. SameCode(R, W[k], V[k])
      BY <3>1, BodyPutSame
    <3> QED BY <3>2
  <2> QED BY <2>1, <2>2
<1>12. ASSUME NEW c, NEW d, <<c, d>> \in R
       PROVE  SameCode(R, c, d) \/ OneInlined(R, c, d)
  <2>1. CASE <<c, d>> \in Diag(X)
    <3>1. c \in X /\ d = c
      BY <2>1 DEF Diag
    <3>2. LikeItself(R, c)
      BY <1>7, <1>10, <3>1
    <3> QED BY <3>1, <3>2, SameItself
  <2>2. CASE <<c, d>> \notin Diag(X)
    <3>1. PICK k \in 1 .. n : <<c, d>> = <<W[k], V[k]>>
      BY <1>8, <1>12, <2>2 DEF Paired
    <3>2. c = W[k] /\ d = V[k]
      BY <3>1
    <3> QED BY <1>11, <3>2
  <2> QED BY <2>1, <2>2
<1>13. Justified(R)
  BY <1>12 DEF Justified
<1> QED BY <1>7, <1>8, <1>13 DEF Universe

\* Operands are alike themselves.
LEMMA OperandsAlike ==
  ASSUME NEW operands \in Operands, NEW R, Diag(Programs) \subseteq R
  PROVE  StacksAlike(R, operands, operands)
<1>1. /\ operands \in Seq(Range(operands))
      /\ \A v \in Range(operands) : Constant(v) /\ (IsLambda(v) => v.code \in Programs)
  BY OperandsAssumption
<1>2. IsSeq(operands) /\ DOMAIN operands = 1 .. Len(operands)
  BY <1>1, SeqIndices DEF IsSeq
<1>3. ASSUME NEW i \in 1 .. Len(operands)
      PROVE  NodesAlike(R, operands[i], operands[i])
  <2>1. operands[i] \in Range(operands)
    BY <1>2 DEF Range
  <2>2. operands[i].op \in Ops
        /\ (IsLambda(operands[i]) => operands[i].code \in Programs)
    BY <1>1, <2>1 DEF Constant, Ops
  <2>3. NodesAlike(Diag(Programs), operands[i], operands[i])
    BY <2>2, AlikeIn
  <2> QED BY <2>3, AlikeMore
<1> QED BY <1>2, <1>3 DEF StacksAlike

\* What means the same as a code that means the same means the same.
LEMMA SameOn ==
  ASSUME NEW c, NEW d, NEW e, NEW operands, Same(c, d, operands), Same(d, e, operands)
  PROVE  Same(c, e, operands)
BY DEF Same

\* One lambda put in keeps the meaning of the whole.
LEMMA MeantInlined ==
  ASSUME NEW U, NEW W, NEW cs, NEW n \in Nat, n > 0, NEW src, Meant(U, W, cs, n, src),
         AllWait(cs, n), NEW r, LikeItself(Diag(U), r),
         OneInlined(Diag(U), cs[n].code, r),
         NEW ds, \A k \in 1 .. n - 1 : ds[k] = cs[k], ds[n].code = r
  PROVE  \E X, V : Meant(X, V, ds, n, src)
<1>1. /\ Universe(U) /\ Programs \subseteq U
      /\ Whole(W, cs, cs[n].code, n)
      /\ \A k \in 1 .. n : W[k] \in U /\ cs[k].code \in U
      /\ \A operands \in Operands : Same(src, W[1], operands)
  BY DEF Meant
<1>2. PICK V : Whole(V, cs, r, n)
  BY WholeExists
<1>3. PICK X : X = U \cup {V[k] : k \in 1 .. n}
  OBVIOUS
<1>4. Universe(X) /\ Justified(Paired(W, V, n, X))
  <2>1. PICK t : t = cs[n].code
    OBVIOUS
  <2>2. Whole(W, cs, t, n) /\ OneInlined(Diag(U), t, r)
    BY <1>1, <2>1
  <2> QED BY <1>1, <1>2, <1>3, <2>2, WholesPaired
<1>5. PICK R : R = Paired(W, V, n, X)
  OBVIOUS
<1>6. Programs \subseteq X /\ U \subseteq X
  BY <1>1, <1>3
<1>7. Diag(Programs) \subseteq R /\ <<W[1], V[1]>> \in R
  <2>1. Diag(Programs) \subseteq Diag(X)
    BY <1>6, DiagMore
  <2>2. 1 \in 1 .. n
    OBVIOUS
  <2> QED BY <1>5, <2>1, <2>2 DEF Paired
<1>8. ASSUME NEW operands \in Operands
      PROVE  Same(src, V[1], operands)
  <2>1. StacksAlike(R, operands, operands)
    BY <1>7, OperandsAlike
  <2>2. Same(W[1], V[1], operands)
    BY <1>4, <1>5, <1>7, <2>1, PairedSame
  <2> QED BY <1>1, <2>2, SameOn
<1>9. Whole(V, ds, r, n)
  BY <1>2 DEF Whole
<1>10. ASSUME NEW k \in 1 .. n
       PROVE  V[k] \in X /\ ds[k].code \in X
  <2>1. V[k] \in X
    BY <1>3
  <2>2. CASE k = n
    <3>1. V[n] = r
      BY <1>2 DEF Whole
    <3> QED BY <2>1, <2>2, <3>1
  <2>3. CASE k # n
    <3>1. k \in 1 .. n - 1
      BY <2>3
    <3> QED BY <1>1, <1>6, <2>1, <3>1
  <2> QED BY <2>2, <2>3
<1>11. Meant(X, V, ds, n, src)
  BY <1>4, <1>6, <1>8, <1>9, <1>10 DEF Meant
<1> QED BY <1>11

-----------------------------------------------------------------------------
(* What the passes put in is known.                                        *)

\* Labelled nodes are like themselves.
LEMMA LabelledLike ==
  ASSUME NEW R, NEW op \in Branches \cup {"branch_target"}, NEW l
  PROVE  NodesAlike(R, Labelled(op, l), Labelled(op, l))
<1>1. PICK n : n = Labelled(op, l)
  OBVIOUS
<1>2. n.op = op /\ op \in Ops /\ op # "lambda"
  BY <1>1 DEF Labelled, Node, Ops, Branches
<1>3. NodesAlike(R, n, n)
  BY <1>2 DEF NodesAlike, IsLambda
<1> QED BY <1>1, <1>3

\* Known nodes put into a known code.
LEMMA PutInLike ==
  ASSUME NEW R, NEW s, LikeItself(R, s), NEW nodes, LikeItself(R, nodes),
         NEW p \in Nat, NEW k \in Nat, p + k <= Len(s),
         NEW r, PutIn(r, s, p, k, nodes)
  PROVE  LikeItself(R, r)
<1>1. PICK n \in Nat, m \in Nat, e \in Nat :
        n = Len(s) /\ m = Len(nodes) /\ e = Len(r) /\ e = (n - k) + m /\ p + k <= n
  <2>1. Len(s) \in Nat /\ Len(nodes) \in Nat /\ Len(r) \in Nat
        /\ Len(r) = (Len(s) - k) + Len(nodes)
    BY SeqIndices DEF PutIn
  <2> QED BY <2>1
<1>2. /\ \A i \in 1 .. p : r[i] = s[i]
      /\ \A i \in 1 .. m : r[p + i] = nodes[i]
      /\ \A i \in p + k + 1 .. n : r[(i - k) + m] = s[i]
  BY <1>1 DEF PutIn
<1>3. /\ \A i \in 1 .. n : NodesAlike(R, s[i], s[i])
      /\ \A i \in 1 .. m : NodesAlike(R, nodes[i], nodes[i])
  BY <1>1, SeqIndices DEF LikeItself
<1>4. ASSUME NEW i \in 1 .. e
      PROVE  NodesAlike(R, r[i], r[i])
  <2>1. CASE i <= p
    <3>1. i \in 1 .. p /\ i \in 1 .. n
      BY <1>1, <2>1
    <3> QED BY <1>2, <1>3, <3>1
  <2>2. CASE i > p /\ i <= p + m
    <3>1. PICK j \in 1 .. m : p + j = i
      <4>1. i - p \in 1 .. m /\ p + (i - p) = i
        BY <2>2
      <4> QED BY <4>1
    <3>2. r[i] = nodes[j]
      BY <1>2, <3>1
    <3> QED BY <1>3, <3>2
  <2>3. CASE i > p + m
    <3>1. PICK j \in p + k + 1 .. n : (j - k) + m = i
      <4>1. (i - m) + k \in p + k + 1 .. n /\ (((i - m) + k) - k) + m = i
        BY <1>1, <2>3
      <4> QED BY <4>1
    <3>2. r[i] = s[j]
      BY <1>2, <3>1
    <3>3. j \in 1 .. n
      OBVIOUS
    <3> QED BY <1>3, <3>2, <3>3
  <2> QED BY <2>1, <2>2, <2>3
<1>5. DOMAIN r = 1 .. e /\ IsSeq(r)
  BY <1>1, SeqIndices DEF PutIn
<1> QED BY <1>4, <1>5 DEF LikeItself

\* The code of a conditional on a known body.
LEMMA BranchingLike ==
  ASSUME NEW R, NEW body, LikeItself(R, body), NEW l, NEW r, Branching(r, body, l)
  PROVE  LikeItself(R, r)
<1>1. PICK n \in Nat : n = Len(body)
  BY DEF Branching
<1>2. /\ IsSeq(r) /\ Len(r) = n + 2 /\ DOMAIN r = 1 .. n + 2
      /\ r[1] = Labelled("branch_if_false", l)
      /\ \A x \in 1 .. n : r[1 + x] = body[x]
      /\ r[n + 2] = Labelled("branch_target", l)
  BY <1>1, SeqIndices DEF Branching
<1>3. \A x \in 1 .. n : NodesAlike(R, body[x], body[x])
  BY <1>1, SeqIndices DEF LikeItself
<1>4. ASSUME NEW i \in 1 .. n + 2
      PROVE  NodesAlike(R, r[i], r[i])
  <2>1. CASE i = 1
    BY <1>2, <2>1, LabelledLike DEF Branches
  <2>2. CASE i \in 2 .. n + 1
    <3>1. PICK j \in 1 .. n : 1 + j = i
      <4>1. i - 1 \in 1 .. n /\ 1 + (i - 1) = i
        BY <2>2
      <4> QED BY <4>1
    <3> QED BY <1>2, <1>3, <3>1
  <2>3. CASE i = n + 2
    BY <1>2, <2>3, LabelledLike
  <2>4. i = 1 \/ i \in 2 .. n + 1 \/ i = n + 2
    OBVIOUS
  <2> QED BY <2>1, <2>2, <2>3, <2>4
<1> QED BY <1>2, <1>4 DEF LikeItself

\* The code of a loop over known ones.
LEMMA LoopingLike ==
  ASSUME NEW R, NEW cond, LikeItself(R, cond), NEW body, LikeItself(R, body),
         NEW l, NEW h, NEW r, Looping(r, cond, body, l, h)
  PROVE  LikeItself(R, r)
<1>1. PICK n \in Nat, m \in Nat : n = Len(cond) /\ m = Len(body)
  BY DEF Looping
<1>2. /\ IsSeq(r) /\ DOMAIN r = 1 .. (n + m) + 4
      /\ r[1] = Labelled("branch_target", l)
      /\ \A x \in 1 .. n : r[1 + x] = cond[x]
      /\ r[2 + n] = Labelled("branch_if_false", h)
      /\ \A x \in 1 .. m : r[(2 + n) + x] = body[x]
      /\ r[(n + m) + 3] = Labelled("branch", l)
      /\ r[(n + m) + 4] = Labelled("branch_target", h)
  BY <1>1, SeqIndices DEF Looping
<1>3. /\ \A x \in 1 .. n : NodesAlike(R, cond[x], cond[x])
      /\ \A x \in 1 .. m : NodesAlike(R, body[x], body[x])
  BY <1>1, SeqIndices DEF LikeItself
<1>4. ASSUME NEW i \in 1 .. (n + m) + 4
      PROVE  NodesAlike(R, r[i], r[i])
  <2>1. CASE i = 1
    BY <1>2, <2>1, LabelledLike
  <2>2. CASE i \in 2 .. n + 1
    <3>1. PICK j \in 1 .. n : 1 + j = i
      <4>1. i - 1 \in 1 .. n /\ 1 + (i - 1) = i
        BY <2>2
      <4> QED BY <4>1
    <3> QED BY <1>2, <1>3, <3>1
  <2>3. CASE i = 2 + n
    BY <1>2, <2>3, LabelledLike DEF Branches
  <2>4. CASE i \in n + 3 .. (n + m) + 2
    <3>1. PICK j \in 1 .. m : (2 + n) + j = i
      <4>1. i - (2 + n) \in 1 .. m /\ (2 + n) + (i - (2 + n)) = i
        BY <2>4
      <4> QED BY <4>1
    <3> QED BY <1>2, <1>3, <3>1
  <2>5. CASE i = (n + m) + 3
    BY <1>2, <2>5, LabelledLike DEF Branches
  <2>6. CASE i = (n + m) + 4
    BY <1>2, <2>6, LabelledLike
  <2>7. \/ i = 1 \/ i \in 2 .. n + 1 \/ i = 2 + n \/ i \in n + 3 .. (n + m) + 2
        \/ i = (n + m) + 3 \/ i = (n + m) + 4
    OBVIOUS
  <2> QED BY <2>1, <2>2, <2>3, <2>4, <2>5, <2>6, <2>7
<1> QED BY <1>2, <1>4 DEF LikeItself

-----------------------------------------------------------------------------
(* The optimizer keeps the meaning of the whole.                           *)

\* There is one activation once optimize is done, and before that what it has
\* made so far means what the source does.
MeaningInv ==
  /\ status \in {"done", "compiling", "compiled"} => Len(calls) = 1
  /\ ~moved /\ status # "aborted" =>
       \E U, W : Meant(U, W, calls, Len(calls), source)

\* r is s with c for its last.
LastIs(r, s, c) ==
  /\ Len(r) = Len(s) /\ \A k \in 1 .. Len(s) - 1 : r[k] = s[k]
  /\ r[Len(s)] = c

\* Activations that wait do so in good codes.
LEMMA CallsWait ==
  ASSUME LabelInv
  PROVE  AllWait(calls, Len(calls))
<1>1. Len(calls) \in Nat \ {0} /\ DOMAIN calls = 1 .. Len(calls)
  BY CurrentOK
<1>2. ASSUME NEW k \in 1 .. Len(calls) - 1
      PROVE  /\ IsSeq(calls[k].code) /\ calls[k].i \in DOMAIN calls[k].code
             /\ IsLambda(calls[k].code[calls[k].i])
             /\ IsNode(calls[k].code[calls[k].i])
  <2>1. k \in DOMAIN calls /\ k < Len(calls)
    BY <1>1
  <2>2. AtLambda(calls[k]) /\ Good(calls[k].code)
    BY <2>1 DEF LabelInv, CallOK
  <2>3. Closed(calls[k].code)
    BY <2>2, GoodPiece
  <2> QED BY <2>2, <2>3 DEF AtLambda, Closed
<1> QED BY <1>2 DEF AllWait

\* The last activation replaced.
LEMMA LastReplaced ==
  ASSUME LabelInv, NEW c, NEW r, r = [calls EXCEPT ![Len(calls)] = c]
  PROVE  LastIs(r, calls, c)
<1>1. /\ Len(calls) \in Nat \ {0} /\ DOMAIN calls = 1 .. Len(calls)
  BY CurrentOK
<1>2. PICK n \in Nat : n = Len(calls)
  BY <1>1
<1>3. PICK S : calls \in Seq(S)
  BY DEF LabelInv, IsSeq
<1>4. PICK T : T = S \cup {c}
  OBVIOUS
<1>5. calls \in Seq(T) /\ c \in T /\ n \in 1 .. Len(calls)
  BY <1>1, <1>2, <1>3, <1>4, SeqMonotonic
<1>6. r = [calls EXCEPT ![n] = c]
  BY <1>2
<1>7. /\ Len(r) = Len(calls)
      /\ \A k \in 1 .. Len(calls) : r[k] = IF k = n THEN c ELSE calls[k]
  BY <1>5, <1>6, ExceptSeq
<1>8. r[n] = c
  BY <1>5, <1>7
<1>9. ASSUME NEW k \in 1 .. n - 1
      PROVE  r[k] = calls[k]
  <2>1. k \in 1 .. n /\ k # n
    BY <1>2
  <2> QED BY <1>2, <1>7, <2>1
<1> QED BY <1>2, <1>7, <1>8, <1>9 DEF LastIs

\* The same codes have the same whole.
LEMMA MeantKept ==
  ASSUME NEW U, NEW W, NEW cs, NEW n \in Nat, n > 0, NEW src, Meant(U, W, cs, n, src),
         NEW ds, \A k \in 1 .. n - 1 : ds[k] = cs[k], ds[n].code = cs[n].code
  PROVE  Meant(U, W, ds, n, src)
<1>1. /\ Universe(U) /\ Programs \subseteq U
      /\ Whole(W, cs, cs[n].code, n)
      /\ \A k \in 1 .. n : W[k] \in U /\ cs[k].code \in U
      /\ \A operands \in Operands : Same(src, W[1], operands)
  BY DEF Meant
<1>2. Whole(W, ds, ds[n].code, n)
  BY <1>1 DEF Whole
<1>3. \A k \in 1 .. n : k = n \/ k \in 1 .. n - 1
  OBVIOUS
<1>4. \A k \in 1 .. n : W[k] \in U /\ ds[k].code \in U
  BY <1>1, <1>3
<1> QED BY <1>1, <1>2, <1>4 DEF Meant

\* optimize begins with the source.
LEMMA InitMeaning ==
  ASSUME Init
  PROVE  MeaningInv
<1>1. /\ source \in Programs /\ calls = <<Call(source)>> /\ status = "running"
  BY DEF Init, OptimizerInit
<1>2. Len(calls) = 1 /\ calls[1].code = source
  BY <1>1 DEF Call
<1> DEFINE W == [k \in {1} |-> source]
<1>3. W[1] = source
  OBVIOUS
<1> HIDE DEF W
<1>4. Whole(W, calls, calls[1].code, 1)
  <2>1. \A k \in 1 .. 1 - 1 : FALSE
    OBVIOUS
  <2> QED BY <1>2, <1>3, <2>1 DEF Whole
<1>5. \A operands \in Operands : Same(source, W[1], operands)
  BY <1>3 DEF Same
<1>6. \A k \in 1 .. 1 : k = 1
  OBVIOUS
<1>7. Meant(Programs, W, calls, 1, source)
  BY <1>1, <1>2, <1>3, <1>4, <1>5, <1>6, ProgramsKnown DEF Meant
<1> QED BY <1>1, <1>2, <1>7 DEF MeaningInv

\* Going on, at the same code.
LEMMA KeptMeaning ==
  ASSUME LabelInv, MeaningInv, NEW c, c.code = Current.code,
         calls' = [calls EXCEPT ![Len(calls)] = c],
         moved' = moved, status = "running", status' = status, source' = source
  PROVE  MeaningInv'
<1>1. /\ Len(calls) \in Nat \ {0} /\ Current = calls[Len(calls)]
  BY CurrentOK
<1>2. LastIs(calls', calls, c)
  <2>1. PICK r : r = [calls EXCEPT ![Len(calls)] = c]
    OBVIOUS
  <2> QED BY <2>1, LastReplaced
<1>3. PICK n \in Nat : n = Len(calls) /\ n > 0
  BY <1>1
<1>4. /\ Len(calls') = n /\ \A k \in 1 .. n - 1 : calls'[k] = calls[k]
      /\ calls'[n].code = calls[n].code
  BY <1>1, <1>2, <1>3 DEF LastIs
<1>5. ASSUME ~moved
      PROVE  \E U, W : Meant(U, W, calls', Len(calls'), source')
  <2>1. PICK U, W : Meant(U, W, calls, n, source)
    BY <1>3, <1>5 DEF MeaningInv
  <2>2. Meant(U, W, calls', n, source)
    BY <1>3, <1>4, <2>1, MeantKept
  <2> QED BY <1>4, <2>2
<1> QED BY <1>5 DEF MeaningInv

\* The body of a lambda of a known code is known.
LEMMA BodyKnown ==
  ASSUME NEW U, Universe(U), NEW s \in U, NEW i \in DOMAIN s, IsLambda(s[i])
  PROVE  s[i].code \in U /\ LikeItself(Diag(U), s[i].code)
<1>1. LikeItself(Diag(U), s)
  BY DEF Universe
<1>2. NodesAlike(Diag(U), s[i], s[i])
  BY <1>1 DEF LikeItself
<1>3. s[i].code \in U
  BY <1>2, AlikeIn
<1> QED BY <1>3 DEF Universe

\* A code with its own code in a lambda of it is what it was.
LEMMA RebuiltSame ==
  ASSUME NEW c, IsSeq(c.code), c.i \in DOMAIN c.code, IsNode(c.code[c.i]),
         NEW d, d = c.code[c.i].code
  PROVE  Rebuilt(c, d) = c.code
<1>1. PICK s : s = c.code
  OBVIOUS
<1>2. PICK i : i = c.i
  OBVIOUS
<1>3. PICK e : e = s[i]
  OBVIOUS
<1>4. [e EXCEPT !.code = d] = e
  <2>1. e = [op |-> e.op, code |-> e.code, label |-> e.label] /\ d = e.code
    BY <1>1, <1>2, <1>3 DEF IsNode, Node
  <2> QED BY <2>1
<1>5. Rebuilt(c, d) = [s EXCEPT ![i] = e]
  BY <1>1, <1>2, <1>3, <1>4 DEF Rebuilt
<1>6. [s EXCEPT ![i] = e] = s
  <2>1. PICK S : s \in Seq(S)
    BY <1>1 DEF IsSeq
  <2>2. s = [x \in DOMAIN s |-> s[x]]
    BY <2>1
  <2> QED BY <1>3, <2>2
<1> QED BY <1>1, <1>5, <1>6

\* A call of optimize on a lambda.
LEMMA DescendMeaning ==
  ASSUME LabelInv, MeaningInv, Descend
  PROVE  MeaningInv'
<1>1. PICK s : s = Current.code
  OBVIOUS
<1>2. PICK i : i = Current.i
  OBVIOUS
<1>3. LooksAt(s, i)
  BY <1>1, <1>2, AtIndex
<1>4. /\ Len(calls) \in Nat \ {0} /\ Current = calls[Len(calls)]
  BY CurrentOK
<1>5. NodeIs(0, "lambda") /\ moved' = moved /\ status' = status /\ source' = source
      /\ status = "running"
  BY DEF Descend, InPass
<1>6. /\ i \in DOMAIN s /\ IsLambda(s[i]) /\ BodyAt(0) = s[i].code
  <2>1. i + 0 = i
    BY <1>3 DEF LooksAt
  <2>2. /\ i + 0 \in DOMAIN s /\ s[i + 0].op = "lambda" /\ BodyAt(0) = s[i + 0].code
    BY <1>3, <1>5 DEF LooksAt
  <2> QED BY <2>1, <2>2 DEF IsLambda
<1>7. PICK body : body = s[i].code
  OBVIOUS
<1>8. PICK c : c = Call(body)
  OBVIOUS
<1>9. calls' = Append(calls, c) /\ c.code = body
  BY <1>6, <1>7, <1>8 DEF Descend, Call
<1>10. PICK n \in Nat : n = Len(calls) /\ n > 0
  BY <1>4
<1>11. /\ Len(calls') = n + 1 /\ calls'[n + 1] = c
       /\ \A k \in 1 .. n : calls'[k] = calls[k]
  <2>1. IsSeq(calls)
    BY DEF LabelInv
  <2>2. PICK r : r = Append(calls, c)
    OBVIOUS
  <2>3. Longer(r, calls, c)
    BY <2>1, <2>2, CallsAppended
  <2>4. Len(r) = n + 1 /\ r[n + 1] = c /\ \A k \in 1 .. n : r[k] = calls[k]
    BY <1>10, <2>3 DEF Longer
  <2> QED BY <1>9, <2>2, <2>4
<1>12. ASSUME ~moved
       PROVE  \E U, W : Meant(U, W, calls', Len(calls'), source')
  <2>1. PICK U, W : Meant(U, W, calls, n, source)
    BY <1>5, <1>10, <1>12 DEF MeaningInv
  <2>2. /\ Universe(U) /\ Programs \subseteq U
        /\ W[n] = s /\ \A k \in 1 .. n - 1 : W[k] = Rebuilt(calls[k], W[k + 1])
        /\ \A k \in 1 .. n : W[k] \in U /\ calls[k].code \in U
        /\ \A operands \in Operands : Same(source, W[1], operands)
    BY <1>1, <1>4, <1>10, <2>1 DEF Meant, Whole
  <2>3. body \in U
    <3>1. n \in 1 .. n
      BY <1>10
    <3>2. s \in U
      BY <2>2, <3>1
    <3> QED BY <1>6, <1>7, <2>2, <3>2, BodyKnown
  <2> DEFINE V == [k \in 1 .. n + 1 |-> IF k = n + 1 THEN body ELSE W[k]]
  <2>4. V[n + 1] = body /\ \A k \in 1 .. n : V[k] = W[k]
    <3>1. n + 1 \in 1 .. n + 1 /\ \A k \in 1 .. n : k \in 1 .. n + 1 /\ k # n + 1
      OBVIOUS
    <3> QED BY <3>1
  <2> HIDE DEF V
  <2>5. ASSUME NEW k \in 1 .. (n + 1) - 1
        PROVE  V[k] = Rebuilt(calls'[k], V[k + 1])
    <3>1. k \in 1 .. n
      OBVIOUS
    <3>2. V[k] = W[k] /\ calls'[k] = calls[k]
      BY <1>11, <2>4, <3>1
    <3>3. CASE k = n
      <4>1. PICK b : b = calls[n]
        OBVIOUS
      <4>2. b.code = s /\ b.i = i
        BY <1>1, <1>2, <1>4, <1>10, <4>1
      <4>3. IsSeq(s) /\ IsNode(s[i])
        <5>1. Good(s)
          BY <1>3 DEF LooksAt
        <5>2. Closed(s)
          BY <5>1, GoodPiece
        <5> QED BY <1>6, <5>2 DEF Closed
      <4>4. Rebuilt(b, body) = s
        BY <1>6, <1>7, <4>2, <4>3, RebuiltSame
      <4> QED BY <2>2, <2>4, <3>2, <3>3, <4>1, <4>4
    <3>4. CASE k # n
      <4>1. k \in 1 .. n - 1 /\ k + 1 \in 1 .. n
        BY <3>1, <3>4
      <4>2. V[k + 1] = W[k + 1]
        BY <2>4, <4>1
      <4> QED BY <2>2, <3>2, <4>1, <4>2
    <3> QED BY <3>3, <3>4
  <2>6. ASSUME NEW k \in 1 .. n + 1
        PROVE  V[k] \in U /\ calls'[k].code \in U
    <3>1. CASE k = n + 1
      BY <1>9, <1>11, <2>3, <2>4, <3>1
    <3>2. CASE k # n + 1
      <4>1. k \in 1 .. n
        BY <3>2
      <4> QED BY <1>11, <2>2, <2>4, <4>1
    <3> QED BY <3>1, <3>2
  <2>7. V[1] = W[1]
    <3>1. 1 \in 1 .. n
      BY <1>10
    <3> QED BY <2>4, <3>1
  <2>8. V[n + 1] = calls'[n + 1].code
    BY <1>9, <1>11, <2>4
  <2>9. Meant(U, V, calls', n + 1, source)
    BY <2>2, <2>5, <2>6, <2>7, <2>8 DEF Meant, Whole
  <2> QED BY <1>5, <1>11, <2>9
<1> QED BY <1>5, <1>12 DEF MeaningInv

\* A call that returns leaves its code in the lambda, where the whole has it.
LEMMA ReturnMeaning ==
  ASSUME LabelInv, MeaningInv, Return
  PROVE  MeaningInv'
<1>1. /\ Len(calls) \in Nat \ {0} /\ DOMAIN calls = 1 .. Len(calls)
      /\ Current = calls[Len(calls)]
      /\ moved' = moved /\ source' = source /\ status = "running"
  BY CurrentOK DEF Return, InPass
<1>2. CASE Len(calls) = 1
  <2>1. calls' = calls /\ status' = "done"
    BY <1>2 DEF Return
  <2> QED BY <1>1, <1>2, <2>1 DEF MeaningInv
<1>3. CASE Len(calls) # 1
  <2>1. PICK caller : caller = Last(Front(calls))
    OBVIOUS
  <2>2. PICK c : c = [caller EXCEPT !.code[caller.i].code = Current.code, !.i = @ + 1]
    OBVIOUS
  <2>3. calls' = Append(Front(Front(calls)), c) /\ status' = status
    BY <1>3, <2>1, <2>2 DEF Return
  <2>4. PICK r : r = Append(Front(Front(calls)), c)
    OBVIOUS
  <2>5. Shorter(r, calls, c)
    <3>1. IsSeq(calls) /\ Len(calls) > 1
      BY <1>1, <1>3 DEF LabelInv
    <3> QED BY <2>4, <3>1, CallsShortened
  <2>6. PICK h \in Nat :
          /\ Len(calls) = h + 2 /\ Last(Front(calls)) = calls[h + 1]
          /\ Len(r) = h + 1 /\ r[h + 1] = c /\ \A k \in 1 .. h : r[k] = calls[k]
    BY <2>5 DEF Shorter
  <2>7. c.code = Rebuilt(caller, Current.code)
    <3>1. h + 1 \in DOMAIN calls
      BY <1>1, <2>6
    <3>2. CallOK(caller, next_label)
      BY <2>1, <2>6, <3>1 DEF LabelInv
    <3>3. caller = [code |-> caller.code, pass |-> caller.pass, i |-> caller.i]
      BY <3>2 DEF CallOK
    <3>4. PICK d : d = Current.code
      OBVIOUS
    <3>5. c = [code |-> [caller.code EXCEPT ![caller.i].code = d],
               pass |-> caller.pass, i |-> caller.i + 1]
      BY <2>2, <3>3, <3>4
    <3> QED BY <3>4, <3>5 DEF Rebuilt
  <2>8. ASSUME ~moved
        PROVE  \E U, W : Meant(U, W, calls', Len(calls'), source')
    <3>1. PICK U, W : Meant(U, W, calls, h + 2, source)
      BY <1>1, <2>6, <2>8 DEF MeaningInv
    <3>2. /\ Universe(U) /\ Programs \subseteq U
          /\ W[h + 2] = Current.code
          /\ \A k \in 1 .. (h + 2) - 1 : W[k] = Rebuilt(calls[k], W[k + 1])
          /\ \A k \in 1 .. h + 2 : W[k] \in U /\ calls[k].code \in U
          /\ \A operands \in Operands : Same(source, W[1], operands)
      BY <1>1, <2>6, <3>1 DEF Meant, Whole
    <3>3. W[h + 1] = c.code
      <4>1. h + 1 \in 1 .. (h + 2) - 1 /\ (h + 1) + 1 = h + 2
        OBVIOUS
      <4>2. W[h + 1] = Rebuilt(calls[h + 1], W[h + 2])
        BY <3>2, <4>1
      <4> QED BY <2>1, <2>6, <2>7, <3>2, <4>2
    <3>4. ASSUME NEW k \in 1 .. (h + 1) - 1
          PROVE  W[k] = Rebuilt(r[k], W[k + 1])
      <4>1. k \in 1 .. h /\ k \in 1 .. (h + 2) - 1
        OBVIOUS
      <4> QED BY <2>6, <3>2, <4>1
    <3>5. ASSUME NEW k \in 1 .. h + 1
          PROVE  W[k] \in U /\ r[k].code \in U
      <4>1. k \in 1 .. h + 2
        OBVIOUS
      <4>2. CASE k = h + 1
        BY <2>6, <3>2, <3>3, <4>1, <4>2
      <4>3. CASE k # h + 1
        <5>1. k \in 1 .. h
          BY <4>3
        <5> QED BY <2>6, <3>2, <4>1, <5>1
      <4> QED BY <4>2, <4>3
    <3>6. Meant(U, W, r, h + 1, source)
      BY <2>6, <3>2, <3>3, <3>4, <3>5 DEF Meant, Whole
    <3> QED BY <1>1, <2>3, <2>4, <2>6, <3>6
  <2> QED BY <1>1, <2>3, <2>8 DEF MeaningInv
<1> QED BY <1>2, <1>3

\* The activation that runs goes on with the code r, which is good.
GoesWith(r) ==
  /\ Good(r) /\ Len(calls') = Len(calls)
  /\ \A k \in 1 .. Len(calls) - 1 : calls'[k] = calls[k]
  /\ calls'[Len(calls)].code = r

\* What Continue leaves.
LEMMA Continued ==
  ASSUME LabelInv, LabelInv', NEW r, NEW i, Continue(r, i)
  PROVE  GoesWith(r)
<1>1. /\ Len(calls) \in Nat \ {0} /\ Current = calls[Len(calls)]
      /\ CallOK(Current, next_label)
  BY CurrentOK
<1>2. PICK c : c = [Current EXCEPT !.code = r, !.i = i]
  OBVIOUS
<1>3. calls' = [calls EXCEPT ![Len(calls)] = c]
  BY <1>1, <1>2 DEF Continue
<1>4. c.code = r
  BY <1>1, <1>2 DEF CallOK
<1>5. LastIs(calls', calls, c)
  <2>1. PICK q : q = [calls EXCEPT ![Len(calls)] = c]
    OBVIOUS
  <2> QED BY <1>3, <2>1, LastReplaced
<1>6. Len(calls') = Len(calls) /\ calls'[Len(calls)] = c
      /\ \A k \in 1 .. Len(calls) - 1 : calls'[k] = calls[k]
  BY <1>5 DEF LastIs
<1>7. Good(r)
  <2>1. IsSeq(calls') /\ \A k \in DOMAIN calls' : CallOK(calls'[k], next_label')
    BY DEF LabelInv
  <2>2. DOMAIN calls' = 1 .. Len(calls')
    BY <2>1, SeqIndices
  <2>3. Len(calls) \in DOMAIN calls'
    BY <1>1, <1>6, <2>2
  <2> QED BY <1>4, <1>6, <2>1, <2>3 DEF CallOK
<1> QED BY <1>4, <1>6, <1>7 DEF GoesWith

\* A pass that puts in one lambda keeps the meaning of the whole.
LEMMA InlinedMeaning ==
  ASSUME LabelInv, MeaningInv, status = "running", ~moved, source' = source,
         NEW s, s = Current.code, NEW r, GoesWith(r),
         \E p, k, m : Site(s, r, p, k, m),
         \A U : Universe(U) /\ s \in U => LikeItself(Diag(U), r)
  PROVE  \E U, W : Meant(U, W, calls', Len(calls'), source')
<1>1. /\ Len(calls) \in Nat \ {0} /\ Current = calls[Len(calls)]
  BY CurrentOK
<1>2. PICK n \in Nat : n = Len(calls) /\ n > 0
  BY <1>1
<1>3. PICK U, W : Meant(U, W, calls, n, source)
  BY <1>2 DEF MeaningInv
<1>4. s \in U /\ Universe(U) /\ s = calls[n].code
  <2>1. n \in 1 .. n
    BY <1>2
  <2> QED BY <1>1, <1>2, <1>3, <2>1 DEF Meant
<1>5. LikeItself(Diag(U), r) /\ LikeItself(Diag(U), s)
  BY <1>4 DEF Universe
<1>6. OneInlined(Diag(U), calls[n].code, r)
  BY <1>4, <1>5 DEF OneInlined
<1>7. AllWait(calls, n)
  BY <1>2, CallsWait
<1>8. PICK ds : ds = calls'
  OBVIOUS
<1>9. (\A k \in 1 .. n - 1 : ds[k] = calls[k]) /\ ds[n].code = r
  BY <1>2, <1>8 DEF GoesWith
<1>10. \E X, V : Meant(X, V, ds, n, source)
  BY <1>2, <1>3, <1>5, <1>6, <1>7, <1>9, MeantInlined
<1>11. Len(calls') = n
  BY <1>2 DEF GoesWith
<1> QED BY <1>8, <1>10, <1>11

\* inline_exec, where it does not move what is behind.
LEMMA InlineExecMeaning ==
  ASSUME LabelInv, MeaningInv, InlineExec
  PROVE  MeaningInv'
<1>1. PICK s : s = Current.code
  OBVIOUS
<1>2. PICK i : i = Current.i
  OBVIOUS
<1>3. PICK body : body = s[i].code
  OBVIOUS
<1>4. PICK rest : rest = UnorderedRemove(UnorderedRemove(s, i + 1), i)
  OBVIOUS
<1>5. PICK r : r = ExtendBefore(rest, i, body)
  OBVIOUS
<1>6. LooksAt(s, i)
  BY <1>1, <1>2, AtIndex
<1>7. Good(s) /\ IsSeq(s) /\ Len(s) \in Nat /\ DOMAIN s = 1 .. Len(s)
      /\ i \in Nat /\ i > 0
  BY <1>6 DEF LooksAt
<1>8. i + 1 <= Len(s) /\ i \in 1 .. Len(s) /\ IsLambda(s[i]) /\ s[i + 1].op = "exec"
  BY <1>1, <1>2, <1>7 DEF InlineExec, AtExec, NodeIs, IsLambda
<1>9. /\ Continue(r, i + 1) /\ source' = source /\ status' = status
      /\ status = "running" /\ moved' = (moved \/ Len(s) - i >= 4)
  <2>1. BodyAt(0) = body
    BY <1>1, <1>2, <1>3, <1>7 DEF BodyAt
  <2> QED BY <1>1, <1>2, <1>4, <1>5, <2>1 DEF InlineExec, InPass
<1>10. GoesWith(r)
  BY <1>9, InlineExecLabels, Continued
<1>11. ASSUME ~moved'
       PROVE  \E U, W : Meant(U, W, calls', Len(calls'), source')
  <2>0. ~moved /\ ~(Len(s) - i >= 4)
    BY <1>9, <1>11, Zenon
  <2>1. ~moved /\ Len(s) - i < 4
    <3>1. Len(s) - i < 4
      BY <1>7, <2>0
    <3> QED BY <2>0, <3>1
  <2>2. TakenOut(rest, s, i, 2)
    BY <1>4, <1>7, <1>8, <2>1, ExecOut
  <2>3. IsSeq(body) /\ i \in DOMAIN s
    <3>1. Piece(body)
      BY <1>3, <1>7, <1>8, BodyOwn
    <3> QED BY <1>7, <1>8, <3>1 DEF Piece
  <2>4. PutIn(r, s, i - 1, 2, body)
    <3>1. 2 \in Nat /\ 2 >= 2 /\ i + 2 - 1 <= Len(s)
      BY <1>7, <1>8
    <3> QED BY <1>5, <1>7, <1>8, <2>2, <2>3, <3>1, PutInPlace
  <2>5. PICK p \in Nat : p = i - 1 /\ p + 1 = i /\ p + 2 = i + 1
    <3>1. i - 1 \in Nat /\ (i - 1) + 1 = i /\ (i - 1) + 2 = i + 1
      BY <1>7
    <3> QED BY <3>1
  <2>6. /\ PutIn(r, s, p, 2, body) /\ p + 2 <= Len(s) /\ body = s[p + 1].code
        /\ IsLambda(s[p + 1]) /\ s[p + 2].op = "exec"
    BY <1>3, <1>8, <2>4, <2>5
  <2>7. \E k, m : Site(s, r, p, k, m)
    BY <1>7, <1>10, <2>6, ExecSiteIs DEF GoesWith
  <2>8. ASSUME NEW U, Universe(U), s \in U
        PROVE  LikeItself(Diag(U), r)
    <3>1. LikeItself(Diag(U), body) /\ LikeItself(Diag(U), s)
      BY <1>3, <1>8, <2>3, <2>8, BodyKnown DEF Universe
    <3>2. 2 \in Nat
      OBVIOUS
    <3> QED BY <2>6, <3>1, <3>2, PutInLike
  <2> QED BY <1>1, <1>9, <1>10, <2>1, <2>7, <2>8, InlinedMeaning
<1> QED BY <1>9, <1>11 DEF MeaningInv

\* inline_cond_exec, if its assert does not fail.
LEMMA InlineCondExecMeaning ==
  ASSUME LabelInv, MeaningInv, InlineCondExec
  PROVE  MeaningInv'
<1>1. PICK s : s = Current.code
  OBVIOUS
<1>2. PICK i : i = Current.i
  OBVIOUS
<1>3. LooksAt(s, i)
  BY <1>1, <1>2, AtIndex
<1>4. /\ Good(s) /\ IsSeq(s) /\ Len(s) \in Nat /\ DOMAIN s = 1 .. Len(s)
      /\ i \in Nat /\ i > 0
      /\ \A k \in Nat : BodyAt(k) = s[i + k].code
      /\ \A k \in Nat : \A op : NodeIs(k, op) => i + k \in DOMAIN s /\ s[i + k].op = op
  BY <1>3 DEF LooksAt
<1>5. NodeIs(0, "lambda") /\ NodeIs(1, "cond_exec")
  BY DEF InlineCondExec, AtCondExec
<1>6. /\ i \in 1 .. Len(s) /\ IsLambda(s[i])
      /\ i + 1 <= Len(s) /\ s[i + 1].op = "cond_exec"
  <2>1. i + 0 = i /\ i + 0 \in DOMAIN s /\ s[i + 0].op = "lambda"
    BY <1>4, <1>5
  <2>2. i + 1 \in DOMAIN s /\ s[i + 1].op = "cond_exec"
    BY <1>4, <1>5
  <2> QED BY <1>4, <2>1, <2>2 DEF IsLambda
<1>7. PICK body : body = s[i].code
  OBVIOUS
<1>8. BodyAt(0) = body
  BY <1>4, <1>7
<1>9. PICK rest : rest = OrderedRemove(OrderedRemove(s, i + 1), i)
  OBVIOUS
<1>10. PICK ti : ti = IF body = << >> THEN <<Instruction("drop")>>
                      ELSE Conditional(body, next_label)
  OBVIOUS
<1>11. PICK r : r = ExtendBefore(rest, i, ti)
  OBVIOUS
<1>12. /\ Continue(r, i + Len(ti)) /\ source' = source /\ moved' = moved
       /\ status' = (IF Last(ti).op = "branch_target" THEN "running" ELSE "aborted")
       /\ status = "running"
  BY <1>1, <1>2, <1>8, <1>9, <1>10, <1>11 DEF InlineCondExec, InPass
<1>13. GoesWith(r)
  BY <1>12, InlineCondExecLabels, Continued
<1>14. ASSUME ~moved', status' # "aborted"
       PROVE  \E U, W : Meant(U, W, calls', Len(calls'), source')
  <2>1. body # << >>
    <3> SUFFICES ASSUME body = << >>
                 PROVE  FALSE
      OBVIOUS
    <3>1. PICK n : n = Instruction("drop")
      OBVIOUS
    <3>2. ti = <<n>> /\ n.op = "drop"
      BY <1>10, <3>1 DEF Instruction, Node
    <3>3. Last(ti) = n
      BY <3>2 DEF Last
    <3> QED BY <1>12, <1>14, <3>2, <3>3
  <2>2. TakenOut(rest, s, i, 2)
    BY <1>4, <1>6, <1>9, CondOut
  <2>3. IsSeq(body) /\ i \in DOMAIN s
    <3>1. Piece(body)
      BY <1>4, <1>6, <1>7, BodyOwn
    <3> QED BY <1>4, <1>6, <3>1 DEF Piece
  <2>4. PICK l : l = next_label
    OBVIOUS
  <2>5. Branching(ti, body, l)
    BY <1>10, <2>1, <2>3, <2>4, ConditionalIs
  <2>6. PutIn(r, s, i - 1, 2, ti)
    <3>1. 2 \in Nat /\ 2 >= 2 /\ i + 2 - 1 <= Len(s)
      BY <1>4, <1>6
    <3>2. IsSeq(ti)
      BY <2>5 DEF Branching
    <3> QED BY <1>4, <1>6, <1>11, <2>2, <3>1, <3>2, PutInPlace
  <2>7. PICK p \in Nat : p = i - 1 /\ p + 1 = i /\ p + 2 = i + 1
    <3>1. i - 1 \in Nat /\ (i - 1) + 1 = i /\ (i - 1) + 2 = i + 1
      BY <1>4
    <3> QED BY <3>1
  <2>8. /\ PutIn(r, s, p, 2, ti) /\ p + 2 <= Len(s) /\ body = s[p + 1].code
        /\ IsLambda(s[p + 1]) /\ s[p + 2].op = "cond_exec"
    BY <1>6, <1>7, <2>6, <2>7
  <2>9. \E k, m : Site(s, r, p, k, m)
    BY <1>4, <1>13, <2>5, <2>8, CondSiteIs DEF GoesWith
  <2>10. ASSUME NEW U, Universe(U), s \in U
         PROVE  LikeItself(Diag(U), r)
    <3>1. LikeItself(Diag(U), body) /\ LikeItself(Diag(U), s)
      BY <1>6, <1>7, <2>3, <2>10, BodyKnown DEF Universe
    <3>2. LikeItself(Diag(U), ti)
      BY <2>5, <3>1, BranchingLike
    <3>3. 2 \in Nat
      OBVIOUS
    <3> QED BY <2>8, <3>1, <3>2, <3>3, PutInLike
  <2>11. ~moved
    BY <1>12, <1>14
  <2> QED BY <1>1, <1>12, <1>13, <2>9, <2>10, <2>11, InlinedMeaning
<1>15. status' \notin {"done", "compiling", "compiled"}
  BY <1>12
<1> QED BY <1>14, <1>15 DEF MeaningInv

\* inline_while.
LEMMA InlineWhileMeaning ==
  ASSUME LabelInv, MeaningInv, InlineWhile
  PROVE  MeaningInv'
<1>1. PICK s : s = Current.code
  OBVIOUS
<1>2. PICK i : i = Current.i
  OBVIOUS
<1>3. LooksAt(s, i)
  BY <1>1, <1>2, AtIndex
<1>4. /\ Good(s) /\ IsSeq(s) /\ Len(s) \in Nat /\ DOMAIN s = 1 .. Len(s)
      /\ i \in Nat /\ i > 0
      /\ \A k \in Nat : BodyAt(k) = s[i + k].code
      /\ \A k \in Nat : \A op : NodeIs(k, op) => i + k \in DOMAIN s /\ s[i + k].op = op
  BY <1>3 DEF LooksAt
<1>5. NodeIs(0, "lambda") /\ NodeIs(1, "lambda") /\ NodeIs(2, "while")
  BY DEF InlineWhile, AtWhile
<1>6. /\ i \in 1 .. Len(s) /\ IsLambda(s[i])
      /\ i + 1 \in DOMAIN s /\ IsLambda(s[i + 1])
      /\ i + 2 <= Len(s) /\ s[i + 2].op = "while"
  <2>1. i + 0 = i /\ i + 0 \in DOMAIN s /\ s[i + 0].op = "lambda"
    BY <1>4, <1>5
  <2>2. i + 1 \in DOMAIN s /\ s[i + 1].op = "lambda"
    BY <1>4, <1>5
  <2>3. i + 2 \in DOMAIN s /\ s[i + 2].op = "while"
    BY <1>4, <1>5
  <2> QED BY <1>4, <2>1, <2>2, <2>3 DEF IsLambda
<1>7. PICK j : j = i + 1
  OBVIOUS
<1>8. PICK cond : cond = s[i].code
  OBVIOUS
<1>9. PICK body : body = s[j].code
  OBVIOUS
<1>10. BodyAt(0) = cond /\ BodyAt(1) = body
  BY <1>4, <1>7, <1>8, <1>9
<1>11. PICK l : l = next_label
  OBVIOUS
<1>12. PICK h : h = next_label + 1
  OBVIOUS
<1>13. PICK rest : rest = OrderedRemove(OrderedRemove(OrderedRemove(s, i + 2), i + 1), i)
  OBVIOUS
<1>14. PICK ti : ti = Loop(cond, body, l, h)
  OBVIOUS
<1>15. PICK r : r = ExtendBefore(rest, i, ti)
  OBVIOUS
<1>16. /\ Continue(r, i + 1) /\ source' = source /\ moved' = moved
       /\ status' = status /\ status = "running"
  BY <1>1, <1>2, <1>10, <1>11, <1>12, <1>13, <1>14, <1>15 DEF InlineWhile, InPass
<1>17. GoesWith(r)
  BY <1>16, InlineWhileLabels, Continued
<1>18. ASSUME ~moved'
       PROVE  \E U, W : Meant(U, W, calls', Len(calls'), source')
  <2>1. TakenOut(rest, s, i, 3)
    BY <1>4, <1>6, <1>13, WhileOut
  <2>2. IsSeq(cond) /\ IsSeq(body) /\ i \in DOMAIN s /\ j \in DOMAIN s
    <3>1. i \in DOMAIN s /\ j \in DOMAIN s /\ IsLambda(s[j])
      BY <1>4, <1>6, <1>7
    <3>2. Piece(cond) /\ Piece(body)
      BY <1>4, <1>6, <1>8, <1>9, <3>1, BodyOwn
    <3> QED BY <3>1, <3>2 DEF Piece
  <2>3. Looping(ti, cond, body, l, h)
    BY <1>14, <2>2, LoopIs
  <2>4. PutIn(r, s, i - 1, 3, ti)
    <3>1. 3 \in Nat /\ 3 >= 2 /\ i + 3 - 1 <= Len(s)
      BY <1>4, <1>6
    <3>2. IsSeq(ti)
      BY <2>3 DEF Looping
    <3> QED BY <1>4, <1>6, <1>15, <2>1, <3>1, <3>2, PutInPlace
  <2>5. PICK p \in Nat : p = i - 1 /\ p + 1 = i /\ p + 2 = j /\ p + 3 = i + 2
    <3>1. i - 1 \in Nat /\ (i - 1) + 1 = i /\ (i - 1) + 2 = i + 1
          /\ (i - 1) + 3 = i + 2
      BY <1>4
    <3> QED BY <1>7, <3>1
  <2>6. /\ PutIn(r, s, p, 3, ti) /\ p + 3 <= Len(s)
        /\ cond = s[p + 1].code /\ body = s[p + 2].code
        /\ IsLambda(s[p + 1]) /\ IsLambda(s[p + 2]) /\ s[p + 3].op = "while"
    BY <1>6, <1>7, <1>8, <1>9, <2>4, <2>5
  <2>7. \E k, m : Site(s, r, p, k, m)
    BY <1>4, <1>17, <2>3, <2>6, WhileSiteIs DEF GoesWith
  <2>8. ASSUME NEW U, Universe(U), s \in U
        PROVE  LikeItself(Diag(U), r)
    <3>1. IsLambda(s[i]) /\ IsLambda(s[j])
      BY <1>6, <1>7
    <3>2. LikeItself(Diag(U), cond) /\ LikeItself(Diag(U), body)
      BY <1>8, <1>9, <2>2, <2>8, <3>1, BodyKnown
    <3>3. LikeItself(Diag(U), s)
      BY <2>8 DEF Universe
    <3>4. LikeItself(Diag(U), ti)
      BY <2>3, <3>2, LoopingLike
    <3>5. 3 \in Nat
      OBVIOUS
    <3> QED BY <2>6, <3>3, <3>4, <3>5, PutInLike
  <2>9. ~moved
    BY <1>16, <1>18
  <2> QED BY <1>1, <1>16, <1>17, <2>7, <2>8, <2>9, InlinedMeaning
<1> QED BY <1>16, <1>18 DEF MeaningInv

\* A step that leaves the activations alone, and does not go back.
LEMMA MeaningStays ==
  ASSUME MeaningInv, UNCHANGED <<calls, source, moved>>,
         status' \in {"done", "compiling", "compiled"}
           => status \in {"done", "compiling", "compiled"},
         status' # "aborted" => status # "aborted"
  PROVE  MeaningInv'
BY DEF MeaningInv

\* A step of optimize.
LEMMA OptimizerMeaning ==
  ASSUME LabelInv, MeaningInv, OptimizerNext
  PROVE  MeaningInv'
<1>1. CASE Advance
  <2>1. PICK c : c = [Current EXCEPT !.code = Current.code, !.i = Current.i + 1]
    OBVIOUS
  <2>2. calls' = [calls EXCEPT ![Len(calls)] = c]
    <3>1. Current = calls[Len(calls)]
      BY CurrentOK
    <3> QED BY <1>1, <2>1, <3>1 DEF Advance, Continue
  <2>3. c.code = Current.code
    BY <2>1, CurrentOK DEF CallOK
  <2>4. moved' = moved /\ status = "running" /\ status' = status /\ source' = source
    BY <1>1 DEF Advance
  <2> QED BY <2>2, <2>3, <2>4, KeptMeaning
<1>2. CASE NextPass
  <2>1. PICK c : c = [Current EXCEPT !.pass = PassAfter(Current.pass), !.i = 1]
    OBVIOUS
  <2>2. calls' = [calls EXCEPT ![Len(calls)] = c]
    <3>1. Current = calls[Len(calls)]
      BY CurrentOK
    <3> QED BY <1>2, <2>1, <3>1 DEF NextPass
  <2>3. c.code = Current.code
    BY <2>1, CurrentOK DEF CallOK
  <2>4. moved' = moved /\ status = "running" /\ status' = status /\ source' = source
    BY <1>2 DEF NextPass
  <2> QED BY <2>2, <2>3, <2>4, KeptMeaning
<1> QED BY <1>1, <1>2, DescendMeaning, InlineExecMeaning, InlineCondExecMeaning,
           InlineWhileMeaning, ReturnMeaning DEF OptimizerNext

\* MeaningInv is inductive, with LabelInv.
LEMMA StepMeaning ==
  ASSUME LabelInv, MeaningInv, [Next]_vars
  PROVE  MeaningInv'
<1>1. CASE OptimizerNext
  BY <1>1, OptimizerMeaning
<1>2. CASE Compile
  <2>1. UNCHANGED <<calls, source, moved>> /\ status = "done"
    BY <1>2 DEF Compile
  <2> QED BY <2>1, MeaningStays
<1>3. CASE CompileLambda \/ CompileNode \/ CompileBranch
  <2>1. UNCHANGED <<calls, source, moved>> /\ status' = status
    BY <1>3 DEF CompileLambda, CompileNode, CompileBranch, optimizerVars
  <2> QED BY <2>1, MeaningStays
<1>4. CASE FinishFunction
  <2>1. UNCHANGED <<calls, source, moved>> /\ status = "compiling"
    BY <1>4 DEF FinishFunction
  <2> QED BY <2>1, MeaningStays
<1>5. CASE UNCHANGED vars
  BY <1>5, MeaningStays DEF vars, optimizerVars
<1> QED BY <1>1, <1>2, <1>3, <1>4, <1>5 DEF Next, Optimize

-----------------------------------------------------------------------------
(* Functions that are being compiled.                                      *)

\* l is the label of a target that is in the code itself.
Own(nodes, l) ==
  \E t \in DOMAIN nodes : nodes[t].op = "branch_target" /\ nodes[t].label = l

\* c is what node n was compiled to with the labels ls.
NodeDone(R, ls, n, c) ==
  \/ IsLambda(n) /\ IsLambda(c) /\ <<n.code, c.code>> \in R
  \/ /\ n.op \in Labels /\ n.label \in DOMAIN ls
     /\ c = Labelled(n.op, ls[n.label])
  \/ n.op \notin {"lambda"} \cup Labels /\ c = n

\* The function's own labels have numbers it has given out, each its own.
Numbered(ls, nodes, m) ==
  /\ \A l \in DOMAIN ls : Own(nodes, l) => ls[l] \in Nat /\ ls[l] < m
  /\ \A l, h \in DOMAIN ls : Own(nodes, l) /\ Own(nodes, h) /\ ls[l] = ls[h] => l = h

\* f is compiled up to its index.
FunctionOK(R, ls, f) ==
  /\ f = [nodes |-> f.nodes, i |-> f.i, code |-> f.code, next_label |-> f.next_label]
  /\ Good(f.nodes) /\ LikeItself(R, f.nodes)
  /\ f.i \in 1 .. Len(f.nodes) + 1 /\ f.next_label \in Nat
  /\ IsSeq(f.code) /\ Len(f.code) = f.i - 1
  /\ \A j \in 1 .. f.i - 1 : NodeDone(R, ls, f.nodes[j], f.code[j])
  /\ Numbered(ls, f.nodes, f.next_label)

\* The lambdas from i on are not compiled yet.
Ahead(ls, nodes, i) ==
  \A j \in DOMAIN nodes :
    j >= i /\ IsLambda(nodes[j]) => \A l \in DOMAIN ls : ~Carries(nodes[j].code, l)

\* What was in the table is there still.
LabelsMore(ls, ms) ==
  DOMAIN ls \subseteq DOMAIN ms /\ \A l \in DOMAIN ls : ms[l] = ls[l]

\* An own label is in the code, and in no lambda of it.
LEMMA OwnCarried ==
  ASSUME NEW nodes, Good(nodes), NEW l, Own(nodes, l)
  PROVE  /\ Carries(nodes, l)
         /\ \A j \in DOMAIN nodes : IsLambda(nodes[j]) => ~Has(nodes[j], l)
<1>1. Piece(nodes) /\ \A h : Carries(nodes, h) <=> HasIn(nodes, h)
  BY GoodPiece
<1>2. PICK t \in DOMAIN nodes : nodes[t].op = "branch_target" /\ nodes[t].label = l
  BY DEF Own
<1>3. Has(nodes[t], l)
  BY <1>2 DEF Has
<1>4. ASSUME NEW j \in DOMAIN nodes, IsLambda(nodes[j])
      PROVE  ~Has(nodes[j], l)
  <2>1. j # t
    BY <1>2, <1>4 DEF IsLambda
  <2> QED BY <1>1, <1>3, <2>1 DEF Piece, Apart
<1> QED BY <1>1, <1>3, <1>4 DEF HasIn

\* A branch's label, or a target's, is an own one, with the one target.
LEMMA LabelOwn ==
  ASSUME NEW nodes, Good(nodes), NEW i \in DOMAIN nodes, nodes[i].op \in Labels
  PROVE  Own(nodes, nodes[i].label)
<1>1. CASE nodes[i].op = "branch_target"
  BY <1>1 DEF Own
<1>2. CASE nodes[i].op \in Branches
  <2>1. Closed(nodes)
    BY GoodPiece
  <2>2. PICK t \in DOMAIN nodes : nodes[t] = Labelled("branch_target", nodes[i].label)
    BY <1>2, <2>1 DEF Closed, Targets
  <2>3. nodes[t].op = "branch_target" /\ nodes[t].label = nodes[i].label
    BY <2>2 DEF Labelled, Node
  <2> QED BY <2>3 DEF Own
<1> QED BY <1>1, <1>2 DEF Labels

\* More codes are known to mean the same.
LEMMA FunctionMore ==
  ASSUME NEW R, NEW S, R \subseteq S, NEW ls, NEW f, FunctionOK(R, ls, f)
  PROVE  FunctionOK(S, ls, f)
<1>1. \A n, c : NodeDone(R, ls, n, c) => NodeDone(S, ls, n, c)
  BY DEF NodeDone
<1>2. LikeItself(S, f.nodes)
  BY AlikeMore DEF FunctionOK
<1> QED BY <1>1, <1>2 DEF FunctionOK

\* More labels do not change what is done.
LEMMA NodeDoneMore ==
  ASSUME NEW R, NEW ls, NEW ms, LabelsMore(ls, ms), NEW n, NEW c, NodeDone(R, ls, n, c)
  PROVE  NodeDone(R, ms, n, c)
<1>1. CASE n.op \in Labels /\ n.label \in DOMAIN ls /\ c = Labelled(n.op, ls[n.label])
  BY <1>1 DEF LabelsMore, NodeDone
<1> QED BY <1>1 DEF NodeDone

\* Nor do labels of others.
LEMMA FunctionOther ==
  ASSUME NEW R, NEW ls, NEW f, FunctionOK(R, ls, f), NEW ms, LabelsMore(ls, ms),
         \A l \in DOMAIN ms \ DOMAIN ls : ~Own(f.nodes, l)
  PROVE  FunctionOK(R, ms, f)
<1>1. \A l \in DOMAIN ms : Own(f.nodes, l) => l \in DOMAIN ls /\ ms[l] = ls[l]
  BY DEF LabelsMore
<1>2. Numbered(ls, f.nodes, f.next_label)
  BY DEF FunctionOK
<1>3. Numbered(ms, f.nodes, f.next_label)
  BY <1>1, <1>2 DEF Numbered
<1>4. \A j \in 1 .. f.i - 1 : NodeDone(R, ms, f.nodes[j], f.code[j])
  BY NodeDoneMore DEF FunctionOK
<1> QED BY <1>3, <1>4 DEF FunctionOK

\* A function that begins has none of its labels in the table.
LEMMA FunctionBegun ==
  ASSUME NEW R, NEW nodes, Good(nodes), LikeItself(R, nodes), NEW ls,
         \A l \in DOMAIN ls : ~Carries(nodes, l), NEW f, f = Function(nodes)
  PROVE  FunctionOK(R, ls, f) /\ Ahead(ls, f.nodes, f.i)
<1>1. /\ f = [nodes |-> f.nodes, i |-> f.i, code |-> f.code, next_label |-> f.next_label]
      /\ f.nodes = nodes /\ f.i = 1 /\ f.code = << >> /\ f.next_label = 0
  BY DEF Function
<1>2. Piece(nodes) /\ \A l : Carries(nodes, l) <=> HasIn(nodes, l)
  BY GoodPiece
<1>3. Len(nodes) \in Nat
  BY <1>2, SeqIndices DEF Piece
<1>4. f.i \in 1 .. Len(f.nodes) + 1 /\ f.next_label \in Nat
  BY <1>1, <1>3
<1>5. IsSeq(f.code) /\ Len(f.code) = f.i - 1
  <2>1. << >> \in Seq({}) /\ Len(<< >>) = 0
    OBVIOUS
  <2> QED BY <1>1, <2>1 DEF IsSeq
<1>6. \A j \in 1 .. f.i - 1 : FALSE
  BY <1>1
<1>7. Numbered(ls, f.nodes, f.next_label)
  <2>1. \A l \in DOMAIN ls : ~Own(nodes, l)
    BY OwnCarried
  <2> QED BY <1>1, <2>1 DEF Numbered
<1>8. FunctionOK(R, ls, f)
  BY <1>1, <1>4, <1>5, <1>6, <1>7 DEF FunctionOK
<1>9. ASSUME NEW j \in DOMAIN nodes, IsLambda(nodes[j]), NEW l \in DOMAIN ls
      PROVE  ~Carries(nodes[j].code, l)
  <2>1. ~Has(nodes[j], l)
    BY <1>2 DEF HasIn
  <2> QED BY <1>9, <2>1 DEF Has
<1> QED BY <1>1, <1>8, <1>9 DEF Ahead

\* One node more is compiled.
LEMMA FunctionEmitted ==
  ASSUME NEW R, NEW ls, NEW f, FunctionOK(R, ls, f), f.i <= Len(f.nodes),
         NEW ms, LabelsMore(ls, ms), NEW e, NodeDone(R, ms, f.nodes[f.i], e),
         NEW m \in Nat, Numbered(ms, f.nodes, m),
         NEW g, g = [nodes |-> f.nodes, i |-> f.i + 1,
                     code |-> Append(f.code, e), next_label |-> m]
  PROVE  FunctionOK(R, ms, g)
<1>1. /\ Good(f.nodes) /\ LikeItself(R, f.nodes)
      /\ f.i \in 1 .. Len(f.nodes) + 1 /\ IsSeq(f.code) /\ Len(f.code) = f.i - 1
      /\ \A j \in 1 .. f.i - 1 : NodeDone(R, ls, f.nodes[j], f.code[j])
  BY DEF FunctionOK
<1>2. PICK q \in Nat : q = Len(f.nodes)
  BY <1>1, GoodPiece, SeqIndices DEF Piece
<1>3. PICK n \in Nat : n + 1 = f.i /\ n = Len(f.code) /\ n + 1 <= q
  <2>1. f.i - 1 \in Nat /\ (f.i - 1) + 1 = f.i
    BY <1>1, <1>2
  <2> QED BY <1>1, <1>2, <2>1
<1>4. PICK r : r = Append(f.code, e)
  OBVIOUS
<1>5. IsSeq(r) /\ Len(r) = n + 1 /\ r[n + 1] = e /\ \A k \in 1 .. n : r[k] = f.code[k]
  <2>1. PICK c : c = f.code
    OBVIOUS
  <2>2. IsSeq(c) /\ Len(c) = n /\ r = Append(c, e)
    BY <1>1, <1>3, <1>4, <2>1
  <2>3. Longer(r, c, e)
    BY <2>2, CallsAppended
  <2>4. IsSeq(r) /\ Len(r) = n + 1 /\ r[n + 1] = e /\ \A k \in 1 .. n : r[k] = c[k]
    BY <2>2, <2>3 DEF Longer
  <2> QED BY <2>1, <2>4
<1>6. /\ g = [nodes |-> g.nodes, i |-> g.i, code |-> g.code, next_label |-> g.next_label]
      /\ g.nodes = f.nodes /\ g.i = f.i + 1 /\ g.code = r /\ g.next_label = m
  BY <1>4
<1>7. PICK v \in Nat : v = g.i /\ v = n + 2
  BY <1>3, <1>6
<1>8. v \in 1 .. q + 1 /\ v - 1 = n + 1
  BY <1>3, <1>7
<1>9. ASSUME NEW j \in 1 .. n + 1
      PROVE  NodeDone(R, ms, f.nodes[j], r[j])
  <2>1. CASE j = n + 1
    BY <1>3, <1>5, <2>1
  <2>2. CASE j # n + 1
    <3>1. j \in 1 .. n
      BY <2>2
    <3>2. j \in 1 .. f.i - 1
      BY <1>1, <1>3, <3>1
    <3>3. NodeDone(R, ms, f.nodes[j], f.code[j])
      BY <1>1, <3>2, NodeDoneMore
    <3> QED BY <1>5, <3>1, <3>3
  <2> QED BY <2>1, <2>2
<1>10. \A j \in 1 .. g.i - 1 : NodeDone(R, ms, g.nodes[j], g.code[j])
  BY <1>6, <1>7, <1>8, <1>9
<1>11. g.i \in 1 .. Len(g.nodes) + 1 /\ Len(g.code) = g.i - 1
  BY <1>2, <1>5, <1>6, <1>7, <1>8
<1> QED BY <1>1, <1>5, <1>6, <1>10, <1>11 DEF FunctionOK

\* A function that is compiled does what its nodes do.
LEMMA FunctionDone ==
  ASSUME NEW R, NEW ls, NEW f, FunctionOK(R, ls, f), f.i > Len(f.nodes)
  PROVE  SameCode(R, f.nodes, f.code)
<1>1. PICK s : s = f.nodes
  OBVIOUS
<1>2. PICK d : d = f.code
  OBVIOUS
<1>3. /\ Good(s) /\ LikeItself(R, s)
      /\ f.i \in 1 .. Len(s) + 1 /\ IsSeq(d) /\ Len(d) = f.i - 1
      /\ \A j \in 1 .. f.i - 1 : NodeDone(R, ls, s[j], d[j])
      /\ Numbered(ls, s, f.next_label)
  BY <1>1, <1>2 DEF FunctionOK
<1>4. Piece(s) /\ Closed(s) /\ IsSeq(s)
  BY <1>3, GoodPiece DEF Piece
<1>5. PICK n \in Nat : n = Len(s) /\ DOMAIN s = 1 .. n
  BY <1>4, SeqIndices
<1>6. f.i - 1 = n
  BY <1>1, <1>3, <1>5
<1>7. Len(d) = n /\ DOMAIN d = 1 .. n /\ \A j \in 1 .. n : NodeDone(R, ls, s[j], d[j])
  BY <1>3, <1>6, SeqIndices
<1>8. ASSUME NEW j \in 1 .. n
      PROVE  NodesAlike(R, s[j], d[j])
  <2>1. s[j].op \in Ops /\ NodesAlike(R, s[j], s[j])
    BY <1>3, <1>5 DEF LikeItself, NodesAlike
  <2>2. CASE IsLambda(s[j]) /\ IsLambda(d[j]) /\ <<s[j].code, d[j].code>> \in R
    BY <2>1, <2>2 DEF NodesAlike, IsLambda
  <2>3. CASE s[j].op \in Labels /\ d[j] = Labelled(s[j].op, ls[s[j].label])
    <3>1. d[j].op = s[j].op
      BY <2>3 DEF Labelled, Node
    <3>2. ~IsLambda(s[j])
      BY <2>3 DEF IsLambda, Labels, Branches
    <3> QED BY <2>1, <3>1, <3>2 DEF NodesAlike
  <2>4. CASE d[j] = s[j]
    BY <2>1, <2>4
  <2> QED BY <1>7, <2>2, <2>3, <2>4 DEF NodeDone
<1>9. ASSUME NEW j \in 1 .. n, s[j].op \in Labels
      PROVE  s[j].label \in DOMAIN ls /\ d[j] = Labelled(s[j].op, ls[s[j].label])
  BY <1>7, <1>9 DEF NodeDone, IsLambda, Labels, Branches
<1>10. ASSUME NEW j \in 1 .. n, s[j].op \in Branches
       PROVE  Targets(s, s[j].label) = Targets(d, d[j].label)
  <2>1. PICK l : l = s[j].label
    OBVIOUS
  <2>2. l \in DOMAIN ls /\ d[j].label = ls[l]
    <3>1. s[j].op \in Labels
      BY <1>10 DEF Labels
    <3>2. l \in DOMAIN ls /\ d[j] = Labelled(s[j].op, ls[l])
      BY <1>9, <2>1, <3>1
    <3> QED BY <3>2 DEF Labelled, Node
  <2>3. PICK t \in 1 .. n : s[t] = Labelled("branch_target", l)
    BY <1>4, <1>5, <1>10, <2>1 DEF Closed, Targets
  <2>4. s[t].op = "branch_target" /\ s[t].label = l /\ Own(s, l) /\ Has(s[t], l)
    <3>1. s[t].op = "branch_target" /\ s[t].label = l
      BY <2>3 DEF Labelled, Node
    <3> QED BY <1>5, <3>1 DEF Own, Has
  <2>5. ASSUME NEW x \in 1 .. n, s[x] = Labelled("branch_target", l)
        PROVE  d[x] = Labelled("branch_target", ls[l])
    <3>1. s[x].op = "branch_target" /\ s[x].label = l
      BY <2>5 DEF Labelled, Node
    <3>2. s[x].op \in Labels
      BY <3>1 DEF Labels
    <3> QED BY <1>9, <3>1, <3>2
  <2>6. ASSUME NEW x \in 1 .. n, d[x] = Labelled("branch_target", ls[l])
        PROVE  s[x] = Labelled("branch_target", l)
    <3>1. d[x].op = "branch_target" /\ d[x].label = ls[l]
      BY <2>6 DEF Labelled, Node
    <3>2. s[x].op = "branch_target"
      BY <1>8, <3>1 DEF NodesAlike
    <3>3. s[x].op \in Labels
      BY <3>2 DEF Labels
    <3>4. s[x].label \in DOMAIN ls /\ d[x] = Labelled(s[x].op, ls[s[x].label])
      BY <1>9, <3>3
    <3>5. d[x].label = ls[s[x].label]
      BY <3>4 DEF Labelled, Node
    <3>6. Own(s, s[x].label)
      BY <1>5, <3>2 DEF Own
    <3>7. s[x].label = l
      BY <1>3, <2>2, <2>4, <3>1, <3>4, <3>5, <3>6 DEF Numbered
    <3>8. x = t
      <4>1. Has(s[x], l)
        BY <3>2, <3>7 DEF Has
      <4> QED BY <1>4, <1>5, <2>4, <4>1 DEF Piece, Apart
    <3> QED BY <2>3, <3>8
  <2>7. {x \in 1 .. n : s[x] = Labelled("branch_target", l)}
        = {x \in 1 .. n : d[x] = Labelled("branch_target", ls[l])}
    BY <2>5, <2>6
  <2> QED BY <1>5, <1>7, <2>1, <2>2, <2>7 DEF Targets
<1>11. SameCode(R, s, d)
  BY <1>3, <1>4, <1>5, <1>7, <1>8, <1>10 DEF SameCode
<1> QED BY <1>1, <1>2, <1>11

-----------------------------------------------------------------------------
(* The activations of compile_raw.                                         *)

\* f waits for the lambda at its index, and those behind are not compiled yet.
FunctionWaits(ls, f) ==
  f.i \in DOMAIN f.nodes /\ IsLambda(f.nodes[f.i]) /\ Ahead(ls, f.nodes, f.i + 1)

\* One function in the lambda of the other, and the code outside of them all.
FunctionsTo(R, ls, fs, n, code) ==
  /\ IsSeq(fs) /\ n > 0 /\ fs[1].nodes = code
  /\ \A k \in 1 .. n : FunctionOK(R, ls, fs[k])
  /\ \A k \in 1 .. n - 1 :
       FunctionWaits(ls, fs[k]) /\ fs[k].nodes[fs[k].i].code = fs[k + 1].nodes
  /\ Ahead(ls, fs[n].nodes, fs[n].i)
  /\ \A k, m \in 1 .. n :
       k < m => \A l : Carries(fs[m].nodes, l) => Has(fs[k].nodes[fs[k].i], l)
FunctionsOK(R, ls, fs, code) == FunctionsTo(R, ls, fs, Len(fs), code)

\* r is fs with g for its last.
TopIs(r, fs, n, g) ==
  /\ IsSeq(r) /\ Len(r) = n /\ r[n] = g /\ \A k \in 1 .. n - 1 : r[k] = fs[k]

\* The last function replaced.
LEMMA TopReplaced ==
  ASSUME NEW fs, IsSeq(fs), NEW n \in Nat, n > 0, Len(fs) = n, NEW g,
         NEW r, r = [fs EXCEPT ![Len(fs)] = g]
  PROVE  TopIs(r, fs, n, g)
<1>1. PICK S : fs \in Seq(S)
  BY DEF IsSeq
<1>2. PICK T : T = S \cup {g}
  OBVIOUS
<1>3. fs \in Seq(T) /\ g \in T /\ n \in 1 .. Len(fs)
  BY <1>1, <1>2, SeqMonotonic
<1>4. r = [fs EXCEPT ![n] = g]
  OBVIOUS
<1>5. /\ r \in Seq(T) /\ Len(r) = Len(fs)
      /\ \A k \in 1 .. Len(fs) : r[k] = IF k = n THEN g ELSE fs[k]
  BY <1>3, <1>4, ExceptSeq
<1>6. IsSeq(r) /\ Len(r) = n
  BY <1>5 DEF IsSeq
<1>7. r[n] = g
  BY <1>3, <1>5
<1>8. ASSUME NEW k \in 1 .. n - 1
      PROVE  r[k] = fs[k]
  <2>1. k \in 1 .. n /\ k # n
    OBVIOUS
  <2> QED BY <1>5, <2>1
<1> QED BY <1>6, <1>7, <1>8 DEF TopIs

\* A label in the last function is not one of the code around it, nor in a
\* lambda of that which is not compiled yet.
LEMMA InnerLabel ==
  ASSUME NEW R, NEW ls, NEW fs, NEW code, FunctionsOK(R, ls, fs, code),
         NEW k \in 1 .. Len(fs) - 1, NEW l, Carries(fs[Len(fs)].nodes, l)
  PROVE  /\ ~Own(fs[k].nodes, l)
         /\ \A j \in DOMAIN fs[k].nodes :
              j >= fs[k].i + 1 /\ IsLambda(fs[k].nodes[j])
                => ~Carries(fs[k].nodes[j].code, l)
<1>1. Len(fs) \in Nat
  BY SeqIndices DEF FunctionsOK, FunctionsTo
<1>2. k \in 1 .. Len(fs) /\ Len(fs) \in 1 .. Len(fs) /\ k < Len(fs)
  BY <1>1
<1>3. PICK s, i : s = fs[k].nodes /\ i = fs[k].i
  OBVIOUS
<1>4. Has(s[i], l)
  BY <1>2, <1>3 DEF FunctionsOK, FunctionsTo
<1>5. i \in DOMAIN s /\ IsLambda(s[i])
  BY <1>3 DEF FunctionsOK, FunctionsTo, FunctionWaits
<1>6. Good(s) /\ i \in Int
  <2>1. FunctionOK(R, ls, fs[k])
    BY <1>2 DEF FunctionsOK, FunctionsTo
  <2>2. Good(fs[k].nodes) /\ fs[k].i \in Int
    BY <2>1 DEF FunctionOK
  <2> QED BY <1>3, <2>2
<1>7. ~Own(s, l)
  BY <1>4, <1>5, <1>6, OwnCarried
<1>8. ASSUME NEW j \in DOMAIN s, j >= i + 1, IsLambda(s[j])
      PROVE  ~Carries(s[j].code, l)
  <2>1. Apart(s) /\ IsSeq(s)
    BY <1>6, GoodPiece DEF Piece
  <2>2. j \in Nat
    BY <2>1, SeqIndices
  <2>3. j # i
    BY <1>6, <1>8, <2>2
  <2>4. ~Has(s[j], l)
    BY <1>4, <1>5, <2>1, <2>3 DEF Apart
  <2> QED BY <1>8, <2>4 DEF Has
<1> QED BY <1>3, <1>7, <1>8

\* The last function goes on by one node.
LEMMA TopEmits ==
  ASSUME NEW R, NEW ls, NEW fs, NEW code, FunctionsOK(R, ls, fs, code),
         NEW n \in Nat, n > 0, Len(fs) = n, NEW f, f = fs[n], f.i <= Len(f.nodes),
         NEW ms, LabelsMore(ls, ms),
         \A l \in DOMAIN ms \ DOMAIN ls : Own(f.nodes, l),
         NEW e, NodeDone(R, ms, f.nodes[f.i], e),
         NEW m \in Nat, Numbered(ms, f.nodes, m),
         NEW g, g = [nodes |-> f.nodes, i |-> f.i + 1,
                     code |-> Append(f.code, e), next_label |-> m],
         NEW r, r = [fs EXCEPT ![Len(fs)] = g]
  PROVE  FunctionsOK(R, ms, r, code)
<1>1. TopIs(r, fs, n, g)
  BY TopReplaced DEF FunctionsOK, FunctionsTo
<1>2. /\ IsSeq(r) /\ Len(r) = n /\ r[n] = g /\ \A k \in 1 .. n - 1 : r[k] = fs[k]
  BY <1>1 DEF TopIs
<1>3. n \in 1 .. n /\ \A k \in 1 .. n : k = n \/ k \in 1 .. n - 1
  OBVIOUS
<1>4. FunctionOK(R, ls, f)
  BY <1>3 DEF FunctionsOK, FunctionsTo
<1>5. g.nodes = f.nodes /\ g.i = f.i + 1
  OBVIOUS
<1>6. FunctionOK(R, ms, g)
  BY <1>4, FunctionEmitted
<1>7. Good(f.nodes) /\ f.i \in Int
  BY <1>4 DEF FunctionOK
<1>8. \A l \in DOMAIN ms : l \in DOMAIN ls \/ (Own(f.nodes, l) /\ Carries(f.nodes, l))
  BY <1>7, OwnCarried
<1>9. ASSUME NEW k \in 1 .. n - 1
      PROVE  FunctionOK(R, ms, fs[k]) /\ FunctionWaits(ms, fs[k])
  <2>1. PICK h : h = fs[k]
    OBVIOUS
  <2>2. FunctionOK(R, ls, h) /\ FunctionWaits(ls, h)
    <3>1. k \in 1 .. n
      OBVIOUS
    <3> QED BY <2>1, <3>1 DEF FunctionsOK, FunctionsTo
  <2>3. \A l \in DOMAIN ms \ DOMAIN ls :
          /\ ~Own(h.nodes, l)
          /\ \A j \in DOMAIN h.nodes :
               j >= h.i + 1 /\ IsLambda(h.nodes[j]) => ~Carries(h.nodes[j].code, l)
    BY <1>8, <2>1, InnerLabel
  <2>4. FunctionOK(R, ms, h)
    BY <2>2, <2>3, FunctionOther
  <2>5. Ahead(ms, h.nodes, h.i + 1)
    BY <2>2, <2>3 DEF Ahead, FunctionWaits
  <2> QED BY <2>1, <2>2, <2>4, <2>5 DEF FunctionWaits
<1>10. Ahead(ms, g.nodes, g.i)
  <2>1. Ahead(ls, f.nodes, f.i)
    BY DEF FunctionsOK, FunctionsTo
  <2>2. ASSUME NEW j \in DOMAIN f.nodes, j >= f.i + 1, IsLambda(f.nodes[j]),
               NEW l \in DOMAIN ms
        PROVE  ~Carries(f.nodes[j].code, l)
    <3>1. j >= f.i
      <4>1. j \in Nat
        BY <1>7, GoodPiece, SeqIndices DEF Piece
      <4> QED BY <1>7, <2>2, <4>1
    <3>2. CASE l \in DOMAIN ls
      BY <2>1, <2>2, <3>1, <3>2 DEF Ahead
    <3>3. CASE Own(f.nodes, l)
      <4>1. ~Has(f.nodes[j], l)
        BY <1>7, <2>2, <3>3, OwnCarried
      <4> QED BY <2>2, <4>1 DEF Has
    <3> QED BY <1>8, <3>2, <3>3
  <2> QED BY <1>5, <2>2 DEF Ahead
<1>11. r[1].nodes = code
  <2>1. CASE n = 1
    BY <1>2, <1>5, <2>1 DEF FunctionsOK, FunctionsTo
  <2>2. CASE n # 1
    <3>1. 1 \in 1 .. n - 1
      BY <2>2
    <3> QED BY <1>2, <3>1 DEF FunctionsOK, FunctionsTo
  <2> QED BY <2>1, <2>2
<1>12. \A k \in 1 .. n : FunctionOK(R, ms, r[k]) /\ r[k].nodes = fs[k].nodes
  BY <1>2, <1>3, <1>5, <1>6, <1>9
<1>13. ASSUME NEW k \in 1 .. n - 1
       PROVE  FunctionWaits(ms, r[k]) /\ r[k].nodes[r[k].i].code = r[k + 1].nodes
  <2>1. k + 1 \in 1 .. n
    OBVIOUS
  <2>2. fs[k].nodes[fs[k].i].code = fs[k + 1].nodes
    BY DEF FunctionsOK, FunctionsTo
  <2> QED BY <1>2, <1>9, <1>12, <2>1, <2>2
<1>14. ASSUME NEW k \in 1 .. n, NEW j \in 1 .. n, k < j, NEW l, Carries(r[j].nodes, l)
       PROVE  Has(r[k].nodes[r[k].i], l)
  <2>1. k \in 1 .. n - 1
    BY <1>14
  <2>2. Carries(fs[j].nodes, l)
    BY <1>12, <1>14
  <2>3. Has(fs[k].nodes[fs[k].i], l)
    BY <1>14, <2>2 DEF FunctionsOK, FunctionsTo
  <2> QED BY <1>2, <2>1, <2>3
<1> QED BY <1>2, <1>10, <1>11, <1>12, <1>13, <1>14 DEF FunctionsOK, FunctionsTo

\* A function more, for the lambda that the last one is at.
LEMMA TopBegins ==
  ASSUME NEW R, NEW ls, NEW fs, NEW code, FunctionsOK(R, ls, fs, code),
         \A c, d : <<c, d>> \in R => SameCode(R, c, d),
         NEW n \in Nat, n > 0, Len(fs) = n, NEW f, f = fs[n],
         f.i \in DOMAIN f.nodes, IsLambda(f.nodes[f.i]),
         NEW g, g = Function(f.nodes[f.i].code), NEW r, r = Append(fs, g)
  PROVE  FunctionsOK(R, ls, r, code)
<1>1. /\ IsSeq(r) /\ Len(r) = n + 1 /\ r[n + 1] = g /\ \A k \in 1 .. n : r[k] = fs[k]
  <2>1. IsSeq(fs)
    BY DEF FunctionsOK, FunctionsTo
  <2>2. Longer(r, fs, g)
    BY <2>1, CallsAppended
  <2> QED BY <2>2 DEF Longer
<1>2. n \in 1 .. n /\ \A k \in 1 .. n + 1 : k = n + 1 \/ k \in 1 .. n
  OBVIOUS
<1>3. FunctionOK(R, ls, f) /\ Ahead(ls, f.nodes, f.i)
  BY <1>2 DEF FunctionsOK, FunctionsTo
<1>4. PICK nodes : nodes = f.nodes[f.i].code
  OBVIOUS
<1>5. /\ Good(nodes)
      /\ \A l : Carries(nodes, l) => Has(f.nodes[f.i], l) /\ Carries(f.nodes, l)
  <2>1. Good(f.nodes)
    BY <1>3 DEF FunctionOK
  <2>2. Good(nodes) /\ \A l : HasIn(nodes, l) => Has(f.nodes[f.i], l) /\ Carries(f.nodes, l)
    BY <1>4, <2>1, BodyOwn
  <2> QED BY <2>2, GoodPiece
<1>6. LikeItself(R, nodes)
  <2>1. NodesAlike(R, f.nodes[f.i], f.nodes[f.i])
    BY <1>3 DEF FunctionOK, LikeItself
  <2>2. <<nodes, nodes>> \in R
    BY <1>4, <2>1 DEF NodesAlike
  <2>3. SameCode(R, nodes, nodes)
    BY <2>2
  <2> QED BY <2>3 DEF SameCode, LikeItself
<1>7. f.i \in Int
  BY <1>3 DEF FunctionOK
<1>8. \A l \in DOMAIN ls : ~Carries(nodes, l)
  <2>1. f.i >= f.i
    BY <1>7
  <2> QED BY <1>3, <1>4, <2>1 DEF Ahead
<1>9. FunctionOK(R, ls, g) /\ Ahead(ls, g.nodes, g.i) /\ g.nodes = nodes
  BY <1>4, <1>5, <1>6, <1>8, FunctionBegun DEF Function
<1>10. FunctionWaits(ls, f)
  <2>1. ASSUME NEW j \in DOMAIN f.nodes, j >= f.i + 1
        PROVE  j >= f.i
    <3>1. j \in Nat
      BY <1>3, GoodPiece, SeqIndices DEF Piece, FunctionOK
    <3> QED BY <1>7, <2>1, <3>1
  <2>2. Ahead(ls, f.nodes, f.i + 1)
    BY <1>3, <2>1 DEF Ahead
  <2> QED BY <2>2 DEF FunctionWaits
<1>11. \A k \in 1 .. n + 1 : FunctionOK(R, ls, r[k])
  BY <1>1, <1>2, <1>9 DEF FunctionsOK, FunctionsTo
<1>12. ASSUME NEW k \in 1 .. (n + 1) - 1
       PROVE  FunctionWaits(ls, r[k]) /\ r[k].nodes[r[k].i].code = r[k + 1].nodes
  <2>1. k \in 1 .. n
    OBVIOUS
  <2>2. CASE k = n
    BY <1>1, <1>4, <1>9, <1>10, <2>1, <2>2
  <2>3. CASE k # n
    <3>1. k \in 1 .. n - 1 /\ k + 1 \in 1 .. n
      BY <2>1, <2>3
    <3>2. FunctionWaits(ls, fs[k]) /\ fs[k].nodes[fs[k].i].code = fs[k + 1].nodes
      BY <3>1 DEF FunctionsOK, FunctionsTo
    <3> QED BY <1>1, <2>1, <3>1, <3>2
  <2> QED BY <2>2, <2>3
<1>13. ASSUME NEW k \in 1 .. n + 1, NEW j \in 1 .. n + 1, k < j,
              NEW l, Carries(r[j].nodes, l)
       PROVE  Has(r[k].nodes[r[k].i], l)
  <2>1. k \in 1 .. n /\ r[k] = fs[k]
    <3>1. k \in 1 .. n
      BY <1>13
    <3> QED BY <1>1, <3>1
  <2>2. CASE j \in 1 .. n
    <3>1. Carries(fs[j].nodes, l)
      BY <1>1, <1>13, <2>2
    <3> QED BY <1>13, <2>1, <2>2, <3>1 DEF FunctionsOK, FunctionsTo
  <2>3. CASE j = n + 1
    <3>1. Carries(nodes, l)
      BY <1>1, <1>9, <1>13, <2>3
    <3>2. Has(f.nodes[f.i], l) /\ Carries(fs[n].nodes, l)
      BY <1>5, <3>1
    <3>3. CASE k = n
      BY <2>1, <3>2, <3>3
    <3>4. CASE k # n
      <4>1. k < n
        BY <2>1, <3>4
      <4> QED BY <1>2, <2>1, <3>2, <4>1 DEF FunctionsOK, FunctionsTo
    <3> QED BY <3>3, <3>4
  <2> QED BY <1>2, <2>2, <2>3
<1>14. r[1].nodes = code
  <2>1. 1 \in 1 .. n
    OBVIOUS
  <2> QED BY <1>1, <2>1 DEF FunctionsOK, FunctionsTo
<1>15. Ahead(ls, r[n + 1].nodes, r[n + 1].i)
  BY <1>1, <1>9
<1>16. PICK N : N = n + 1 /\ N > 0
  OBVIOUS
<1>17. /\ IsSeq(r) /\ Len(r) = N /\ N > 0 /\ r[1].nodes = code
       /\ \A k \in 1 .. N : FunctionOK(R, ls, r[k])
       /\ \A k \in 1 .. N - 1 :
            FunctionWaits(ls, r[k]) /\ r[k].nodes[r[k].i].code = r[k + 1].nodes
       /\ Ahead(ls, r[N].nodes, r[N].i)
       /\ \A k, j \in 1 .. N :
            k < j => \A l : Carries(r[j].nodes, l) => Has(r[k].nodes[r[k].i], l)
  BY <1>1, <1>11, <1>12, <1>13, <1>14, <1>15, <1>16
<1>18. FunctionsTo(R, ls, r, N, code)
  BY <1>17 DEF FunctionsTo
<1> QED BY <1>17, <1>18 DEF FunctionsOK

\* More codes are known to mean the same: that of a function that is compiled.
LEMMA PairsMore ==
  ASSUME NEW R, \A c, d : <<c, d>> \in R => SameCode(R, c, d),
         NEW a, NEW b, SameCode(R, a, b), NEW S, S = R \cup {<<a, b>>}
  PROVE  \A c, d : <<c, d>> \in S => SameCode(S, c, d)
<1>1. \A c, d : <<c, d>> \in S => SameCode(R, c, d)
  BY Zenon
<1>2. R \subseteq S
  OBVIOUS
<1> QED BY <1>1, <1>2, AlikeMore

\* What Emitted leaves.
LEMMA EmittedIs ==
  ASSUME NEW R, NEW ls, NEW f, FunctionOK(R, ls, f), NEW e, NEW m
  PROVE  /\ Emitted(f, e) = [nodes |-> f.nodes, i |-> f.i + 1,
                             code |-> Append(f.code, e), next_label |-> f.next_label]
         /\ [Emitted(f, e) EXCEPT !.next_label = m]
            = [nodes |-> f.nodes, i |-> f.i + 1,
               code |-> Append(f.code, e), next_label |-> m]
<1>1. PICK a, k, c, l : f = [nodes |-> a, i |-> k, code |-> c, next_label |-> l]
  BY DEF FunctionOK
<1>2. PICK d : d = Append(c, e)
  OBVIOUS
<1>3. PICK j : j = k + 1
  OBVIOUS
<1>4. f.nodes = a /\ f.i = k /\ f.code = c /\ f.next_label = l
  BY <1>1
<1>5. Emitted(f, e) = [nodes |-> a, i |-> j, code |-> d, next_label |-> l]
  <2>1. [f EXCEPT !.code = d, !.i = j] = [nodes |-> a, i |-> j, code |-> d, next_label |-> l]
    <3>1. PICK h : h = [f EXCEPT !.code = d]
      OBVIOUS
    <3>2. h = [nodes |-> a, i |-> k, code |-> d, next_label |-> l]
      BY <1>1, <3>1
    <3>3. [f EXCEPT !.code = d, !.i = j] = [h EXCEPT !.i = j]
      BY <3>1
    <3> QED BY <3>2, <3>3
  <2>2. Emitted(f, e) = [f EXCEPT !.code = Append(f.code, e), !.i = f.i + 1]
    BY DEF Emitted
  <2> QED BY <1>2, <1>3, <1>4, <2>1, <2>2
<1>6. [Emitted(f, e) EXCEPT !.next_label = m]
      = [nodes |-> a, i |-> j, code |-> d, next_label |-> m]
  BY <1>5
<1> QED BY <1>2, <1>3, <1>4, <1>5, <1>6

\* The last function is compiled, and the one around it goes on with its code.
LEMMA TopEnds ==
  ASSUME NEW R, NEW ls, NEW fs, NEW code, FunctionsOK(R, ls, fs, code),
         NEW n \in Nat, n > 0, Len(fs) = n + 1, NEW f, f = fs[n + 1],
         NEW S, S = R \cup {<<f.nodes, f.code>>}, NEW h, h = fs[n],
         NEW g, g = [nodes |-> h.nodes, i |-> h.i + 1,
                     code |-> Append(h.code, Lambda(f.code)),
                     next_label |-> h.next_label],
         NEW r, r = Append(Front(Front(fs)), g)
  PROVE  FunctionsOK(S, ls, r, code)
<1>1. FunctionsTo(R, ls, fs, n + 1, code)
  BY DEF FunctionsOK
<1>2. /\ IsSeq(r) /\ Len(r) = n /\ r[n] = g /\ \A k \in 1 .. n - 1 : r[k] = fs[k]
  <2>1. Shorter(r, fs, g)
    <3>1. IsSeq(fs) /\ Len(fs) > 1
      BY <1>1 DEF FunctionsTo
    <3> QED BY <3>1, CallsShortened
  <2>2. PICK q \in Nat :
          /\ Len(fs) = q + 2 /\ IsSeq(r) /\ Len(r) = q + 1
          /\ r[q + 1] = g /\ \A k \in 1 .. q : r[k] = fs[k]
    BY <2>1 DEF Shorter
  <2>3. q + 1 = n /\ q = n - 1
    BY <2>2
  <2> QED BY <2>2, <2>3
<1>3. n \in 1 .. n + 1 /\ n \in 1 .. (n + 1) - 1 /\ n \in 1 .. n
  OBVIOUS
<1>4. R \subseteq S /\ <<f.nodes, f.code>> \in S
  OBVIOUS
<1>5. \A k \in 1 .. n : FunctionOK(S, ls, fs[k])
  <2>1. \A k \in 1 .. n : k \in 1 .. n + 1
    OBVIOUS
  <2> QED BY <1>1, <1>4, <2>1, FunctionMore DEF FunctionsTo
<1>6. FunctionOK(S, ls, h)
  BY <1>3, <1>5
<1>7. FunctionWaits(ls, h) /\ h.nodes[h.i].code = f.nodes
  BY <1>1, <1>3 DEF FunctionsTo
<1>8. PICK e : e = Lambda(f.code)
  OBVIOUS
<1>9. NodeDone(S, ls, h.nodes[h.i], e)
  <2>1. IsLambda(e) /\ e.code = f.code
    BY <1>8 DEF Lambda, Node, IsLambda
  <2> QED BY <1>4, <1>7, <2>1 DEF NodeDone, FunctionWaits
<1>10. /\ Numbered(ls, h.nodes, h.next_label) /\ h.next_label \in Nat
       /\ h.i <= Len(h.nodes)
  <2>1. Good(h.nodes)
    BY <1>6 DEF FunctionOK
  <2>2. DOMAIN h.nodes = 1 .. Len(h.nodes) /\ Len(h.nodes) \in Nat
    BY <2>1, GoodPiece, SeqIndices DEF Piece
  <2> QED BY <1>6, <1>7, <2>2 DEF FunctionOK, FunctionWaits
<1>11. LabelsMore(ls, ls)
  BY DEF LabelsMore
<1>12. g.nodes = h.nodes /\ g.i = h.i + 1
  OBVIOUS
<1>13. FunctionOK(S, ls, g)
  <2>1. PICK m \in Nat : m = h.next_label
    BY <1>10
  <2>2. g = [nodes |-> h.nodes, i |-> h.i + 1, code |-> Append(h.code, e),
             next_label |-> m]
    BY <1>8, <2>1
  <2>3. Numbered(ls, h.nodes, m) /\ h.i <= Len(h.nodes)
    BY <1>10, <2>1
  <2> QED BY <1>6, <1>9, <1>11, <2>2, <2>3, FunctionEmitted
<1>14. Ahead(ls, g.nodes, g.i)
  BY <1>7, <1>12 DEF FunctionWaits
<1>15. ASSUME NEW k \in 1 .. n
       PROVE  FunctionOK(S, ls, r[k]) /\ r[k].nodes = fs[k].nodes
  <2>1. CASE k = n
    BY <1>2, <1>12, <1>13, <2>1
  <2>2. CASE k # n
    <3>1. k \in 1 .. n - 1
      BY <2>2
    <3> QED BY <1>2, <1>5, <3>1
  <2> QED BY <2>1, <2>2
<1>16. ASSUME NEW k \in 1 .. n - 1
       PROVE  FunctionWaits(ls, r[k]) /\ r[k].nodes[r[k].i].code = r[k + 1].nodes
  <2>1. k + 1 \in 1 .. n /\ k \in 1 .. (n + 1) - 1
    OBVIOUS
  <2>2. FunctionWaits(ls, fs[k]) /\ fs[k].nodes[fs[k].i].code = fs[k + 1].nodes
    BY <1>1, <2>1 DEF FunctionsTo
  <2> QED BY <1>2, <1>15, <2>1, <2>2
<1>17. ASSUME NEW k \in 1 .. n, NEW j \in 1 .. n, k < j, NEW l, Carries(r[j].nodes, l)
       PROVE  Has(r[k].nodes[r[k].i], l)
  <2>1. k \in 1 .. n - 1 /\ k \in 1 .. n + 1 /\ j \in 1 .. n + 1
    BY <1>17
  <2>2. Carries(fs[j].nodes, l)
    BY <1>15, <1>17
  <2>3. Has(fs[k].nodes[fs[k].i], l)
    BY <1>1, <1>17, <2>1, <2>2 DEF FunctionsTo
  <2> QED BY <1>2, <2>1, <2>3
<1>18. r[1].nodes = code
  <2>1. 1 \in 1 .. n
    OBVIOUS
  <2> QED BY <1>1, <1>15, <2>1 DEF FunctionsTo
<1>19. FunctionsTo(S, ls, r, n, code)
  <2>1. Ahead(ls, r[n].nodes, r[n].i)
    BY <1>2, <1>14
  <2> QED BY <1>2, <1>15, <1>16, <1>17, <1>18, <2>1 DEF FunctionsTo
<1> QED BY <1>2, <1>19 DEF FunctionsOK

-----------------------------------------------------------------------------
(* The compiler's inductive invariant.                                     *)

\* R pairs codes that do the same, and has what operands hold.
CodesSame(R) ==
  /\ Diag(Programs) \subseteq R
  /\ \A c, d : <<c, d>> \in R => SameCode(R, c, d)

\* The table is empty until the optimizer is done, all functions are compiled up
\* to their index, and in the end the code does what the optimizer left does.
CompileInv ==
  /\ status \in {"running", "done"} => labels = << >>
  /\ ~moved /\ status = "compiling" =>
       \E R : CodesSame(R) /\ FunctionsOK(R, labels, functions, Current.code)
  /\ ~moved /\ status = "compiled" =>
       \E R : CodesSame(R) /\ SameCode(R, Current.code, compiled)

\* One function, that of the whole code.
LEMMA FunctionsBegun ==
  ASSUME NEW R, NEW code, Good(code), LikeItself(R, code),
         NEW ls, ls = << >>, NEW f, f = Function(code)
  PROVE  FunctionsOK(R, ls, <<f>>, code)
<1>1. \A l \in DOMAIN ls : ~Carries(code, l)
  OBVIOUS
<1>2. FunctionOK(R, ls, f) /\ Ahead(ls, f.nodes, f.i)
  BY <1>1, FunctionBegun
<1>3. f.nodes = code
  BY DEF Function
<1>4. PICK fs : fs = <<f>>
  OBVIOUS
<1>5. IsSeq(fs) /\ Len(fs) = 1 /\ fs[1] = f
  <2>1. <<f>> \in Seq({f}) /\ Len(<<f>>) = 1 /\ <<f>>[1] = f
    OBVIOUS
  <2> QED BY <1>4, <2>1 DEF IsSeq
<1>6. /\ \A k \in 1 .. 1 : k = 1
      /\ \A k \in 1 .. 1 - 1 : FALSE
      /\ \A k, j \in 1 .. 1 : ~(k < j)
      /\ 1 > 0
  OBVIOUS
<1>7. \A k \in 1 .. 1 : FunctionOK(R, ls, fs[k])
  BY <1>2, <1>5, <1>6
<1>8. FunctionsTo(R, ls, fs, 1, code)
  BY <1>2, <1>3, <1>5, <1>6, <1>7 DEF FunctionsTo
<1> QED BY <1>4, <1>5, <1>8 DEF FunctionsOK

\* Compiler::compile begins.
LEMMA CompileKeeps ==
  ASSUME LabelInv, MeaningInv, CompileInv, Compile
  PROVE  CompileInv'
<1>1. /\ status = "done" /\ status' = "compiling" /\ calls' = calls /\ moved' = moved
      /\ functions' = <<Function(Current.code)>> /\ labels' = labels
  BY DEF Compile
<1>2. ASSUME ~moved
      PROVE  \E R : CodesSame(R) /\ FunctionsOK(R, labels', functions', Current'.code)
  <2>1. Current = calls[Len(calls)] /\ Current' = Current /\ CallOK(Current, next_label)
    BY <1>1, CurrentOK DEF Current
  <2>2. Len(calls) = 1 /\ \E U, W : Meant(U, W, calls, Len(calls), source)
    BY <1>1, <1>2 DEF MeaningInv
  <2>3. PICK U, W : Meant(U, W, calls, 1, source)
    BY <2>2
  <2>4. PICK code : code = Current.code
    OBVIOUS
  <2>5. code \in U /\ Universe(U) /\ Programs \subseteq U
    <3>1. 1 \in 1 .. 1
      OBVIOUS
    <3>2. calls[1] = Current
      BY <2>1, <2>2
    <3> QED BY <2>3, <2>4, <3>1, <3>2 DEF Meant
  <2>6. PICK R : R = Diag(U)
    OBVIOUS
  <2>7. LikeItself(R, code)
    BY <2>5, <2>6 DEF Universe
  <2>8. CodesSame(R)
    <3>1. ASSUME NEW c, NEW d, <<c, d>> \in R
          PROVE  SameCode(R, c, d)
      <4>1. c = d /\ c \in U
        BY <2>6, <3>1 DEF Diag
      <4>2. LikeItself(R, c)
        BY <2>5, <2>6, <4>1 DEF Universe
      <4> QED BY <4>1, <4>2, SameItself
    <3>2. Diag(Programs) \subseteq R
      BY <2>5, <2>6, DiagMore
    <3> QED BY <3>1, <3>2 DEF CodesSame
  <2>9. Good(code)
    BY <2>1, <2>4 DEF CallOK
  <2>10. PICK ls, f : ls = labels' /\ f = Function(code)
    OBVIOUS
  <2>11. FunctionsOK(R, ls, <<f>>, code)
    <3>1. ls = << >>
      BY <1>1, <2>10 DEF CompileInv
    <3> QED BY <2>7, <2>9, <2>10, <3>1, FunctionsBegun
  <2> QED BY <1>1, <2>1, <2>4, <2>8, <2>10, <2>11
<1> QED BY <1>1, <1>2 DEF CompileInv

\* The last function.
LEMMA TopIsOK ==
  ASSUME NEW R, NEW ls, NEW fs, NEW code, FunctionsOK(R, ls, fs, code)
  PROVE  \E n \in Nat : /\ n > 0 /\ Len(fs) = n /\ Last(fs) = fs[n]
                        /\ FunctionOK(R, ls, fs[n]) /\ IsSeq(fs)
<1>1. FunctionsTo(R, ls, fs, Len(fs), code)
  BY DEF FunctionsOK
<1>2. PICK n \in Nat : n = Len(fs)
  BY <1>1, SeqIndices DEF FunctionsTo
<1>3. n > 0 /\ IsSeq(fs) /\ \A k \in 1 .. n : FunctionOK(R, ls, fs[k])
  BY <1>1, <1>2 DEF FunctionsTo
<1>4. n \in 1 .. n
  BY <1>3
<1> QED BY <1>2, <1>3, <1>4 DEF Last

\* The one before the last.
LEMMA FrontLast ==
  ASSUME NEW fs, IsSeq(fs), NEW n \in Nat, n > 0, Len(fs) = n + 1
  PROVE  Last(Front(fs)) = fs[n]
<1>1. PICK r : r = Front(fs)
  OBVIOUS
<1>2. Fronted(r, fs)
  BY <1>1, FrontIs
<1>3. Len(r) = n /\ \A k \in 1 .. n : r[k] = fs[k]
  BY <1>2 DEF Fronted
<1>4. n \in 1 .. n
  OBVIOUS
<1> QED BY <1>1, <1>3, <1>4 DEF Last

\* The node at the index of a function that is not at its end.
LEMMA IndexIn ==
  ASSUME NEW R, NEW ls, NEW f, FunctionOK(R, ls, f), f.i <= Len(f.nodes)
  PROVE  f.i \in DOMAIN f.nodes
<1>1. Good(f.nodes) /\ f.i \in 1 .. Len(f.nodes) + 1
  BY DEF FunctionOK
<1>2. Len(f.nodes) \in Nat /\ DOMAIN f.nodes = 1 .. Len(f.nodes)
  BY <1>1, GoodPiece, SeqIndices DEF Piece
<1> QED BY <1>1, <1>2

\* The functions go on, and nothing else that the invariant is about.
LEMMA FunctionsGoOn ==
  ASSUME CompileInv, status = "compiling", status' = "compiling",
         UNCHANGED <<calls, moved>>,
         ASSUME NEW R, NEW code, CodesSame(R), FunctionsOK(R, labels, functions, code)
         PROVE  \E S : CodesSame(S) /\ FunctionsOK(S, labels', functions', code)
  PROVE  CompileInv'
<1>1. Current' = Current
  BY DEF Current
<1>2. ASSUME ~moved
      PROVE  \E S : CodesSame(S) /\ FunctionsOK(S, labels', functions', Current'.code)
  <2>1. PICK R : CodesSame(R) /\ FunctionsOK(R, labels, functions, Current.code)
    BY <1>2 DEF CompileInv
  <2>2. PICK code : code = Current.code
    OBVIOUS
  <2>3. \E S : CodesSame(S) /\ FunctionsOK(S, labels', functions', code)
    BY <2>1, <2>2
  <2> QED BY <1>1, <2>2, <2>3
<1> QED BY <1>2 DEF CompileInv

\* A lambda: a function more.
LEMMA CompileLambdaKeeps ==
  ASSUME CompileInv, CompileLambda
  PROVE  CompileInv'
<1>1. /\ status = "compiling" /\ status' = "compiling" /\ UNCHANGED <<calls, moved>>
      /\ labels' = labels
      /\ InFunction.i <= Len(InFunction.nodes)
      /\ InFunction.nodes[InFunction.i].op = "lambda"
      /\ functions' = Append(functions, Function(InFunction.nodes[InFunction.i].code))
  BY DEF CompileLambda, Meets, optimizerVars
<1>2. ASSUME NEW R, NEW code, CodesSame(R), FunctionsOK(R, labels, functions, code)
      PROVE  \E S : CodesSame(S) /\ FunctionsOK(S, labels', functions', code)
  <2>1. PICK ls, fs, r : ls = labels /\ fs = functions /\ r = functions'
    OBVIOUS
  <2>2. FunctionsOK(R, ls, fs, code)
    BY <1>2, <2>1
  <2>3. PICK n \in Nat : /\ n > 0 /\ Len(fs) = n /\ Last(fs) = fs[n]
                         /\ FunctionOK(R, ls, fs[n]) /\ IsSeq(fs)
    BY <2>2, TopIsOK
  <2>4. PICK f : f = fs[n]
    OBVIOUS
  <2>5. InFunction = f
    BY <2>1, <2>3, <2>4 DEF InFunction
  <2>6. f.i \in DOMAIN f.nodes
    BY <1>1, <2>3, <2>4, <2>5, IndexIn
  <2>7. IsLambda(f.nodes[f.i])
    BY <1>1, <2>5 DEF IsLambda
  <2>8. PICK g : g = Function(f.nodes[f.i].code)
    OBVIOUS
  <2>9. r = Append(fs, g)
    BY <1>1, <2>1, <2>5, <2>8
  <2>10. FunctionsOK(R, ls, r, code)
    <3>1. \A c, d : <<c, d>> \in R => SameCode(R, c, d)
      BY <1>2 DEF CodesSame
    <3> QED BY <2>2, <2>3, <2>4, <2>6, <2>7, <2>8, <2>9, <3>1, TopBegins
  <2> QED BY <1>1, <1>2, <2>1, <2>10
<1> QED BY <1>1, <1>2, FunctionsGoOn

\* A node that is compiled to itself.
LEMMA CompileNodeKeeps ==
  ASSUME CompileInv, CompileNode
  PROVE  CompileInv'
<1>1. /\ status = "compiling" /\ status' = "compiling" /\ UNCHANGED <<calls, moved>>
      /\ labels' = labels
      /\ InFunction.i <= Len(InFunction.nodes)
      /\ InFunction.nodes[InFunction.i].op \notin {"lambda"} \cup Labels
      /\ functions' = [functions EXCEPT ![Len(functions)] =
                         Emitted(InFunction, InFunction.nodes[InFunction.i])]
  BY DEF CompileNode, Meets, optimizerVars, Replaced
<1>2. ASSUME NEW R, NEW code, CodesSame(R), FunctionsOK(R, labels, functions, code)
      PROVE  \E S : CodesSame(S) /\ FunctionsOK(S, labels', functions', code)
  <2>1. PICK ls, fs, r : ls = labels /\ fs = functions /\ r = functions'
    OBVIOUS
  <2>2. FunctionsOK(R, ls, fs, code)
    BY <1>2, <2>1
  <2>3. PICK n \in Nat : /\ n > 0 /\ Len(fs) = n /\ Last(fs) = fs[n]
                         /\ FunctionOK(R, ls, fs[n]) /\ IsSeq(fs)
    BY <2>2, TopIsOK
  <2>4. PICK f : f = fs[n]
    OBVIOUS
  <2>5. InFunction = f
    BY <2>1, <2>3, <2>4 DEF InFunction
  <2>6. FunctionOK(R, ls, f)
    BY <2>3, <2>4
  <2>7. PICK e : e = f.nodes[f.i]
    OBVIOUS
  <2>8. NodeDone(R, ls, f.nodes[f.i], e)
    BY <1>1, <2>5, <2>7 DEF NodeDone
  <2>9. PICK m \in Nat : m = f.next_label
    BY <2>6 DEF FunctionOK
  <2>10. PICK g : g = [nodes |-> f.nodes, i |-> f.i + 1,
                       code |-> Append(f.code, e), next_label |-> m]
    OBVIOUS
  <2>11. r = [fs EXCEPT ![Len(fs)] = g]
    <3>1. Emitted(f, e) = g
      BY <2>6, <2>9, <2>10, EmittedIs
    <3> QED BY <1>1, <2>1, <2>5, <2>7, <3>1
  <2>12. LabelsMore(ls, ls) /\ Numbered(ls, f.nodes, m) /\ f.i <= Len(f.nodes)
         /\ \A l \in DOMAIN ls \ DOMAIN ls : Own(f.nodes, l)
    BY <1>1, <2>5, <2>6, <2>9 DEF LabelsMore, FunctionOK
  <2>13. FunctionsOK(R, ls, r, code)
    BY <2>2, <2>3, <2>4, <2>8, <2>10, <2>11, <2>12, TopEmits
  <2> QED BY <1>1, <1>2, <2>1, <2>13
<1> QED BY <1>1, <1>2, FunctionsGoOn

\* One of the function's labels is in the table, if it was not.
LabelPut(ls, ms, nodes, m) ==
  /\ LabelsMore(ls, ms) /\ Numbered(ms, nodes, m) /\ m \in Nat
  /\ \A l \in DOMAIN ms \ DOMAIN ls : Own(nodes, l)

\* What a label is compiled to: a number that is in the table, or the function's next.
LEMMA LabelNumbered ==
  ASSUME NEW ls, NEW nodes, NEW q \in Nat, Numbered(ls, nodes, q), NEW x, Own(nodes, x),
         NEW label, label = (IF x \notin DOMAIN ls THEN q ELSE ls[x]),
         NEW m, m = (IF x \notin DOMAIN ls THEN q + 1 ELSE q),
         NEW ms, DOMAIN ms = DOMAIN ls \cup {x}, ms[x] = label,
         \A l \in DOMAIN ls : l # x => ms[l] = ls[l]
  PROVE  LabelPut(ls, ms, nodes, m)
<1>1. /\ DOMAIN ms = DOMAIN ls \cup {x} /\ ms[x] = label
      /\ \A l \in DOMAIN ms : l # x => ms[l] = ls[l]
  OBVIOUS
<1>2. m \in Nat /\ m >= q
  OBVIOUS
<1>3. LabelsMore(ls, ms)
  <2>1. \A l \in DOMAIN ls : ms[l] = ls[l]
    BY <1>1
  <2> QED BY <1>1, <2>1 DEF LabelsMore
<1>4. Numbered(ms, nodes, m)
  <2>1. /\ \A l \in DOMAIN ls : Own(nodes, l) => ls[l] \in Nat /\ ls[l] < q
        /\ \A l, h \in DOMAIN ls : Own(nodes, l) /\ Own(nodes, h) /\ ls[l] = ls[h] => l = h
    BY DEF Numbered
  <2>2. CASE x \in DOMAIN ls
    <3>1. m = q /\ DOMAIN ms = DOMAIN ls
      BY <1>1, <2>2
    <3>2. \A l \in DOMAIN ls : ms[l] = ls[l]
      BY <1>3 DEF LabelsMore
    <3> QED BY <2>1, <3>1, <3>2 DEF Numbered
  <2>3. CASE x \notin DOMAIN ls
    <3>1. m = q + 1 /\ ms[x] = q
      BY <1>1, <2>3
    <3>2. ASSUME NEW l \in DOMAIN ms, Own(nodes, l)
          PROVE  \/ l = x /\ ms[l] = q
                 \/ l \in DOMAIN ls /\ ms[l] = ls[l] /\ ls[l] \in Nat /\ ls[l] < q
      BY <1>1, <2>1, <3>1, <3>2
    <3>3. ASSUME NEW l \in DOMAIN ms, Own(nodes, l)
          PROVE  ms[l] \in Nat /\ ms[l] < m
      <4>1. CASE l = x /\ ms[l] = q
        BY <3>1, <4>1
      <4>2. CASE l \in DOMAIN ls /\ ms[l] = ls[l] /\ ls[l] \in Nat /\ ls[l] < q
        BY <3>1, <4>2
      <4> QED BY <3>2, <3>3, <4>1, <4>2
    <3>4. ASSUME NEW l \in DOMAIN ms, NEW h \in DOMAIN ms, Own(nodes, l), Own(nodes, h),
                 ms[l] = ms[h]
          PROVE  l = h
      BY <2>1, <3>2, <3>4
    <3> QED BY <3>3, <3>4 DEF Numbered
  <2> QED BY <2>2, <2>3
<1>5. \A l \in DOMAIN ms \ DOMAIN ls : Own(nodes, l)
  BY <1>1
<1> QED BY <1>2, <1>3, <1>4, <1>5 DEF LabelPut

\* A branch or a target.
LEMMA CompileBranchKeeps ==
  ASSUME CompileInv, CompileBranch
  PROVE  CompileInv'
<1>1. /\ status = "compiling" /\ status' = "compiling" /\ UNCHANGED <<calls, moved>>
      /\ InFunction.i <= Len(InFunction.nodes)
      /\ InFunction.nodes[InFunction.i].op \in Labels
  BY DEF CompileBranch, Meets, optimizerVars
<1>2. ASSUME NEW R, NEW code, CodesSame(R), FunctionsOK(R, labels, functions, code)
      PROVE  \E S : CodesSame(S) /\ FunctionsOK(S, labels', functions', code)
  <2>1. PICK ls, fs, ms, r :
          ls = labels /\ fs = functions /\ ms = labels' /\ r = functions'
    OBVIOUS
  <2>2. FunctionsOK(R, ls, fs, code)
    BY <1>2, <2>1
  <2>3. PICK n \in Nat : /\ n > 0 /\ Len(fs) = n /\ Last(fs) = fs[n]
                         /\ FunctionOK(R, ls, fs[n]) /\ IsSeq(fs)
    BY <2>2, TopIsOK
  <2>4. PICK f : f = fs[n]
    OBVIOUS
  <2>5. InFunction = f
    BY <2>1, <2>3, <2>4 DEF InFunction
  <2>6. FunctionOK(R, ls, f)
    BY <2>3, <2>4
  <2>7. PICK node : node = f.nodes[f.i]
    OBVIOUS
  <2>8. PICK q \in Nat : q = f.next_label /\ Numbered(ls, f.nodes, q)
    BY <2>6 DEF FunctionOK
  <2>9. PICK x : x = node.label
    OBVIOUS
  <2>10. PICK label : label = (IF x \notin DOMAIN ls THEN q ELSE ls[x])
    OBVIOUS
  <2>11. PICK m : m = (IF x \notin DOMAIN ls THEN q + 1 ELSE q)
    OBVIOUS
  <2>12. PICK e : e = Labelled(node.op, label)
    OBVIOUS
  <2>13. /\ functions' = [functions EXCEPT ![Len(functions)] =
                            [Emitted(f, e) EXCEPT !.next_label =
                               IF x \notin DOMAIN ls THEN @ + 1 ELSE @]]
         /\ ms = [l \in DOMAIN ls \cup {x} |-> IF l = x THEN label ELSE ls[l]]
    BY <2>1, <2>5, <2>7, <2>8, <2>9, <2>10, <2>12 DEF CompileBranch, Replaced
  <2>14. Own(f.nodes, x)
    <3>1. f.i \in DOMAIN f.nodes /\ Good(f.nodes)
      BY <1>1, <2>5, <2>6, IndexIn DEF FunctionOK
    <3> QED BY <1>1, <2>5, <2>7, <2>9, <3>1, LabelOwn
  <2>15. /\ LabelsMore(ls, ms) /\ Numbered(ms, f.nodes, m) /\ m \in Nat
         /\ x \in DOMAIN ms /\ ms[x] = label
         /\ \A l \in DOMAIN ms \ DOMAIN ls : Own(f.nodes, l)
    <3>1. /\ DOMAIN ms = DOMAIN ls \cup {x} /\ ms[x] = label
          /\ \A l \in DOMAIN ls : l # x => ms[l] = ls[l]
      BY <2>13
    <3>2. PICK nodes : nodes = f.nodes
      OBVIOUS
    <3>3. Numbered(ls, nodes, q) /\ Own(nodes, x)
      BY <2>8, <2>14, <3>2
    <3>4. LabelPut(ls, ms, nodes, m)
      BY <2>10, <2>11, <3>1, <3>3, LabelNumbered
    <3> QED BY <3>1, <3>2, <3>4 DEF LabelPut
  <2>16. NodeDone(R, ms, f.nodes[f.i], e)
    BY <1>1, <2>5, <2>7, <2>9, <2>12, <2>15 DEF NodeDone
  <2>17. PICK g : g = [nodes |-> f.nodes, i |-> f.i + 1,
                       code |-> Append(f.code, e), next_label |-> m]
    OBVIOUS
  <2>18. [Emitted(f, e) EXCEPT !.next_label = IF x \notin DOMAIN ls THEN @ + 1 ELSE @] = g
    <3>1. Emitted(f, e) = [nodes |-> f.nodes, i |-> f.i + 1,
                           code |-> Append(f.code, e), next_label |-> f.next_label]
      BY <2>6, EmittedIs
    <3>2. Emitted(f, e).next_label = q
      BY <2>8, <3>1
    <3>3. [Emitted(f, e) EXCEPT !.next_label = IF x \notin DOMAIN ls THEN @ + 1 ELSE @]
          = [Emitted(f, e) EXCEPT !.next_label = m]
      BY <2>11, <3>2
    <3>4. [Emitted(f, e) EXCEPT !.next_label = m] = g
      BY <2>6, <2>17, EmittedIs
    <3> QED BY <3>3, <3>4
  <2>19. r = [fs EXCEPT ![Len(fs)] = g]
    BY <2>1, <2>13, <2>18
  <2>20. FunctionsOK(R, ms, r, code)
    <3>1. f.i <= Len(f.nodes)
      BY <1>1, <2>5
    <3> QED BY <2>2, <2>3, <2>4, <2>15, <2>16, <2>17, <2>19, <3>1, TopEmits
  <2> QED BY <1>2, <2>1, <2>20
<1> QED BY <1>1, <1>2, FunctionsGoOn

\* The end of a function.
LEMMA FinishFunctionKeeps ==
  ASSUME CompileInv, FinishFunction
  PROVE  CompileInv'
<1>1. /\ status = "compiling" /\ UNCHANGED <<calls, moved>> /\ labels' = labels
      /\ InFunction.i > Len(InFunction.nodes)
  BY DEF FinishFunction
<1>2. CASE Len(functions) = 1
  <2>1. status' = "compiled" /\ compiled' = InFunction.code
    BY <1>2 DEF FinishFunction
  <2>2. Current' = Current
    BY <1>1 DEF Current
  <2>3. ASSUME ~moved
        PROVE  \E R : CodesSame(R) /\ SameCode(R, Current'.code, compiled')
    <3>1. PICK R : CodesSame(R) /\ FunctionsOK(R, labels, functions, Current.code)
      BY <1>1, <2>3 DEF CompileInv
    <3>2. PICK ls, fs, code : ls = labels /\ fs = functions /\ code = Current.code
      OBVIOUS
    <3>3. FunctionsOK(R, ls, fs, code)
      BY <3>1, <3>2
    <3>4. PICK n \in Nat : /\ n > 0 /\ Len(fs) = n /\ Last(fs) = fs[n]
                           /\ FunctionOK(R, ls, fs[n]) /\ IsSeq(fs)
      BY <3>3, TopIsOK
    <3>5. PICK f : f = fs[n]
      OBVIOUS
    <3>6. InFunction = f /\ n = 1
      BY <1>2, <3>2, <3>4, <3>5 DEF InFunction
    <3>7. SameCode(R, f.nodes, f.code)
      <4>1. f.i > Len(f.nodes)
        BY <1>1, <3>6
      <4> QED BY <3>4, <3>5, <4>1, FunctionDone
    <3>8. f.nodes = code
      <4>1. fs[1].nodes = code
        BY <3>3 DEF FunctionsOK, FunctionsTo
      <4> QED BY <3>5, <3>6, <4>1
    <3> QED BY <2>1, <2>2, <3>1, <3>2, <3>6, <3>7, <3>8
  <2> QED BY <1>1, <2>1, <2>3 DEF CompileInv
<1>3. CASE Len(functions) # 1
  <2>1. /\ status' = "compiling"
        /\ functions' = Append(Front(Front(functions)),
                               Emitted(Last(Front(functions)), Lambda(InFunction.code)))
    BY <1>1, <1>3 DEF FinishFunction
  <2>2. ASSUME NEW R, NEW code, CodesSame(R), FunctionsOK(R, labels, functions, code)
        PROVE  \E S : CodesSame(S) /\ FunctionsOK(S, labels', functions', code)
    <3>1. PICK ls, fs, r : ls = labels /\ fs = functions /\ r = functions'
      OBVIOUS
    <3>2. FunctionsOK(R, ls, fs, code)
      BY <2>2, <3>1
    <3>3. PICK k \in Nat : /\ k > 0 /\ Len(fs) = k /\ Last(fs) = fs[k]
                           /\ FunctionOK(R, ls, fs[k]) /\ IsSeq(fs)
      BY <3>2, TopIsOK
    <3>4. PICK n \in Nat : n > 0 /\ k = n + 1
      <4>1. k # 1
        BY <1>3, <3>1, <3>3
      <4>2. k - 1 \in Nat /\ k - 1 > 0 /\ k = (k - 1) + 1
        BY <3>3, <4>1
      <4> QED BY <4>2
    <3>5. PICK f, h : f = fs[n + 1] /\ h = fs[n]
      OBVIOUS
    <3>6. InFunction = f
      BY <3>1, <3>3, <3>4, <3>5 DEF InFunction
    <3>7. SameCode(R, f.nodes, f.code)
      <4>1. FunctionOK(R, ls, f) /\ f.i > Len(f.nodes)
        BY <1>1, <3>3, <3>4, <3>5, <3>6
      <4> QED BY <4>1, FunctionDone
    <3>8. PICK S : S = R \cup {<<f.nodes, f.code>>}
      OBVIOUS
    <3>9. CodesSame(S)
      <4>1. \A c, d : <<c, d>> \in S => SameCode(S, c, d)
        BY <2>2, <3>7, <3>8, PairsMore DEF CodesSame
      <4>2. Diag(Programs) \subseteq S
        BY <2>2, <3>8 DEF CodesSame
      <4> QED BY <4>1, <4>2 DEF CodesSame
    <3>10. PICK g : g = [nodes |-> h.nodes, i |-> h.i + 1,
                         code |-> Append(h.code, Lambda(f.code)),
                         next_label |-> h.next_label]
      OBVIOUS
    <3>11. r = Append(Front(Front(fs)), g)
      <4>1. Last(Front(fs)) = h
        BY <3>3, <3>4, <3>5, FrontLast
      <4>2. FunctionOK(R, ls, h)
        <5>1. n \in 1 .. n + 1
          BY <3>4
        <5> QED BY <3>2, <3>3, <3>4, <3>5, <5>1 DEF FunctionsOK, FunctionsTo
      <4>3. Emitted(h, Lambda(f.code)) = g
        BY <3>10, <4>2, EmittedIs
      <4> QED BY <2>1, <3>1, <3>6, <4>1, <4>3
    <3>12. FunctionsOK(S, ls, r, code)
      BY <3>2, <3>3, <3>4, <3>5, <3>8, <3>10, <3>11, TopEnds
    <3> QED BY <1>1, <3>1, <3>9, <3>12
  <2> QED BY <1>1, <2>1, <2>2, FunctionsGoOn
<1> QED BY <1>2, <1>3

\* CompileInv is inductive, with the other two.
LEMMA StepCompile ==
  ASSUME LabelInv, MeaningInv, CompileInv, [Next]_vars
  PROVE  CompileInv'
<1>1. CASE Optimize
  <2>1. status = "running" /\ status' \in {"running", "done", "aborted"}
    BY <1>1 DEF Optimize, OptimizerNext, Descend, InlineExec, InlineCondExec, InlineWhile,
                Advance, NextPass, Return, InPass
  <2>2. labels' = labels
    BY <1>1 DEF Optimize
  <2> QED BY <2>1, <2>2 DEF CompileInv
<1>2. CASE UNCHANGED vars
  <2>1. /\ status' = status /\ moved' = moved /\ labels' = labels
        /\ functions' = functions /\ compiled' = compiled /\ Current' = Current
    BY <1>2 DEF vars, optimizerVars, Current
  <2> QED BY <2>1 DEF CompileInv
<1> QED BY <1>1, <1>2, CompileKeeps, CompileLambdaKeeps, CompileNodeKeeps,
           CompileBranchKeeps, FinishFunctionKeeps DEF Next

\* What runs in the end does what the program did, from the operands on.
LEMMA CompiledSame ==
  ASSUME LabelInv, MeaningInv, CompileInv, status = "compiled", ~moved,
         NEW operands \in Operands
  PROVE  Same(source, compiled, operands)
<1>1. PICK R : CodesSame(R) /\ SameCode(R, Current.code, compiled)
  BY DEF CompileInv
<1>2. PICK c, d : c = Current.code /\ d = compiled
  OBVIOUS
<1>3. Same(source, c, operands)
  <2>1. Len(calls) = 1 /\ \E U, W : Meant(U, W, calls, Len(calls), source)
    BY DEF MeaningInv
  <2>2. PICK U, W : Meant(U, W, calls, 1, source)
    BY <2>1
  <2>3. Current = calls[1]
    BY <2>1, CurrentOK
  <2>4. W[1] = c
    BY <1>2, <2>2, <2>3 DEF Meant, Whole
  <2> QED BY <2>2, <2>4 DEF Meant
<1>4. PICK S : S = R \cup {<<c, d>>}
  OBVIOUS
<1>5. Justified(S)
  <2>1. \A a, b : <<a, b>> \in S => SameCode(S, a, b)
    BY <1>1, <1>2, <1>4, PairsMore DEF CodesSame
  <2> QED BY <2>1 DEF Justified
<1>6. StacksAlike(S, operands, operands)
  <2>1. Diag(Programs) \subseteq S
    BY <1>1, <1>4 DEF CodesSame
  <2> QED BY <2>1, OperandsAlike
<1>7. Same(c, d, operands)
  <2>1. <<c, d>> \in S
    BY <1>4
  <2> QED BY <1>5, <1>6, <2>1, PairedSame
<1> QED BY <1>2, <1>3, <1>7, SameOn

\* All the ways a code ends, however long it is watched.
LEMMA OutcomesAre ==
  ASSUME Watched = Nat, NEW code, NEW operands, NEW o
  PROVE  o \in Outcomes(code, operands) <=> EndsAs(Started(code, operands), o)
<1>1. \A n \in Nat : Outcome(code, operands, n) = Seen(After(Started(code, operands), n))
  BY OutcomeIs
<1>2. o \in Outcomes(code, operands)
      <=> o.ended # "no" /\ \E n \in Nat : o = Outcome(code, operands, n)
  BY DEF Outcomes
<1> QED BY <1>1, <1>2 DEF EndsAs

\* Once compiled, the program means what its source does.
LEMMA CompiledMeans ==
  ASSUME Watched = Nat, LabelInv, MeaningInv, CompileInv
  PROVE  KeepsMeaning
<1>1. ASSUME status = "compiled", ~moved, NEW operands \in Operands
      PROVE  Outcomes(compiled, operands) = Outcomes(source, operands)
  <2>1. Same(source, compiled, operands)
    BY <1>1, CompiledSame
  <2>2. \A o : o \in Outcomes(compiled, operands) <=> o \in Outcomes(source, operands)
    BY <2>1, OutcomesAre DEF Same
  <2>3. ASSUME NEW A, NEW B, \A o : o \in A <=> o \in B
        PROVE  A = B
    BY <2>3
  <2> QED BY <2>2, <2>3
<1> QED BY <1>1 DEF KeepsMeaning, SameMeaning

\* The compiled program ends in just the ways the program in the source does, and
\* leaves the same: from every operands, for every program, watched for any number
\* of steps (Optimizer.optimize and Compiler::compile_raw), unless unordered_remove
\* moved nodes past one another.
THEOREM CompilingKeepsMeaning ==
  ASSUME Watched = Nat
  PROVE  Spec => []KeepsMeaning
<1>1. Init => LabelInv /\ MeaningInv /\ CompileInv
  <2>1. Init => LabelInv /\ MeaningInv
    BY InitLabels, InitMeaning DEF Init
  <2>2. Init => CompileInv
    BY DEF Init, OptimizerInit, CompileInv
  <2> QED BY <2>1, <2>2
<1>2. LabelInv /\ MeaningInv /\ CompileInv /\ [Next]_vars
      => (LabelInv /\ MeaningInv /\ CompileInv)'
  BY StepLabels, StepMeaning, StepCompile
<1>3. LabelInv /\ MeaningInv /\ CompileInv => KeepsMeaning
  BY CompiledMeans
<1> QED BY <1>1, <1>2, <1>3, PTL DEF Spec
=============================================================================
