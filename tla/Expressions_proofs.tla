------------------------ MODULE Expressions_proofs -------------------------
(***************************************************************************)
(* The data stack of the code of an expression holds what its parser       *)
(* accounts for; for every value of Expressions' constants.                *)
(*                                                                         *)
(* The argument: what every sequence of instructions does to the length of *)
(* the data stack is known (Runs), also when it is repeated.  On every     *)
(* precedence stack only the top expression may have a number of values    *)
(* other than one, and only where no operator waits for it (ContextsOK).   *)
(* A rule is reduced only before a token that bounds what was just parsed  *)
(* (TokOK), so the values that a rule's instructions take are there.       *)
(***************************************************************************)
EXTENDS Expressions, SequenceTheorems, WellFoundedInduction, TLAPS

(***************************************************************************)
(* Induction over the natural numbers, for sets of them.                   *)
(***************************************************************************)
LEMMA LeastNumber ==
  ASSUME NEW S, S \subseteq Nat, S # {}
  PROVE  \E m \in S : \A k \in S : m <= k
  <1> DEFINE R == OpToRel(<, Nat)
  <1>1. IsWellFoundedOn(R, Nat)
    BY NatLessThanWellFounded, Zenon
  <1>2. \A x, y \in Nat : <<y, x>> \in R <=> y < x
    BY DEF OpToRel
  <1> HIDE DEF R
  <1>3. PICK m \in S : \A k \in S : ~ (<<k, m>> \in R)
    BY <1>1, WFMin
  <1>4. ASSUME NEW k \in S PROVE m <= k
    <2>1. k \in Nat /\ m \in Nat /\ ~ (k < m)
      BY <1>2, <1>3
    <2> QED
      BY <2>1
  <1> QED
    BY <1>4

LEMMA Counting ==
  ASSUME NEW n \in Nat, NEW S, 0 \in S,
         \A k \in 0..(n - 1) : k \in S => k + 1 \in S
  PROVE  \A k \in 0..n : k \in S
  <1> SUFFICES ASSUME NEW j \in 0..n, j \notin S PROVE FALSE
    OBVIOUS
  <1> DEFINE T == (0..n) \ S
  <1>1. PICK m \in T : \A k \in T : m <= k
    <2>1. T \subseteq Nat /\ T # {}
      OBVIOUS
    <2> QED
      BY <2>1, LeastNumber
  <1>2. m # 0 /\ m - 1 \in 0..(n - 1) /\ m - 1 \notin T
    BY <1>1
  <1>3. m - 1 \in S /\ (m - 1) + 1 = m
    BY <1>2
  <1> QED
    BY <1>1, <1>2, <1>3

(***************************************************************************)
(* Sums.                                                                   *)
(***************************************************************************)
(* p[k] is the sum of the first k elements of h.                           *)
Sums(h, n) ==
  {p \in [0..n -> Nat] : p[0] = 0 /\ \A i \in 1..n : p[i] = p[i-1] + h[i]}

LEMMA SumsExist ==
  ASSUME NEW n \in Nat, NEW h, \A i \in 1..n : h[i] \in Nat
  PROVE  Sums(h, n) # {}
  <1> DEFINE S == {k \in 0..n : Sums(h, k) # {}}
  <1>1. 0 \in S
    <2>1. [i \in 0..0 |-> 0] \in Sums(h, 0)
      BY DEF Sums
    <2> QED
      BY <2>1
  <1>2. ASSUME NEW k \in 0..(n - 1), k \in S PROVE k + 1 \in S
    <2>1. PICK p : p \in Sums(h, k)
      BY <1>2
    <2> DEFINE q == [i \in 0..(k + 1) |-> IF i = k + 1 THEN p[k] + h[k + 1] ELSE p[i]]
    <2>2. p \in [0..k -> Nat] /\ p[0] = 0 /\ \A i \in 1..k : p[i] = p[i-1] + h[i]
      BY <2>1 DEF Sums
    <2>3. k + 1 \in 1..n /\ k \in 0..k
      OBVIOUS
    <2>4. p[k] \in Nat /\ h[k + 1] \in Nat
      BY <2>2, <2>3
    <2>5. q \in [0..(k + 1) -> Nat]
      BY <2>2, <2>4
    <2>6. q[0] = 0 /\ q[k + 1] = q[k] + h[k + 1]
      BY <2>2
    <2>7. ASSUME NEW i \in 1..k PROVE q[i] = q[i-1] + h[i]
      BY <2>2
    <2>8. \A i \in 1..(k + 1) : i = k + 1 \/ i \in 1..k
      OBVIOUS
    <2>9. \A i \in 1..(k + 1) : q[i] = q[i-1] + h[i]
      <3> HIDE DEF q
      <3> QED
        BY <2>6, <2>7, <2>8
    <2>10. q \in Sums(h, k + 1)
      <3> HIDE DEF q
      <3> QED
        BY <2>5, <2>6, <2>9 DEF Sums
    <2> QED
      BY <2>3, <2>10
  <1> HIDE DEF S
  <1>3. \A k \in 0..n : k \in S
    BY <1>1, <1>2, Counting
  <1> QED
    BY <1>3 DEF S

LEMMA SumOfIs ==
  ASSUME NEW n \in Nat, NEW h, NEW p \in Sums(h, n)
  PROVE  SumOf(h, n) = p[n]
  <1> DEFINE sum == CHOOSE s : s = [i \in 0..n |-> IF i = 0 THEN 0 ELSE s[i-1] + h[i]]
  <1>1. p = [i \in 0..n |-> IF i = 0 THEN 0 ELSE p[i-1] + h[i]]
    BY DEF Sums
  <1>2. sum = [i \in 0..n |-> IF i = 0 THEN 0 ELSE sum[i-1] + h[i]]
    BY <1>1
  <1>3. SumOf(h, n) = sum[n]
    BY DEF SumOf
  <1> DEFINE S == {k \in 0..n : sum[k] = p[k]}
  <1> HIDE DEF sum
  <1>4. 0 \in S
    BY <1>2 DEF Sums
  <1>5. ASSUME NEW k \in 0..(n - 1), k \in S PROVE k + 1 \in S
    BY <1>2, <1>5 DEF Sums
  <1> HIDE DEF S
  <1>6. \A k \in 0..n : k \in S
    BY <1>4, <1>5, Counting
  <1> QED
    BY <1>3, <1>6 DEF S

LEMMA SumFacts ==
  ASSUME NEW n \in Nat, NEW h, \A i \in 1..n : h[i] \in Nat
  PROVE  /\ SumOf(h, n) \in Nat
         /\ n = 0 => SumOf(h, n) = 0
  <1>1. PICK p : p \in Sums(h, n)
    BY SumsExist
  <1>2. SumOf(h, n) = p[n]
    BY <1>1, SumOfIs
  <1> QED
    BY <1>1, <1>2 DEF Sums

(* Only the elements count, not what comes after them.                     *)
LEMMA SumSame ==
  ASSUME NEW n \in Nat, NEW b, NEW h, \A i \in 1..n : h[i] \in Nat /\ b[i] = h[i]
  PROVE  SumOf(b, n) = SumOf(h, n)
  <1>1. PICK p : p \in Sums(h, n)
    BY SumsExist
  <1>2. p \in Sums(b, n)
    BY <1>1 DEF Sums
  <1> QED
    BY <1>1, <1>2, SumOfIs

LEMMA SumNext ==
  ASSUME NEW n \in Nat, NEW h, \A i \in 1..(n + 1) : h[i] \in Nat
  PROVE  SumOf(h, n + 1) = SumOf(h, n) + h[n + 1]
  <1>1. PICK p : p \in Sums(h, n + 1)
    BY SumsExist
  <1>2. SumOf(h, n + 1) = p[n + 1]
    BY <1>1, SumOfIs
  <1> DEFINE q == [i \in 0..n |-> p[i]]
  <1>3. q \in Sums(h, n)
    BY <1>1 DEF Sums
  <1>4. SumOf(h, n) = q[n]
    BY <1>3, SumOfIs
  <1>5. p[n + 1] = p[n] + h[n + 1]
    <2>1. n + 1 \in 1..(n + 1) /\ (n + 1) - 1 = n
      OBVIOUS
    <2>2. \A i \in 1..(n + 1) : p[i] = p[i-1] + h[i]
      BY <1>1 DEF Sums
    <2> QED
      BY <2>1, <2>2
  <1> QED
    BY <1>2, <1>4, <1>5

(***************************************************************************)
(* Sequences.                                                              *)
(***************************************************************************)
IsSeq(s) == \E S : s \in Seq(S)

(* t is the first k elements of s and then x.                              *)
Changed(t, s, k, x) ==
  /\ IsSeq(t) /\ Len(t) = k + 1 /\ t[k + 1] = x
  /\ \A i \in 1..k : t[i] = s[i]

LEMMA AppendChanges ==
  ASSUME NEW s, IsSeq(s), NEW x
  PROVE  /\ Changed(Append(s, x), s, Len(s), x)
         /\ Changed(s \o <<x>>, s, Len(s), x)
         /\ s \o <<>> = s /\ Len(s) \in Nat
  <1>1. PICK S : s \in Seq(S)
    BY DEF IsSeq
  <1> DEFINE T == S \union {x}
  <1>2. s \in Seq(T) /\ x \in T /\ Len(s) \in Nat
    BY <1>1
  <1> HIDE DEF T
  <1>3. /\ Append(s, x) \in Seq(T) /\ Len(Append(s, x)) = Len(s) + 1
        /\ \A i \in 1..(Len(s) + 1) : Append(s, x)[i] = IF i <= Len(s) THEN s[i] ELSE x
    BY <1>2, AppendProperties
  <1>4. s \o <<x>> = Append(s, x) /\ s \o <<>> = s
    BY <1>2
  <1> QED
    BY <1>2, <1>3, <1>4 DEF Changed, IsSeq

LEMMA PrefixFacts ==
  ASSUME NEW s, IsSeq(s), NEW k \in 0..Len(s)
  PROVE  /\ IsSeq(SubSeq(s, 1, k)) /\ Len(SubSeq(s, 1, k)) = k
         /\ \A i \in 1..k : SubSeq(s, 1, k)[i] = s[i]
  <1>1. PICK S : s \in Seq(S)
    BY DEF IsSeq
  <1>2. \A i \in 1..k : s[i] \in S
    BY <1>1, ElementOfSeq
  <1>3. /\ SubSeq(s, 1, k) \in Seq(S)
        /\ Len(SubSeq(s, 1, k)) = IF 1 <= k THEN k - 1 + 1 ELSE 0
        /\ \A i \in 1 .. k - 1 + 1 : SubSeq(s, 1, k)[i] = s[1 + i - 1]
    BY <1>1, <1>2, SubSeqProperties
  <1>4. k \in Nat /\ k - 1 + 1 = k
    BY <1>1
  <1> QED
    BY <1>3, <1>4 DEF IsSeq

LEMMA ExceptChanges ==
  ASSUME NEW s, IsSeq(s), Len(s) \in Nat \ {0}, NEW x
  PROVE  Changed([s EXCEPT ![Len(s)] = x], s, Len(s) - 1, x)
  <1>1. PICK S : s \in Seq(S)
    BY DEF IsSeq
  <1> DEFINE T == S \union {x}
  <1> DEFINE t == [s EXCEPT ![Len(s)] = x]
  <1>0. PICK n : n = Len(s)
    OBVIOUS
  <1>2. s \in [1..n -> T] /\ x \in T /\ n \in 1..n /\ n \in Nat
    BY <1>0, <1>1
  <1> HIDE DEF T
  <1>3. t \in [1..n -> T] /\ t[n] = x /\ \A i \in 1..(n - 1) : t[i] = s[i]
    BY <1>0, <1>2
  <1> HIDE DEF t
  <1>4. t \in Seq(T)
    BY <1>2, <1>3, SeqDef
  <1>5. Len(t) = n /\ (n - 1) + 1 = n
    BY <1>2, <1>3, <1>4
  <1>6. IsSeq(t)
    BY <1>4 DEF IsSeq
  <1>7. Changed(t, s, n - 1, x)
    BY <1>3, <1>5, <1>6 DEF Changed
  <1> QED
    BY <1>0, <1>7 DEF t

(***************************************************************************)
(* The machine.                                                            *)
(***************************************************************************)
StateOf(d, t, l, r, o, u) ==
  [data |-> d, tf |-> t, lf |-> l, result |-> r, out |-> o, fault |-> u]

IsMachine(m) == \E d, t, l, r, o, u : IsSeq(d) /\ m = StateOf(d, t, l, r, o, u)

Runs(m, n, d) ==
  /\ IsMachine(n)
  /\ n.fault = NoFault => m.fault = NoFault /\ Len(n.data) = Len(m.data) + d

(* n is m but for what is not on the data stack.                           *)
SameData(m, n) == IsMachine(n) /\ n.data = m.data /\ n.fault = m.fault

LEMMA FieldFacts ==
  ASSUME NEW d, NEW t, NEW l, NEW r, NEW o, NEW u, NEW m, m = StateOf(d, t, l, r, o, u)
  PROVE  m.data = d /\ m.fault = u
  BY DEF StateOf

LEMMA DataUpdate ==
  ASSUME NEW d, NEW t, NEW l, NEW r, NEW o, NEW u, NEW x, NEW m, NEW n,
         m = [data |-> d, tf |-> t, lf |-> l, result |-> r, out |-> o, fault |-> u],
         n = [m EXCEPT !.data = x]
  PROVE  n = [data |-> x, tf |-> t, lf |-> l, result |-> r, out |-> o, fault |-> u]
  OBVIOUS

LEMMA TFUpdate ==
  ASSUME NEW d, NEW t, NEW l, NEW r, NEW o, NEW u, NEW x, NEW m, NEW n,
         m = [data |-> d, tf |-> t, lf |-> l, result |-> r, out |-> o, fault |-> u],
         n = [m EXCEPT !.tf = x]
  PROVE  n = [data |-> d, tf |-> x, lf |-> l, result |-> r, out |-> o, fault |-> u]
  OBVIOUS

LEMMA LFUpdate ==
  ASSUME NEW d, NEW t, NEW l, NEW r, NEW o, NEW u, NEW x, NEW m, NEW n,
         m = [data |-> d, tf |-> t, lf |-> l, result |-> r, out |-> o, fault |-> u],
         n = [m EXCEPT !.lf = x]
  PROVE  n = [data |-> d, tf |-> t, lf |-> x, result |-> r, out |-> o, fault |-> u]
  OBVIOUS

LEMMA ResultUpdate ==
  ASSUME NEW d, NEW t, NEW l, NEW r, NEW o, NEW u, NEW x, NEW m, NEW n,
         m = [data |-> d, tf |-> t, lf |-> l, result |-> r, out |-> o, fault |-> u],
         n = [m EXCEPT !.result = x]
  PROVE  n = [data |-> d, tf |-> t, lf |-> l, result |-> x, out |-> o, fault |-> u]
  OBVIOUS

LEMMA FaultUpdate ==
  ASSUME NEW d, NEW t, NEW l, NEW r, NEW o, NEW u, NEW x, NEW m, NEW n,
         m = [data |-> d, tf |-> t, lf |-> l, result |-> r, out |-> o, fault |-> u],
         n = [m EXCEPT !.fault = x]
  PROVE  n = [data |-> d, tf |-> t, lf |-> l, result |-> r, out |-> o, fault |-> x]
  OBVIOUS

LEMMA DataResultUpdate ==
  ASSUME NEW d, NEW t, NEW l, NEW r, NEW o, NEW u, NEW x, NEW y, NEW m, NEW n,
         m = [data |-> d, tf |-> t, lf |-> l, result |-> r, out |-> o, fault |-> u],
         n = [m EXCEPT !.data = x, !.result = y]
  PROVE  n = [data |-> x, tf |-> t, lf |-> l, result |-> y, out |-> o, fault |-> u]
  OBVIOUS

LEMMA TFResultUpdate ==
  ASSUME NEW d, NEW t, NEW l, NEW r, NEW o, NEW u, NEW x, NEW y, NEW m, NEW n,
         m = [data |-> d, tf |-> t, lf |-> l, result |-> r, out |-> o, fault |-> u],
         n = [m EXCEPT !.tf = x, !.result = y]
  PROVE  n = [data |-> d, tf |-> x, lf |-> l, result |-> y, out |-> o, fault |-> u]
  OBVIOUS

LEMMA ResultOutUpdate ==
  ASSUME NEW d, NEW t, NEW l, NEW r, NEW o, NEW u, NEW x, NEW y, NEW m, NEW n,
         m = [data |-> d, tf |-> t, lf |-> l, result |-> r, out |-> o, fault |-> u],
         n = [m EXCEPT !.result = x, !.out = y]
  PROVE  n = [data |-> d, tf |-> t, lf |-> l, result |-> x, out |-> y, fault |-> u]
  OBVIOUS

LEMMA DataIsSeq ==
  ASSUME NEW m, IsMachine(m)
  PROVE  IsSeq(m.data) /\ Len(m.data) \in Nat /\ SameData(m, m)
  <1>1. PICK d, t, l, r, o, u : IsSeq(d) /\ m = StateOf(d, t, l, r, o, u)
    BY DEF IsMachine
  <1>2. m.data = d
    BY <1>1, FieldFacts
  <1> QED
    BY <1>1, <1>2, AppendChanges DEF SameData

LEMMA SameFacts ==
  ASSUME NEW m, IsMachine(m)
  PROVE  /\ \A n, x : n = [m EXCEPT !.tf = x] => SameData(m, n)
         /\ \A n, x : n = [m EXCEPT !.lf = x] => SameData(m, n)
         /\ \A n, x : n = [m EXCEPT !.result = x] => SameData(m, n)
         /\ \A n, x, y : n = [m EXCEPT !.tf = x, !.result = y] => SameData(m, n)
         /\ \A n, x, y : n = [m EXCEPT !.result = x, !.out = y] => SameData(m, n)
  <1>1. PICK d, t, l, r, o, u : IsSeq(d) /\ m = StateOf(d, t, l, r, o, u)
    BY DEF IsMachine
  <1>2. ASSUME NEW x, NEW y, NEW z, NEW w PROVE SameData(m, StateOf(d, x, y, z, w, u))
    <2>1. PICK n : n = StateOf(d, x, y, z, w, u)
      OBVIOUS
    <2>2. n.data = d /\ n.fault = u /\ m.data = d /\ m.fault = u
      BY <1>1, <2>1, FieldFacts
    <2>3. IsMachine(n)
      BY <1>1, <2>1 DEF IsMachine
    <2> QED
      BY <2>1, <2>2, <2>3 DEF SameData
  <1>4. m = [data |-> d, tf |-> t, lf |-> l, result |-> r, out |-> o, fault |-> u]
    BY <1>1 DEF StateOf
  <1>5. ASSUME NEW n, NEW x, n = [m EXCEPT !.tf = x] PROVE SameData(m, n)
    BY <1>2, <1>4, <1>5, TFUpdate DEF StateOf
  <1>6. ASSUME NEW n, NEW x, n = [m EXCEPT !.lf = x] PROVE SameData(m, n)
    BY <1>2, <1>4, <1>6, LFUpdate DEF StateOf
  <1>7. ASSUME NEW n, NEW x, n = [m EXCEPT !.result = x] PROVE SameData(m, n)
    BY <1>2, <1>4, <1>7, ResultUpdate DEF StateOf
  <1>8. ASSUME NEW n, NEW x, NEW y, n = [m EXCEPT !.tf = x, !.result = y]
        PROVE  SameData(m, n)
    <2>1. n = [data |-> d, tf |-> x, lf |-> l, result |-> y, out |-> o, fault |-> u]
      BY <1>4, <1>8, TFResultUpdate
    <2> QED
      BY <1>2, <2>1 DEF StateOf
  <1>9. ASSUME NEW n, NEW x, NEW y, n = [m EXCEPT !.result = x, !.out = y]
        PROVE  SameData(m, n)
    <2>1. n = [data |-> d, tf |-> t, lf |-> l, result |-> x, out |-> y, fault |-> u]
      BY <1>4, <1>9, ResultOutUpdate
    <2> QED
      BY <1>2, <2>1 DEF StateOf
  <1> QED
    BY <1>5, <1>6, <1>7, <1>8, <1>9

LEMMA DataFacts ==
  ASSUME NEW m, IsMachine(m), NEW s, IsSeq(s), NEW n, n = [m EXCEPT !.data = s]
  PROVE  IsMachine(n) /\ n.data = s /\ n.fault = m.fault
  <1>1. PICK d, t, l, r, o, u : IsSeq(d) /\ m = StateOf(d, t, l, r, o, u)
    BY DEF IsMachine
  <1>2. n = StateOf(s, t, l, r, o, u)
    BY <1>1, DataUpdate DEF StateOf
  <1>3. n.data = s /\ n.fault = u /\ m.fault = u
    BY <1>1, <1>2, FieldFacts
  <1> QED
    BY <1>2, <1>3 DEF IsMachine

(* n is m with other data and another result.                              *)
Differs(n, m, s, y) == n = [m EXCEPT !.data = s, !.result = y]

LEMMA DataResultFacts ==
  ASSUME NEW m, IsMachine(m), NEW s, IsSeq(s), NEW y, NEW n, Differs(n, m, s, y)
  PROVE  IsMachine(n) /\ n.data = s /\ n.fault = m.fault
  <1>1. PICK d, t, l, r, o, u : IsSeq(d) /\ m = StateOf(d, t, l, r, o, u)
    BY DEF IsMachine
  <1>2. n = StateOf(s, t, l, y, o, u)
    BY <1>1, DataResultUpdate DEF StateOf, Differs
  <1>3. n.data = s /\ n.fault = u /\ m.fault = u
    BY <1>1, <1>2, FieldFacts
  <1> QED
    BY <1>2, <1>3 DEF IsMachine

LEMMA FaultFacts ==
  ASSUME NEW m, IsMachine(m), NEW u, NEW n, n = [m EXCEPT !.fault = u]
  PROVE  IsMachine(n) /\ n.fault = u
  <1>1. PICK d, t, l, r, o, z : IsSeq(d) /\ m = StateOf(d, t, l, r, o, z)
    BY DEF IsMachine
  <1>2. n = StateOf(d, t, l, r, o, u)
    BY <1>1, FaultUpdate DEF StateOf
  <1>3. n.fault = u
    BY <1>2, FieldFacts
  <1> QED
    BY <1>1, <1>2, <1>3 DEF IsMachine

(* An instruction that is possible does what it does, another one faults.  *)
(* n is what m becomes; c is m, or what an instruction before made of it.   *)
LEMMA ExecuteRuns ==
  ASSUME NEW m, IsMachine(m), NEW c, Runs(m, c, 0), NEW n, IsMachine(n),
         NEW p, NEW u, NEW d, u # NoFault \/ p,
         p => (n.fault = m.fault /\ (m.fault = NoFault => Len(n.data) = Len(m.data) + d))
  PROVE  Runs(m, Execute(c, p, n, u), d)
  <1> DEFINE k == [c EXCEPT !.fault = u]
  <1>1. IsMachine(k) /\ k.fault = u /\ IsMachine(c)
    BY FaultFacts DEF Runs
  <1>2. \/ Execute(c, p, n, u) = c /\ c.fault # NoFault
        \/ Execute(c, p, n, u) = n /\ c.fault = NoFault /\ p
        \/ Execute(c, p, n, u) = k /\ c.fault = NoFault /\ ~ p
    BY DEF Execute
  <1> HIDE DEF k
  <1> QED
    BY <1>1, <1>2 DEF Runs

LEMMA RunsFacts ==
  ASSUME NEW m, IsMachine(m)
  PROVE  /\ Runs(m, m, 0)
         /\ \A n, k, d, e : d \in Int /\ e \in Int /\ Runs(m, n, d) /\ Runs(n, k, e) =>
              Runs(m, k, d + e)
         /\ \A n, d : Runs(m, n, d) => IsMachine(n)
  <1>1. Len(m.data) \in Nat
    BY DataIsSeq
  <1> QED
    BY <1>1 DEF Runs

LEMMA ExecuteSame ==
  ASSUME NEW m, IsMachine(m), NEW c, Runs(m, c, 0), NEW n, SameData(m, n),
         NEW p, NEW u, u # NoFault \/ p
  PROVE  Runs(m, Execute(c, p, n, u), 0)
  <1>1. IsMachine(n) /\ n.fault = m.fault /\ Len(n.data) = Len(m.data) + 0
    BY DataIsSeq DEF SameData
  <1> QED
    BY <1>1, ExecuteRuns

(***************************************************************************)
(* Instructions.                                                           *)
(***************************************************************************)
LEMMA PushRuns ==
  ASSUME NEW m, IsMachine(m), NEW v
  PROVE  Runs(m, PUSHS(m, v), 1)
  <1> DEFINE s == Append(m.data, v)
             n == [m EXCEPT !.data = s]
  <1>1. IsSeq(s) /\ Len(s) = Len(m.data) + 1
    BY AppendChanges, DataIsSeq DEF Changed
  <1>2. n = [m EXCEPT !.data = Append(@, v)]
    OBVIOUS
  <1> HIDE DEF s
  <1>3. IsMachine(n) /\ n.data = s /\ n.fault = m.fault
    BY <1>1, DataFacts
  <1> HIDE DEF n
  <1>4. Runs(m, Execute(m, TRUE, n, NoFault), 1)
    BY <1>1, <1>3, ExecuteRuns, RunsFacts
  <1> QED
    BY <1>2, <1>4 DEF PUSHS

LEMMA PopRuns ==
  ASSUME NEW m, IsMachine(m)
  PROVE  Runs(m, POPS(m), -1)
  <1>0. PICK s, v : s = SubSeq(m.data, 1, Len(m.data) - 1) /\ v = m.data[Len(m.data)]
    OBVIOUS
  <1>1. PICK n : Differs(n, m, s, v)
    BY DEF Differs
  <1>5. POPS(m) = Execute(m, m.data # <<>>, n, NO_VALUE)
    BY <1>0, <1>1 DEF POPS, Differs
  <1>2. NO_VALUE # NoFault
    BY DEF NO_VALUE, NoFault
  <1>3. CASE m.data = <<>>
    <2>1. Runs(m, Execute(m, FALSE, m, NO_VALUE), -1)
      BY <1>2, ExecuteRuns, RunsFacts
    <2>2. Execute(m, FALSE, m, NO_VALUE) = Execute(m, m.data # <<>>, n, NO_VALUE)
      BY <1>3 DEF Execute
    <2> QED
      BY <1>5, <2>1, <2>2
  <1>4. CASE m.data # <<>>
    <2>1. Len(m.data) - 1 \in 0..Len(m.data) /\ Len(m.data) \in Nat
      <3>1. PICK S : m.data \in Seq(S)
        BY DataIsSeq DEF IsSeq
      <3> QED
        BY <1>4, <3>1, EmptySeq
    <2>2. IsSeq(s) /\ Len(s) = Len(m.data) - 1
      BY <1>0, <2>1, PrefixFacts, DataIsSeq
    <2>3. IsMachine(n) /\ n.data = s /\ n.fault = m.fault
      BY <1>1, <2>2, DataResultFacts
    <2>4. Len(n.data) = Len(m.data) + (-1)
      BY <2>1, <2>2, <2>3
    <2>5. Runs(m, Execute(m, m.data # <<>>, n, NO_VALUE), -1)
      BY <1>2, <2>3, <2>4, ExecuteRuns, RunsFacts
    <2> QED
      BY <1>5, <2>5
  <1> QED
    BY <1>3, <1>4

LEMMA FrameRuns ==
  ASSUME NEW m, IsMachine(m)
  PROVE  /\ Runs(m, CREATEFRAME(m), 0)
         /\ \A x, v : Runs(m, NewInTF(m, x, v), 0)
  <1>1. Runs(m, CREATEFRAME(m), 0)
    BY SameFacts, RunsFacts, ExecuteSame DEF CREATEFRAME
  <1>2. ASSUME NEW x, NEW v PROVE Runs(m, NewInTF(m, x, v), 0)
    <2> DEFINE c == Execute(m, m.tf # <<>>, m, NO_FRAME)
               n == [m EXCEPT !.tf = << (x :> v) @@ @[1] >>]
    <2>1. Runs(m, c, 0)
      BY DataIsSeq, RunsFacts, ExecuteSame DEF NO_FRAME, NoFault
    <2>2. SameData(m, n)
      BY SameFacts
    <2>3. NewInTF(m, x, v) = Execute(c, x \notin DOMAIN m.tf[1], n, REDEFINED)
      BY DEF NewInTF
    <2> HIDE DEF c, n
    <2>4. REDEFINED # NoFault
      BY DEF REDEFINED, NoFault
    <2> QED
      BY <2>1, <2>2, <2>3, <2>4, ExecuteSame
  <1> QED
    BY <1>1, <1>2

LEMMA ExecuteOther ==
  ASSUME NEW m, IsMachine(m), NEW n, NEW d, Runs(m, n, d), NEW p, NEW u, u # NoFault
  PROVE  Runs(m, Execute(m, p, n, u), d)
  <1>1. PICK k : k = [m EXCEPT !.fault = u]
    OBVIOUS
  <1>2. IsMachine(k) /\ k.fault = u
    BY <1>1, FaultFacts
  <1>3. \/ Execute(m, p, n, u) = m /\ m.fault # NoFault
        \/ Execute(m, p, n, u) = n
        \/ Execute(m, p, n, u) = k
    BY <1>1 DEF Execute
  <1> QED
    BY <1>2, <1>3 DEF Runs

LEMMA Faults ==
  /\ NO_FRAME # NoFault /\ REDEFINED # NoFault
  /\ UNDEFINED_VARIABLE # NoFault /\ NO_VALUE # NoFault
  BY DEF NO_FRAME, REDEFINED, UNDEFINED_VARIABLE, NO_VALUE, NoFault

LEMMA PassRuns ==
  ASSUME NEW m, IsMachine(m), NEW i
  PROVE  Runs(m, pass_param(m, i), -1)
  <1>1. PICK k : k = POPS(m)
    OBVIOUS
  <1>2. Runs(m, k, -1) /\ IsMachine(k)
    BY <1>1, PopRuns DEF Runs
  <1>3. Runs(k, NewInTF(k, Param(i), k.result), 0)
    BY <1>2, FrameRuns
  <1>4. Runs(m, NewInTF(k, Param(i), k.result), -1)
    BY <1>2, <1>3, RunsFacts, DataIsSeq DEF Runs
  <1> QED
    BY <1>1, <1>4 DEF pass_param

LEMMA TmpRuns ==
  ASSUME NEW m, IsMachine(m), NEW i
  PROVE  Runs(m, PopToTmp(m, i), -1) /\ Runs(m, WriteTmp(m, i), 0)
  <1>1. PICK k : k = POPS(m)
    OBVIOUS
  <1>2. Runs(m, k, -1) /\ IsMachine(k)
    BY <1>1, PopRuns DEF Runs
  <1>3. PICK c : c = NewInTF(k, WriteVar(i), k.result)
    OBVIOUS
  <1>4. Runs(k, c, 0) /\ IsMachine(c)
    BY <1>2, <1>3, FrameRuns DEF Runs
  <1>5. PICK n : n = [c EXCEPT !.result = m.result]
    OBVIOUS
  <1>6. SameData(c, n)
    BY <1>4, <1>5, SameFacts
  <1>7. Runs(m, n, -1)
    BY <1>2, <1>4, <1>6, DataIsSeq DEF Runs, SameData
  <1>8. n = PopToTmp(m, i)
    BY <1>1, <1>3, <1>5 DEF PopToTmp
  <1>9. PICK w, v : w = [m EXCEPT !.result = m.tf[1][WriteVar(i)], !.out = v]
                    /\ v = Append(m.out, m.tf[1][WriteVar(i)])
    OBVIOUS
  <1>10. SameData(m, w)
    BY <1>9, SameFacts
  <1>11. WriteTmp(m, i) = Execute(m, WriteVar(i) \in DOMAIN m.tf[1], w, UNDEFINED_VARIABLE)
    BY <1>9 DEF WriteTmp
  <1>12. Runs(m, WriteTmp(m, i), 0)
    BY <1>10, <1>11, Faults, ExecuteSame, RunsFacts
  <1> QED
    BY <1>7, <1>8, <1>12

LEMMA CallRuns ==
  ASSUME NEW m, IsMachine(m), NEW name, NEW i
  PROVE  /\ Runs(m, func_call(m, name), 0)
         /\ Runs(m, func_call_return_value(m, i), 1)
  <1>1. PICK k : k = Execute(m, m.tf # <<>>, m, NO_FRAME)
    OBVIOUS
  <1>2. Runs(m, k, 0) /\ IsMachine(k)
    BY <1>1, DataIsSeq, RunsFacts, ExecuteSame, Faults DEF Runs
  <1>3. PICK x : x = << [y \in Returns(name) |->
            Result(name, y[2], [j \in 1..Functions[name].params |-> k.tf[1][Param(j-1)]])]
                       @@ k.tf[1] >>
    OBVIOUS
  <1>4. PICK n : n = [k EXCEPT !.tf = x, !.result = Clobbered]
    OBVIOUS
  <1>5. SameData(k, n)
    BY <1>2, <1>4, SameFacts
  <1>6. PICK c : c = Execute(k, Params(name) \subseteq DOMAIN k.tf[1], k, UNDEFINED_VARIABLE)
    OBVIOUS
  <1>7. Runs(k, c, 0)
    BY <1>2, <1>6, DataIsSeq, RunsFacts, ExecuteSame, Faults
  <1>8. PICK p : p = (Returns(name) \intersect DOMAIN k.tf[1] = {})
    OBVIOUS
  <1>9. Body(k, name) = Execute(c, p, n, REDEFINED)
    BY <1>3, <1>4, <1>6, <1>8 DEF Body
  <1>10. Runs(k, Body(k, name), 0)
    BY <1>2, <1>5, <1>7, <1>9, ExecuteSame, Faults
  <1>11. Runs(m, Body(k, name), 0)
    BY <1>2, <1>10, DataIsSeq DEF Runs
  <1>12. Runs(m, func_call_return_value(m, i), 1)
    BY PushRuns, ExecuteOther, Faults DEF func_call_return_value
  <1> QED
    BY <1>1, <1>11, <1>12 DEF func_call

(***************************************************************************)
(* Operators.                                                              *)
(***************************************************************************)
LEMMA Operator2Runs ==
  ASSUME NEW m, IsMachine(m), NEW op
  PROVE  Runs(m, Operator2(m, op), -1)
  <1>1. PICK n : n = Len(m.data)
    OBVIOUS
  <1>2. PICK t, y : /\ t = SubSeq(m.data, 1, n - 2)
                    /\ y = Binary(op, m.data[n-1], m.data[n])
    OBVIOUS
  <1>3. PICK s : s = Append(t, y)
    OBVIOUS
  <1>4. PICK k : Differs(k, m, s, Clobbered)
    BY DEF Differs
  <1>5. Operator2(m, op) = Execute(m, n >= 2, k, NO_VALUE)
    BY <1>1, <1>2, <1>3, <1>4 DEF Operator2, Differs
  <1>6. n \in Nat
    BY <1>1, DataIsSeq
  <1>7. CASE n >= 2
    <2>1. IsSeq(t) /\ Len(t) = n - 2
      <3>1. n - 2 \in 0..n
        BY <1>6, <1>7
      <3> QED
        BY <1>1, <1>2, <3>1, DataIsSeq, PrefixFacts
    <2>2. IsSeq(s) /\ Len(s) = n - 1
      <3>1. Changed(s, t, Len(t), y)
        BY <1>3, <2>1, AppendChanges
      <3> QED
        BY <1>6, <2>1, <3>1 DEF Changed
    <2>3. IsMachine(k) /\ k.data = s /\ k.fault = m.fault
      BY <1>4, <2>2, DataResultFacts
    <2>4. Len(k.data) = Len(m.data) + (-1)
      BY <1>1, <1>6, <2>2, <2>3
    <2> QED
      BY <1>5, <2>3, <2>4, ExecuteRuns, RunsFacts, Faults
  <1>8. CASE ~ (n >= 2)
    <2>1. Execute(m, n >= 2, k, NO_VALUE) = Execute(m, FALSE, m, NO_VALUE)
      BY <1>8 DEF Execute
    <2>2. Runs(m, Execute(m, FALSE, m, NO_VALUE), -1)
      BY ExecuteRuns, RunsFacts, Faults
    <2> QED
      BY <1>5, <2>1, <2>2
  <1> QED
    BY <1>7, <1>8

LEMMA BinaryRuns ==
  ASSUME NEW m, IsMachine(m), NEW op
  PROVE  Runs(m, expression_binary(m, op), -1)
  <1>1. Runs(m, modulo(m), -1)
    <2> DEFINE names == {ReturnVar(0), Temporary("divisor"), Temporary("divident")}
    <2>1. PICK k : k = [m EXCEPT !.tf = << [x \in names |-> Clobbered] >>]
      OBVIOUS
    <2>2. SameData(m, k)
      BY <2>1, SameFacts
    <2>3. PICK c : c = Execute(m, TRUE, k, NoFault)
      OBVIOUS
    <2>4. Runs(m, c, 0) /\ IsMachine(c)
      <3>1. Runs(m, c, 0)
        BY <2>2, <2>3, ExecuteSame, RunsFacts
      <3> QED
        BY <3>1 DEF Runs
    <2>5. Runs(c, Operator2(c, "%"), -1)
      BY <2>4, Operator2Runs
    <2>6. Runs(m, Operator2(c, "%"), -1)
      BY <2>4, <2>5, DataIsSeq DEF Runs
    <2> QED
      BY <2>1, <2>3, <2>6 DEF modulo
  <1>2. Runs(m, power(m), -1)
    <2> DEFINE names == {Temporary("exp"), Temporary("base")}
    <2>1. PICK k : k = [m EXCEPT !.lf = [x \in names |-> Clobbered] @@ @]
      OBVIOUS
    <2>2. SameData(m, k)
      BY <2>1, SameFacts
    <2>3. PICK c : c = Execute(m, names \intersect DOMAIN m.lf = {}, k, REDEFINED)
      OBVIOUS
    <2>4. Runs(m, c, 0) /\ IsMachine(c)
      BY <2>2, <2>3, ExecuteSame, RunsFacts, Faults DEF Runs
    <2>5. Runs(c, Operator2(c, "^"), -1)
      BY <2>4, Operator2Runs
    <2>6. Runs(m, Operator2(c, "^"), -1)
      BY <2>4, <2>5, DataIsSeq DEF Runs
    <2> QED
      BY <2>1, <2>3, <2>6 DEF power
  <1> QED
    BY <1>1, <1>2, Operator2Runs DEF expression_binary

LEMMA UnaryRuns ==
  ASSUME NEW m, IsMachine(m), NEW op
  PROVE  Runs(m, expression_unary(m, op), 0)
  <1>1. PICK n, v : n = Len(m.data) /\ v = Unary(op, m.data[n])
    OBVIOUS
  <1>2. PICK s : s = [m.data EXCEPT ![n] = v]
    OBVIOUS
  <1>3. PICK k : Differs(k, m, s, Clobbered)
    BY DEF Differs
  <1>4. expression_unary(m, op) = Execute(m, n >= 1, k, NO_VALUE)
    BY <1>1, <1>2, <1>3 DEF expression_unary, Differs
  <1>5. n \in Nat
    BY <1>1, DataIsSeq
  <1>6. CASE n >= 1
    <2>1. IsSeq(s) /\ Len(s) = n
      <3>1. n \in Nat \ {0} /\ (n - 1) + 1 = n
        BY <1>5, <1>6
      <3> QED
        BY <1>1, <1>2, <3>1, DataIsSeq, ExceptChanges DEF Changed
    <2>2. IsMachine(k) /\ k.data = s /\ k.fault = m.fault
      BY <1>3, <2>1, DataResultFacts
    <2>3. Len(k.data) = Len(m.data) + 0
      BY <1>1, <1>5, <2>1, <2>2
    <2> QED
      BY <1>4, <2>2, <2>3, ExecuteRuns, RunsFacts, Faults
  <1>7. CASE ~ (n >= 1)
    <2>1. Execute(m, n >= 1, k, NO_VALUE) = Execute(m, FALSE, m, NO_VALUE)
      BY <1>7 DEF Execute
    <2>2. Runs(m, Execute(m, FALSE, m, NO_VALUE), 0)
      BY ExecuteRuns, RunsFacts, Faults
    <2> QED
      BY <1>4, <2>1, <2>2
  <1> QED
    BY <1>6, <1>7

(***************************************************************************)
(* Repeated instructions.                                                  *)
(***************************************************************************)
(* What is repeated, the i-th time; x is what the arguments depend on.     *)
Step(what, x, m, i) ==
  CASE what = "pop"   -> POPS(m)
    [] what = "pass"  -> pass_param(m, FromLast(x, i))
    [] what = "fill"  -> PopToTmp(m, i)
    [] what = "write" -> WriteTmp(m, x - 1 - i)
    [] what = "push"  -> func_call_return_value(m, i)

Effect(what) == CASE what \in {"pop", "pass", "fill"} -> -1
                  [] what = "write" -> 0
                  [] what = "push"  -> 1

Effects(what, n) == CASE what \in {"pop", "pass", "fill"} -> 0 - n
                      [] what = "write" -> 0
                      [] what = "push"  -> n

Whats == {"pop", "pass", "fill", "write", "push"}

LEMMA StepRuns ==
  ASSUME NEW what \in Whats, NEW x, NEW m, IsMachine(m), NEW i
  PROVE  Runs(m, Step(what, x, m, i), Effect(what))
  BY PopRuns, PassRuns, TmpRuns, CallRuns DEF Whats, Step, Effect

(* The machines that the repetition goes through, the first one being m.   *)
Course(what, x, m, n, a) ==
  a = [i \in 0..n |-> IF i = 0 THEN m ELSE Step(what, x, a[i-1], i - 1)]

LEMMA CourseExists ==
  ASSUME NEW what, NEW x, NEW m, NEW n \in Nat
  PROVE  \E a : Course(what, x, m, n, a)
  <1> DEFINE S == {k \in 0..n : \E a : Course(what, x, m, k, a)}
  <1>1. 0 \in S
    <2>1. PICK a : a = [i \in 0..0 |-> m]
      OBVIOUS
    <2>2. a = [i \in 0..0 |-> IF i = 0 THEN m ELSE Step(what, x, a[i-1], i - 1)]
      BY <2>1
    <2> QED
      BY <2>2 DEF Course
  <1>2. ASSUME NEW k \in 0..(n - 1), k \in S PROVE k + 1 \in S
    <2>1. PICK a : a = [i \in 0..k |-> IF i = 0 THEN m ELSE Step(what, x, a[i-1], i - 1)]
      BY <1>2 DEF Course
    <2>2. PICK b : b = [i \in 0..(k + 1) |-> IF i = k + 1 THEN Step(what, x, a[k], k)
                                                          ELSE a[i]]
      OBVIOUS
    <2>3. /\ k + 1 \in 0..n /\ (k + 1) - 1 = k /\ k + 1 # 0 /\ k # k + 1 /\ k \in 0..(k + 1)
          /\ \A i \in 0..(k + 1) : i = k + 1 \/ i \in 0..k
          /\ \A i \in 0..k : i # 0 => i - 1 \in 0..k
          /\ \A i \in 0..k : i \in 0..(k + 1) /\ i # k + 1
      OBVIOUS
    <2>4. \A i \in 0..k : b[i] = a[i]
      BY <2>2, <2>3
    <2>5. ASSUME NEW i \in 0..(k + 1)
          PROVE  b[i] = IF i = 0 THEN m ELSE Step(what, x, b[i-1], i - 1)
      <3>1. CASE i = k + 1
        <4>1. b[i] = Step(what, x, a[k], k)
          BY <2>2, <2>3, <3>1
        <4>2. b[k] = a[k]
          BY <2>3, <2>4
        <4>3. i # 0 /\ i - 1 = k
          BY <2>3, <3>1
        <4> QED
          BY <4>1, <4>2, <4>3
      <3>2. CASE i \in 0..k
        <4>1. b[i] = a[i] /\ (i # 0 => b[i-1] = a[i-1])
          BY <2>3, <2>4, <3>2
        <4>2. a[i] = IF i = 0 THEN m ELSE Step(what, x, a[i-1], i - 1)
          BY <2>1, <3>2
        <4> QED
          BY <4>1, <4>2
      <3> QED
        BY <2>3, <3>1, <3>2
    <2>6. b = [i \in 0..(k + 1) |-> b[i]]
      BY <2>2
    <2>7. b = [i \in 0..(k + 1) |-> IF i = 0 THEN m ELSE Step(what, x, b[i-1], i - 1)]
      BY <2>5, <2>6
    <2> QED
      BY <2>3, <2>7 DEF Course
  <1> HIDE DEF S
  <1>3. \A k \in 0..n : k \in S
    BY <1>1, <1>2, Counting
  <1>4. n \in S
    BY <1>3
  <1> QED
    BY <1>4 DEF S

LEMMA CourseRuns ==
  ASSUME NEW what \in Whats, NEW x, NEW m, IsMachine(m), NEW n \in Nat, NEW a,
         Course(what, x, m, n, a)
  PROVE  Runs(m, a[n], Effects(what, n))
  <1> DEFINE S == {k \in 0..n : Runs(m, a[k], Effects(what, k))}
  <1>1. a = [i \in 0..n |-> IF i = 0 THEN m ELSE Step(what, x, a[i-1], i - 1)]
    BY DEF Course
  <1>2. 0 \in S
    <2>1. a[0] = m
      BY <1>1
    <2>2. Effects(what, 0) = 0
      BY DEF Effects, Whats
    <2> QED
      BY <2>1, <2>2, RunsFacts
  <1>3. ASSUME NEW k \in 0..(n - 1), k \in S PROVE k + 1 \in S
    <2>1. Runs(m, a[k], Effects(what, k)) /\ k + 1 \in 0..n
      BY <1>3
    <2>2. a[k + 1] = Step(what, x, a[k], k)
      <3>1. k + 1 \in 0..n /\ k + 1 # 0 /\ (k + 1) - 1 = k
        OBVIOUS
      <3> QED
        BY <1>1, <3>1
    <2>3. Runs(a[k], a[k + 1], Effect(what))
      BY <2>1, <2>2, StepRuns DEF Runs
    <2>4. /\ Effects(what, k + 1) = Effects(what, k) + Effect(what)
          /\ Effects(what, k) \in Int /\ Effect(what) \in Int
      BY DEF Effects, Effect, Whats
    <2>5. Runs(m, a[k + 1], Effects(what, k) + Effect(what))
      BY <2>1, <2>3, <2>4, RunsFacts
    <2> QED
      BY <2>1, <2>4, <2>5
  <1> HIDE DEF S
  <1>4. \A k \in 0..n : k \in S
    BY <1>2, <1>3, Counting
  <1>5. n \in S
    BY <1>4
  <1> QED
    BY <1>5 DEF S

LEMMA ClearRuns ==
  ASSUME NEW m, IsMachine(m), NEW n \in Nat \ {0}
  PROVE  Runs(m, clear_expressions(m, n), 1 - n)
  <1>1. PICK k \in Nat : k = n - 1
    OBVIOUS
  <1> DEFINE a == CHOOSE s : s = [i \in 0..k |-> IF i = 0 THEN m ELSE POPS(s[i-1])]
  <1>2. clear_expressions(m, n) = a[k]
    BY <1>1 DEF clear_expressions, Repeat
  <1>3. \E s : s = [i \in 0..k |-> IF i = 0 THEN m ELSE POPS(s[i-1])]
    <2>1. PICK s : Course("pop", 0, m, k, s)
      BY CourseExists
    <2> QED
      BY <2>1 DEF Course, Step
  <1>4. a = [i \in 0..k |-> IF i = 0 THEN m ELSE POPS(a[i-1])]
    BY <1>3
  <1> HIDE DEF a
  <1>5. Course("pop", 0, m, k, a)
    BY <1>4 DEF Course, Step
  <1>6. Runs(m, a[k], Effects("pop", k))
    BY <1>5, CourseRuns DEF Whats
  <1>7. Effects("pop", k) = 1 - n
    BY <1>1 DEF Effects
  <1> QED
    BY <1>2, <1>6, <1>7

LEMMA RunsThrough ==
  ASSUME NEW m, IsMachine(m), NEW k, NEW n, NEW d \in Int, NEW e \in Int, NEW x,
         Runs(m, k, d), Runs(k, n, e), x = d + e
  PROVE  Runs(m, n, x)
  BY RunsFacts

LEMMA ReturnedRuns ==
  ASSUME NEW m, IsMachine(m), NEW n \in Nat
  PROVE  Runs(m, func_call_return_values(m, n), n)
  <1> DEFINE a == CHOOSE s : s = [i \in 0..n |-> IF i = 0 THEN m
                                    ELSE func_call_return_value(s[i-1], i - 1)]
  <1>1. func_call_return_values(m, n) = a[n]
    BY DEF func_call_return_values, Repeat
  <1>2. \E s : s = [i \in 0..n |-> IF i = 0 THEN m
                                   ELSE func_call_return_value(s[i-1], i - 1)]
    <2>1. PICK s : Course("push", 0, m, n, s)
      BY CourseExists
    <2> QED
      BY <2>1 DEF Course, Step
  <1>3. a = [i \in 0..n |-> IF i = 0 THEN m ELSE func_call_return_value(a[i-1], i - 1)]
    BY <1>2
  <1> HIDE DEF a
  <1>4. Course("push", 0, m, n, a)
    BY <1>3 DEF Course, Step
  <1>5. Runs(m, a[n], Effects("push", n))
    BY <1>4, CourseRuns DEF Whats
  <1>6. Effects("push", n) = n
    BY DEF Effects
  <1> QED
    BY <1>1, <1>5, <1>6

LEMMA WriteRuns ==
  ASSUME NEW m, IsMachine(m), NEW n \in Nat
  PROVE  Runs(m, multiple_write(m, n), 0 - n)
  <1>1. PICK c : c = CREATEFRAME(m)
    OBVIOUS
  <1>2. Runs(m, c, 0) /\ IsMachine(c)
    BY <1>1, FrameRuns DEF Runs
  <1> DEFINE a == CHOOSE s : s = [i \in 0..n |-> IF i = 0 THEN c ELSE PopToTmp(s[i-1], i - 1)]
  <1>3. \E s : s = [i \in 0..n |-> IF i = 0 THEN c ELSE PopToTmp(s[i-1], i - 1)]
    <2>1. PICK s : Course("fill", 0, c, n, s)
      BY CourseExists
    <2> QED
      BY <2>1 DEF Course, Step
  <1>4. a = [i \in 0..n |-> IF i = 0 THEN c ELSE PopToTmp(a[i-1], i - 1)]
    BY <1>3
  <1>5. PICK k : k = a[n]
    OBVIOUS
  <1> DEFINE b == CHOOSE s : s = [i \in 0..n |-> IF i = 0 THEN k
                                    ELSE WriteTmp(s[i-1], n - 1 - (i - 1))]
  <1>6. multiple_write(m, n) = b[n]
    BY <1>1, <1>5 DEF multiple_write, Repeat
  <1>7. \E s : s = [i \in 0..n |-> IF i = 0 THEN k ELSE WriteTmp(s[i-1], n - 1 - (i - 1))]
    <2>1. PICK s : Course("write", n, k, n, s)
      BY CourseExists
    <2> QED
      BY <2>1 DEF Course, Step
  <1>8. b = [i \in 0..n |-> IF i = 0 THEN k ELSE WriteTmp(b[i-1], n - 1 - (i - 1))]
    BY <1>7
  <1> HIDE DEF a, b
  <1>9. Course("fill", 0, c, n, a) /\ Course("write", n, k, n, b)
    BY <1>4, <1>8 DEF Course, Step
  <1>10. Effects("fill", n) = 0 - n /\ Effects("write", n) = 0
    BY DEF Effects
  <1>11. Runs(c, k, 0 - n)
    BY <1>2, <1>5, <1>9, <1>10, CourseRuns DEF Whats
  <1>12. Runs(k, b[n], 0)
    BY <1>9, <1>10, <1>11, CourseRuns DEF Whats, Runs
  <1>13. 0 - n \in Int /\ 0 - n = 0 + (0 - n) /\ 0 - n = (0 - n) + 0
    OBVIOUS
  <1>14. Runs(m, k, 0 - n)
    BY <1>2, <1>11, <1>13, RunsThrough
  <1>15. Runs(m, b[n], 0 - n)
    BY <1>12, <1>13, <1>14, RunsThrough
  <1> QED
    BY <1>6, <1>15

(***************************************************************************)
(* The code of the parser's steps.                                         *)
(***************************************************************************)
LEMMA PassLastRuns ==
  ASSUME NEW m, IsMachine(m), NEW n \in Nat, n = Top.last
  PROVE  Runs(m, PassLast(m), 0 - n)
  <1>1. CASE Top.fun = Write
    BY <1>1, WriteRuns DEF PassLast
  <1>2. CASE Top.fun # Write
    <2>1. PICK x : x = Functions[Top.fun].params
      OBVIOUS
    <2> DEFINE a == CHOOSE s : s = [i \in 0..n |-> IF i = 0 THEN m
                                      ELSE pass_param(s[i-1], FromLast(x, i - 1))]
    <2>2. PassLast(m) = a[n]
      BY <1>2, <2>1 DEF PassLast, Repeat
    <2>3. \E s : s = [i \in 0..n |-> IF i = 0 THEN m
                                     ELSE pass_param(s[i-1], FromLast(x, i - 1))]
      <3>1. PICK s : Course("pass", x, m, n, s)
        BY CourseExists
      <3> QED
        BY <3>1 DEF Course, Step
    <2>4. a = [i \in 0..n |-> IF i = 0 THEN m ELSE pass_param(a[i-1], FromLast(x, i - 1))]
      BY <2>3
    <2> HIDE DEF a
    <2>5. Course("pass", x, m, n, a)
      BY <2>4 DEF Course, Step
    <2>6. Runs(m, a[n], Effects("pass", n))
      BY <2>5, CourseRuns DEF Whats
    <2>7. Effects("pass", n) = 0 - n
      BY DEF Effects
    <2> QED
      BY <2>2, <2>6, <2>7
  <1> QED
    BY <1>1, <1>2

LEMMA PassFirstRuns ==
  ASSUME NEW m, IsMachine(m), NEW n \in Nat \ {0}, n = Top.last
  PROVE  Runs(m, PassFirst(m), 0 - n)
  <1>1. CASE Top.fun = Write
    BY <1>1, WriteRuns DEF PassFirst
  <1>2. CASE Top.fun # Write
    <2>1. PICK c : c = clear_expressions(m, n)
      OBVIOUS
    <2>2. Runs(m, c, 1 - n) /\ IsMachine(c)
      BY <2>1, ClearRuns DEF Runs
    <2>3. Runs(c, pass_param(c, Top.cnt), -1)
      BY <2>2, PassRuns
    <2>5. 1 - n \in Int /\ -1 \in Int /\ 0 - n = (1 - n) + (-1)
      OBVIOUS
    <2>4. Runs(m, pass_param(c, Top.cnt), 0 - n)
      BY <2>2, <2>3, <2>5, RunsThrough
    <2> QED
      BY <1>2, <2>1, <2>4 DEF PassFirst
  <1> QED
    BY <1>1, <1>2

(* Of an expression without a value, which only a call is, nil is pushed.  *)
LEMMA NilRuns ==
  ASSUME NEW m, IsMachine(m), NEW n \in Nat, HasExpr => n = Upper.n,
         HasExpr /\ n = 0 => Top.parsed = "function"
  PROVE  HasExpr => Runs(m, WithNil(m), NumValues(n) - n) /\ NumValues(n) \in Nat \ {0}
  <1> SUFFICES ASSUME HasExpr
               PROVE  Runs(m, WithNil(m), NumValues(n) - n) /\ NumValues(n) \in Nat \ {0}
    OBVIOUS
  <1>1. CASE n = 0
    <2>1. WithNil(m) = PUSHS(m, Nil) /\ NumValues(n) = 1
      BY <1>1 DEF WithNil, NumValues
    <2> QED
      BY <1>1, <2>1, PushRuns
  <1>2. CASE n # 0
    <2>1. WithNil(m) = m /\ NumValues(n) = n /\ n - n = 0
      BY <1>2 DEF WithNil, NumValues
    <2> QED
      BY <1>2, <2>1, RunsFacts
  <1> QED
    BY <1>1, <1>2

LEMMA OperandRuns ==
  ASSUME NEW m, IsMachine(m), NEW n \in Nat, HasExpr => n = Upper.n,
         HasExpr /\ n = 0 => Top.parsed = "function"
  PROVE  Runs(m, AsOperand(m), IF HasExpr THEN 1 - n ELSE 0)
  <1>1. CASE HasExpr
    <2>1. PICK w, k : w = WithNil(m) /\ k = NumValues(n)
      OBVIOUS
    <2>2. Runs(m, w, k - n) /\ IsMachine(w) /\ k \in Nat \ {0}
      BY <1>1, <2>1, NilRuns DEF Runs
    <2>3. Runs(w, clear_expressions(w, k), 1 - k)
      BY <2>2, ClearRuns
    <2>5. k - n \in Int /\ 1 - k \in Int /\ 1 - n = (k - n) + (1 - k)
      BY <2>2
    <2>4. Runs(m, clear_expressions(w, k), 1 - n)
      BY <2>2, <2>3, <2>5, RunsThrough
    <2> QED
      BY <1>1, <2>1, <2>4 DEF AsOperand
  <1>2. CASE ~ HasExpr
    BY <1>2, RunsFacts DEF AsOperand
  <1> QED
    BY <1>1, <1>2

(***************************************************************************)
(* Precedence stacks.                                                      *)
(***************************************************************************)
Known(op) == op = "id" \/ IsBinaryOp(op) \/ IsUnaryOp(op)

IsItem(x) ==
  /\ x.n \in Nat /\ (x.type # "EXPR" => x.n = 0)
  /\ x.type \in {"DOLLAR", "LT", "EXPR", "TOKEN"}
  /\ IF x.type = "TOKEN" THEN Known(x.op) ELSE x.op = "$"

(* y can be above x.                                                       *)
CanFollow(x, y) ==
  /\ y.type \in {"LT", "EXPR", "TOKEN"}
  /\ x.type = "EXPR" => x.n = 1
  /\ y.type = "LT" => x.type \in {"DOLLAR", "TOKEN"}
  /\ y.type = "EXPR" => x.type # "EXPR"

ItemsOK(s) ==
  /\ IsSeq(s) /\ Len(s) \in Nat \ {0}
  /\ s[1].type = "DOLLAR"
  /\ \A i \in 1..Len(s) : IsItem(s[i])
  /\ \A i \in 2..Len(s) : CanFollow(s[i-1], s[i])

(* What is on top, without an expression there, is "$" or a token.         *)
Rested(s) ==
  IF s[Len(s)].type = "EXPR"
  THEN Len(s) > 1 /\ s[Len(s) - 1].type \in {"DOLLAR", "TOKEN"}
  ELSE s[Len(s)].type \in {"DOLLAR", "TOKEN"}

(* The values of the first k items.                                        *)
Values(s, k) == SumOf([i \in 1..Len(s) |-> s[i].n], k)

LEMMA ValuesFacts ==
  ASSUME NEW s, ItemsOK(s)
  PROVE  /\ ItemValues(s) = Values(s, Len(s)) /\ Values(s, 0) = 0
         /\ \A k \in 0..Len(s) : Values(s, k) \in Nat
         /\ \A k \in 1..Len(s) : Values(s, k) = Values(s, k - 1) + s[k].n
  <1>1. PICK h : h = [i \in 1..Len(s) |-> s[i].n]
    OBVIOUS
  <1>2. \A i \in 1..Len(s) : h[i] \in Nat /\ h[i] = s[i].n
    BY <1>1 DEF ItemsOK, IsItem
  <1>3. Len(s) \in Nat
    BY DEF ItemsOK
  <1>4. \A k : Values(s, k) = SumOf(h, k)
    BY <1>1 DEF Values
  <1>5. ASSUME NEW k \in 0..Len(s)
        PROVE  Values(s, k) \in Nat /\ (k = 0 => Values(s, k) = 0)
    BY <1>2, <1>3, <1>4, SumFacts
  <1>6. ASSUME NEW k \in 1..Len(s)
        PROVE  Values(s, k) = Values(s, k - 1) + s[k].n
    <2>1. PICK j \in Nat : j = k - 1 /\ j + 1 = k /\ \A i \in 1..(j + 1) : i \in 1..Len(s)
      BY <1>3
    <2>2. SumOf(h, j + 1) = SumOf(h, j) + h[j + 1]
      BY <1>2, <2>1, SumNext
    <2> QED
      BY <1>2, <1>4, <2>1, <2>2
  <1>7. ItemValues(s) = Values(s, Len(s))
    BY DEF ItemValues, Values
  <1> QED
    BY <1>3, <1>5, <1>6, <1>7

LEMMA ValuesSame ==
  ASSUME NEW s, ItemsOK(s), NEW t, NEW k \in 0..Len(s), Len(t) \in Nat, k <= Len(t),
         \A i \in 1..k : t[i] = s[i]
  PROVE  Values(t, k) = Values(s, k)
  <1>1. PICK u, h : u = [i \in 1..Len(t) |-> t[i].n] /\ h = [i \in 1..Len(s) |-> s[i].n]
    OBVIOUS
  <1>2. k \in Nat /\ \A i \in 1..k : i \in 1..Len(s) /\ i \in 1..Len(t)
    BY DEF ItemsOK
  <1>3. \A i \in 1..k : h[i] \in Nat /\ u[i] = h[i]
    BY <1>1, <1>2 DEF ItemsOK, IsItem
  <1>4. SumOf(u, k) = SumOf(h, k)
    BY <1>2, <1>3, SumSame
  <1> QED
    BY <1>1, <1>4 DEF Values

LEMMA ItemsAppend ==
  ASSUME NEW s, ItemsOK(s), NEW x, IsItem(x), CanFollow(s[Len(s)], x),
         NEW t, Changed(t, s, Len(s), x)
  PROVE  /\ ItemsOK(t) /\ ItemValues(t) = ItemValues(s) + x.n
         /\ Len(t) = Len(s) + 1 /\ t[Len(t)] = x /\ t[Len(t) - 1] = s[Len(s)]
  <1>0. PICK n \in Nat \ {0} : n = Len(s)
    BY DEF ItemsOK
  <1>1. /\ IsSeq(t) /\ Len(t) = n + 1 /\ t[n + 1] = x
        /\ \A i \in 1..n : t[i] = s[i]
    BY <1>0 DEF Changed
  <1>2. \A i \in 1..(n + 1) : i = n + 1 \/ i \in 1..n
    BY <1>0
  <1>3. \A i \in 2..(n + 1) : (i = n + 1 /\ i - 1 = n /\ n \in 1..n) \/
                              (i \in 2..n /\ i \in 1..n /\ i - 1 \in 1..n)
    BY <1>0
  <1>4. ItemsOK(t)
    <2>1. \A i \in 1..(n + 1) : IsItem(t[i])
      BY <1>0, <1>1, <1>2 DEF ItemsOK
    <2>2. \A i \in 2..(n + 1) : CanFollow(t[i-1], t[i])
      BY <1>0, <1>1, <1>3 DEF ItemsOK
    <2>3. t[1].type = "DOLLAR"
      BY <1>0, <1>1 DEF ItemsOK
    <2> QED
      BY <1>1, <2>1, <2>2, <2>3 DEF ItemsOK
  <1>5. ItemValues(t) = Values(t, n) + x.n
    <2>1. n + 1 \in 1..Len(t) /\ (n + 1) - 1 = n
      BY <1>1
    <2> QED
      BY <1>1, <1>4, <2>1, ValuesFacts
  <1>6. Values(t, n) = Values(s, n)
    BY <1>0, <1>1, ValuesSame
  <1>7. ItemValues(s) = Values(s, n)
    BY <1>0, ValuesFacts
  <1> QED
    BY <1>0, <1>1, <1>4, <1>5, <1>6, <1>7

LEMMA ItemsPrefix ==
  ASSUME NEW s, ItemsOK(s), NEW k \in 1..Len(s), NEW t, t = SubSeq(s, 1, k)
  PROVE  /\ ItemsOK(t) /\ Len(t) = k /\ ItemValues(t) = Values(s, k)
         /\ \A i \in 1..k : t[i] = s[i]
  <1>0. Len(s) \in Nat /\ k \in 0..Len(s) /\ k \in 1..k /\ 1 \in 1..k
    BY DEF ItemsOK
  <1>1. /\ IsSeq(t) /\ Len(t) = k
        /\ \A i \in 1..k : t[i] = s[i]
    BY <1>0, PrefixFacts DEF ItemsOK
  <1>2. ItemsOK(t)
    <2>1. /\ \A i \in 1..k : i \in 1..Len(s)
          /\ \A i \in 2..k : i - 1 \in 1..k /\ i \in 1..k /\ i \in 2..Len(s)
      BY <1>0
    <2>2. \A i \in 1..k : IsItem(t[i])
      BY <1>1, <2>1 DEF ItemsOK
    <2>3. \A i \in 2..k : CanFollow(t[i-1], t[i])
      BY <1>1, <2>1 DEF ItemsOK
    <2>4. t[1].type = "DOLLAR"
      BY <1>0, <1>1 DEF ItemsOK
    <2> QED
      BY <1>0, <1>1, <2>2, <2>3, <2>4 DEF ItemsOK
  <1>3. ItemValues(t) = Values(t, k)
    BY <1>1, <1>2, ValuesFacts
  <1>4. Values(t, k) = Values(s, k)
    <2>1. Len(t) \in Nat /\ k <= Len(t)
      BY <1>0, <1>1
    <2> QED
      BY <1>0, <1>1, <2>1, ValuesSame
  <1> QED
    BY <1>1, <1>2, <1>3, <1>4

(* What the steps of the parser put on the stack.                          *)
LEMMA ItemFacts ==
  /\ IsItem(Dollar) /\ Dollar.type = "DOLLAR" /\ Dollar.n = 0
  /\ IsItem(Less) /\ Less.type = "LT" /\ Less.n = 0
  /\ \A n \in Nat : IsItem(Expr(n)) /\ Expr(n).type = "EXPR" /\ Expr(n).n = n
  /\ \A op, k : /\ Token(op, k).type = "TOKEN" /\ Token(op, k).n = 0
                /\ Known(op) => IsItem(Token(op, k))
  BY DEF IsItem, Dollar, Less, Expr, Token, Item

LEMMA NewItems ==
  ASSUME NEW s, s = <<Dollar>>
  PROVE  ItemsOK(s) /\ Rested(s) /\ ItemValues(s) = 0 /\ s[Len(s)].type # "EXPR"
  <1>1. Len(s) = 1 /\ s[1] = Dollar /\ s \in Seq({Dollar})
    OBVIOUS
  <1>2. ItemsOK(s)
    <2>1. IsSeq(s)
      BY <1>1 DEF IsSeq
    <2>2. IsItem(s[1]) /\ s[1].type = "DOLLAR" /\ 1..Len(s) = {1} /\ 2..Len(s) = {}
      BY <1>1, ItemFacts
    <2> QED
      BY <1>1, <2>1, <2>2 DEF ItemsOK
  <1>3. ItemValues(s) = Values(s, 0) + s[1].n /\ Values(s, 0) = 0
    BY <1>1, <1>2, ValuesFacts
  <1> QED
    BY <1>1, <1>2, <1>3, ItemFacts DEF Rested

LEMMA TokenOnTop ==
  ASSUME NEW s, ItemsOK(s), s[Len(s)].type = "EXPR" => s[Len(s)].n = 1,
         NEW x, IsItem(x), x.type = "TOKEN", NEW t, t = s \o <<x>>
  PROVE  /\ ItemsOK(t) /\ Rested(t) /\ t[Len(t)].type # "EXPR"
         /\ ItemValues(t) = ItemValues(s)
  <1>1. Changed(t, s, Len(s), x)
    BY AppendChanges DEF ItemsOK
  <1>2. CanFollow(s[Len(s)], x) /\ x.n = 0
    BY DEF CanFollow, IsItem
  <1>3. ItemsOK(t) /\ ItemValues(t) = ItemValues(s) + x.n /\ t[Len(t)] = x
    BY <1>1, <1>2, ItemsAppend
  <1>4. ItemValues(s) \in Nat
    BY ValuesFacts DEF ItemsOK
  <1> QED
    BY <1>2, <1>3, <1>4 DEF Rested

(* The stack after a shift, made of what was below the operand.            *)
LEMMA ShiftedItems ==
  ASSUME NEW s, ItemsOK(s), s[Len(s)].type \in {"DOLLAR", "TOKEN"},
         NEW less \in {<<>>, <<Less>>}, NEW operand \in {<<>>, <<Expr(1)>>},
         NEW x, IsItem(x), x.type = "TOKEN", NEW t, t = s \o less \o operand \o <<x>>
  PROVE  /\ ItemsOK(t) /\ Rested(t) /\ t[Len(t)].type # "EXPR"
         /\ ItemValues(t) = ItemValues(s) + (IF operand = <<>> THEN 0 ELSE 1)
  <1>0. ItemValues(s) \in Nat
    BY ValuesFacts DEF ItemsOK
  <1>1. PICK a : a = s \o less
    OBVIOUS
  <1>2. ItemsOK(a) /\ a[Len(a)].type # "EXPR" /\ ItemValues(a) = ItemValues(s)
    <2>1. CASE less = <<>>
      <3>1. a = s
        BY <1>1, <2>1, AppendChanges DEF ItemsOK
      <3> QED
        BY <3>1
    <2>2. CASE less = <<Less>>
      <3>1. Changed(a, s, Len(s), Less)
        BY <1>1, <2>2, AppendChanges DEF ItemsOK
      <3>2. CanFollow(s[Len(s)], Less)
        BY ItemFacts DEF CanFollow
      <3>3. ItemsOK(a) /\ ItemValues(a) = ItemValues(s) + Less.n /\ a[Len(a)] = Less
        BY <3>1, <3>2, ItemFacts, ItemsAppend
      <3> QED
        BY <1>0, <3>3, ItemFacts
    <2> QED
      BY <2>1, <2>2
  <1>3. PICK b : b = a \o operand
    OBVIOUS
  <1>4. /\ ItemsOK(b) /\ (b[Len(b)].type = "EXPR" => b[Len(b)].n = 1)
        /\ ItemValues(b) = ItemValues(a) + (IF operand = <<>> THEN 0 ELSE 1)
    <2>1. CASE operand = <<>>
      <3>1. b = a
        BY <1>2, <1>3, <2>1, AppendChanges DEF ItemsOK
      <3> QED
        BY <1>0, <1>2, <2>1, <3>1
    <2>2. CASE operand = <<Expr(1)>>
      <3>1. Changed(b, a, Len(a), Expr(1))
        BY <1>2, <1>3, <2>2, AppendChanges DEF ItemsOK
      <3>2. CanFollow(a[Len(a)], Expr(1))
        BY <1>2, ItemFacts DEF CanFollow
      <3>3. ItemsOK(b) /\ ItemValues(b) = ItemValues(a) + Expr(1).n /\ b[Len(b)] = Expr(1)
        BY <1>2, <3>1, <3>2, ItemFacts, ItemsAppend
      <3> QED
        BY <2>2, <3>3, ItemFacts
    <2> QED
      BY <2>1, <2>2
  <1>7. t = b \o <<x>>
    BY <1>1, <1>3
  <1>8. ItemsOK(t) /\ Rested(t) /\ t[Len(t)].type # "EXPR" /\ ItemValues(t) = ItemValues(b)
    BY <1>4, <1>7, TokenOnTop
  <1> QED
    BY <1>2, <1>4, <1>8

(***************************************************************************)
(* Contexts.                                                               *)
(***************************************************************************)
ParseRecord(items, hard, parsed) ==
  [kind |-> "parse", items |-> items, hard |-> hard, parsed |-> parsed]

OtherRecord(kind, fun, ids, cnt, last) ==
  [kind |-> kind, fun |-> fun, ids |-> ids, cnt |-> cnt, last |-> last]

TopItem(c) == c.items[Len(c.items)]

(* Of the parse's own expressions only a call's may have no value, or more *)
(* than one, and only until the next step.                                 *)
ParseOK(c) ==
  /\ c = ParseRecord(c.items, c.hard, c.parsed)
  /\ c.hard \in BOOLEAN /\ c.parsed \in {"none", "parents", "function"}
  /\ ItemsOK(c.items) /\ Rested(c.items)
  /\ c.hard \/ c.parsed # "none" => TopItem(c).type = "EXPR"
  /\ c.parsed # "none" => ~ c.hard
  /\ TopItem(c).type = "EXPR" =>
       /\ c.parsed = "none" => TopItem(c).n = 1
       /\ c.parsed = "parents" => TopItem(c).n # 0

OtherOK(c) ==
  /\ c = OtherRecord(c.kind, c.fun, c.ids, c.cnt, c.last)
  /\ c.kind \in {"call", "default", "return", "function", "global", "assign"}
  /\ c.cnt \in Nat /\ c.last \in Nat
  /\ c.kind \in {"function", "global"} => c.last = 0
  /\ c.kind = "call" => c.fun \in DOMAIN Functions

ContextOK(c) == ParseOK(c) \/ OtherOK(c)

(* c can be below d.                                                       *)
Waits(c, d) ==
  IF c.kind = "parse" THEN c.parsed = "none" /\ TopItem(c).type # "EXPR"
  ELSE d.kind = "parse" => c.last = 0 /\ c.kind \notin {"function", "global"}

ContextsOK(cs) ==
  /\ IsSeq(cs) /\ Len(cs) \in Nat \ {0}
  /\ cs[1].kind \notin {"parse", "call"}
  /\ \A i \in 1..Len(cs) : ContextOK(cs[i])
  /\ \A i \in 2..Len(cs) : Waits(cs[i-1], cs[i])

LEMMA ContextFacts ==
  ASSUME NEW c
  PROVE  /\ ParseOK(c) => /\ c.kind = "parse" /\ Held(c) = ItemValues(c.items)
                          /\ Held(c) \in Nat
         /\ OtherOK(c) => /\ c.kind # "parse" /\ Held(c) \in Nat
                          /\ Held(c) = IF c.kind = "assign" THEN c.cnt + c.last ELSE c.last
  <1>1. ASSUME ParseOK(c)
        PROVE  c.kind = "parse" /\ Held(c) = ItemValues(c.items) /\ Held(c) \in Nat
    <2>1. PICK i, h, p : c = ParseRecord(i, h, p)
      BY <1>1 DEF ParseOK
    <2>2. c.kind = "parse"
      BY <2>1 DEF ParseRecord
    <2>3. ItemsOK(c.items)
      BY <1>1 DEF ParseOK
    <2>4. ItemValues(c.items) \in Nat
      BY <2>3, ValuesFacts DEF ItemsOK
    <2> QED
      BY <2>2, <2>4 DEF Held
  <1>2. ASSUME OtherOK(c)
        PROVE  /\ c.kind # "parse" /\ Held(c) \in Nat
               /\ Held(c) = IF c.kind = "assign" THEN c.cnt + c.last ELSE c.last
    <2>1. c.kind # "parse" /\ c.cnt \in Nat /\ c.last \in Nat
      BY <1>2 DEF OtherOK
    <2>2. Held(c) = IF c.kind = "assign" THEN c.cnt + c.last ELSE c.last
      BY <2>1 DEF Held
    <2> QED
      BY <2>1, <2>2
  <1> QED
    BY <1>1, <1>2

LEMMA RecordFacts ==
  ASSUME NEW c
  PROVE  /\ \A i, h, p : c = ParseRecord(i, h, p) =>
                c.kind = "parse" /\ c.items = i /\ c.hard = h /\ c.parsed = p
         /\ \A k, u, i, n, l : c = OtherRecord(k, u, i, n, l) =>
                c.kind = k /\ c.fun = u /\ c.ids = i /\ c.cnt = n /\ c.last = l
  BY DEF ParseRecord, OtherRecord

LEMMA ParseUpdate ==
  ASSUME NEW i, NEW h, NEW p, NEW c,
         c = [kind |-> "parse", items |-> i, hard |-> h, parsed |-> p],
         NEW x, NEW y, NEW z, NEW n, n = [c EXCEPT !.items = x, !.hard = y, !.parsed = z]
  PROVE  n = [kind |-> "parse", items |-> x, hard |-> y, parsed |-> z]
  OBVIOUS

LEMMA PushedUpdate ==
  ASSUME NEW i, NEW h, NEW p, NEW c,
         c = [kind |-> "parse", items |-> i, hard |-> h, parsed |-> p],
         NEW x, NEW z, NEW n, n = [c EXCEPT !.items = x, !.parsed = z]
  PROVE  n = [kind |-> "parse", items |-> x, hard |-> h, parsed |-> z]
  OBVIOUS

LEMMA LastUpdate ==
  ASSUME NEW k, NEW u, NEW i, NEW n, NEW l, NEW c,
         c = [kind |-> k, fun |-> u, ids |-> i, cnt |-> n, last |-> l],
         NEW x, NEW d, d = [c EXCEPT !.last = x]
  PROVE  d = [kind |-> k, fun |-> u, ids |-> i, cnt |-> n, last |-> x]
  OBVIOUS

LEMMA CountUpdate ==
  ASSUME NEW k, NEW u, NEW i, NEW n, NEW l, NEW c,
         c = [kind |-> k, fun |-> u, ids |-> i, cnt |-> n, last |-> l],
         NEW x, NEW y, NEW d, d = [c EXCEPT !.cnt = x, !.last = y]
  PROVE  d = [kind |-> k, fun |-> u, ids |-> i, cnt |-> x, last |-> y]
  OBVIOUS

LEMMA IdsUpdate ==
  ASSUME NEW k, NEW u, NEW i, NEW n, NEW l, NEW c,
         c = [kind |-> k, fun |-> u, ids |-> i, cnt |-> n, last |-> l],
         NEW x, NEW d, d = [c EXCEPT !.ids = x]
  PROVE  d = [kind |-> k, fun |-> u, ids |-> x, cnt |-> n, last |-> l]
  OBVIOUS

(***************************************************************************)
(* The values of the first k contexts.                                     *)
(***************************************************************************)
HeldBy(cs, k) == SumOf([i \in 1..Len(cs) |-> Held(cs[i])], k)

LEMMA HeldFacts ==
  ASSUME NEW cs, Len(cs) \in Nat, \A i \in 1..Len(cs) : ContextOK(cs[i])
  PROVE  /\ AllHeld(cs) = HeldBy(cs, Len(cs)) /\ HeldBy(cs, 0) = 0
         /\ \A k \in 0..Len(cs) : HeldBy(cs, k) \in Nat
         /\ \A k \in 1..Len(cs) : HeldBy(cs, k) = HeldBy(cs, k - 1) + Held(cs[k])
  <1>1. PICK h : h = [i \in 1..Len(cs) |-> Held(cs[i])]
    OBVIOUS
  <1>2. \A i \in 1..Len(cs) : h[i] \in Nat /\ h[i] = Held(cs[i])
    BY <1>1, ContextFacts DEF ContextOK
  <1>4. \A k : HeldBy(cs, k) = SumOf(h, k)
    BY <1>1 DEF HeldBy
  <1>5. ASSUME NEW k \in 0..Len(cs)
        PROVE  HeldBy(cs, k) \in Nat /\ (k = 0 => HeldBy(cs, k) = 0)
    BY <1>2, <1>4, SumFacts
  <1>6. ASSUME NEW k \in 1..Len(cs)
        PROVE  HeldBy(cs, k) = HeldBy(cs, k - 1) + Held(cs[k])
    <2>1. PICK j \in Nat : j = k - 1 /\ j + 1 = k /\ \A i \in 1..(j + 1) : i \in 1..Len(cs)
      OBVIOUS
    <2>2. SumOf(h, j + 1) = SumOf(h, j) + h[j + 1]
      BY <1>2, <2>1, SumNext
    <2> QED
      BY <1>2, <1>4, <2>1, <2>2
  <1>7. AllHeld(cs) = HeldBy(cs, Len(cs))
    BY DEF AllHeld, HeldBy
  <1> QED
    BY <1>5, <1>6, <1>7

LEMMA HeldSame ==
  ASSUME NEW cs, Len(cs) \in Nat, \A i \in 1..Len(cs) : ContextOK(cs[i]),
         NEW t, NEW k \in 0..Len(cs), Len(t) \in Nat, k <= Len(t),
         \A i \in 1..k : t[i] = cs[i]
  PROVE  HeldBy(t, k) = HeldBy(cs, k)
  <1>1. PICK u, h : /\ u = [i \in 1..Len(t) |-> Held(t[i])]
                     /\ h = [i \in 1..Len(cs) |-> Held(cs[i])]
    OBVIOUS
  <1>2. k \in Nat /\ \A i \in 1..k : i \in 1..Len(cs) /\ i \in 1..Len(t)
    OBVIOUS
  <1>3. \A i \in 1..k : h[i] \in Nat /\ u[i] = h[i]
    BY <1>1, <1>2, ContextFacts DEF ContextOK
  <1>4. SumOf(u, k) = SumOf(h, k)
    BY <1>2, <1>3, SumSame
  <1> QED
    BY <1>1, <1>4 DEF HeldBy

LEMMA ContextsChange ==
  ASSUME NEW cs, ContextsOK(cs), NEW k \in 0..Len(cs), NEW c, ContextOK(c),
         IF k = 0 THEN c.kind \notin {"parse", "call"} ELSE Waits(cs[k], c),
         NEW t, Changed(t, cs, k, c)
  PROVE  /\ ContextsOK(t) /\ AllHeld(t) = HeldBy(cs, k) + Held(c)
         /\ Len(t) = k + 1 /\ t[Len(t)] = c
  <1>0. Len(cs) \in Nat /\ k \in Nat /\ k <= k + 1
    BY DEF ContextsOK
  <1>1. /\ IsSeq(t) /\ Len(t) = k + 1 /\ t[k + 1] = c
        /\ \A i \in 1..k : t[i] = cs[i]
    BY DEF Changed
  <1>2. /\ \A i \in 1..(k + 1) : i = k + 1 \/ (i \in 1..k /\ i \in 1..Len(cs))
        /\ \A i \in 2..(k + 1) : (i = k + 1 /\ i - 1 = k /\ k \in 1..k /\ k # 0) \/
                              (i \in 1..k /\ i \in 2..Len(cs) /\ i - 1 \in 1..k)
        /\ k # 0 => 1 \in 1..k
    BY <1>0
  <1>3. \A i \in 1..(k + 1) : ContextOK(t[i])
    BY <1>1, <1>2 DEF ContextsOK
  <1>4. \A i \in 2..(k + 1) : Waits(t[i-1], t[i])
    BY <1>1, <1>2 DEF ContextsOK
  <1>5. t[1].kind \notin {"parse", "call"}
    BY <1>1, <1>2 DEF ContextsOK
  <1>6. ContextsOK(t)
    BY <1>0, <1>1, <1>3, <1>4, <1>5 DEF ContextsOK
  <1>7. AllHeld(t) = HeldBy(t, k) + Held(c)
    <2>1. k + 1 \in Nat /\ k + 1 \in 1..(k + 1) /\ (k + 1) - 1 = k
      BY <1>0
    <2>2. AllHeld(t) = HeldBy(t, k + 1)
      BY <1>1, <1>3, <2>1, HeldFacts
    <2>3. HeldBy(t, k + 1) = HeldBy(t, (k + 1) - 1) + Held(t[k + 1])
      BY <1>1, <1>3, <2>1, HeldFacts
    <2> QED
      BY <1>1, <2>1, <2>2, <2>3
  <1>8. HeldBy(t, k) = HeldBy(cs, k)
    <2>1. Len(t) \in Nat /\ k <= Len(t) /\ \A i \in 1..Len(cs) : ContextOK(cs[i])
      BY <1>0, <1>1 DEF ContextsOK
    <2> QED
      BY <1>0, <1>1, <2>1, HeldSame
  <1> QED
    BY <1>1, <1>6, <1>7, <1>8

(***************************************************************************)
(* The invariant, of contexts, machine and text.                           *)
(***************************************************************************)
(* What is known of the current token: a reduction under way is forced by  *)
(* a name, what has just been parsed ended with a parenthesis, and after a *)
(* reduction neither a parenthesis nor a name is read.                     *)
TokOK(c, t) ==
  c.kind = "parse" =>
    /\ c.hard => t[Len(t)] \in Names
    /\ c.parsed # "none" => Len(t) > 1 /\ t[Len(t) - 1] = ")"
    /\ ~ c.hard /\ c.parsed = "none" /\ TopItem(c).type = "EXPR" =>
         t[Len(t)] # "(" /\ t[Len(t)] \notin Names

IsText(t) == IsSeq(t) /\ Len(t) \in Nat \ {0}

Good(cs, m, t) ==
  /\ ContextsOK(cs) /\ IsMachine(m) /\ IsText(t)
  /\ m.fault = NoFault => Len(m.data) = AllHeld(cs)
  /\ TokOK(cs[Len(cs)], t)

LEMMA TopFacts ==
  ASSUME ContextsOK(contexts), NEW n, n = Len(contexts)
  PROVE  /\ n \in Nat \ {0} /\ ContextOK(Top) /\ Top = contexts[n] /\ IsSeq(contexts)
         /\ Held(Top) \in Nat /\ AllHeld(contexts) = HeldBy(contexts, n - 1) + Held(Top)
         /\ \A k \in 0..n : HeldBy(contexts, k) \in Nat
         /\ n > 1 => /\ ContextOK(Caller) /\ Waits(Caller, Top) /\ Held(Caller) \in Nat
                     /\ AllHeld(contexts) = HeldBy(contexts, n - 2) + Held(Caller) + Held(Top)
         /\ n > 2 => Waits(contexts[n - 2], Caller)
         /\ n = 1 => Top.kind \notin {"parse", "call"}
         /\ n = 2 => Caller.kind \notin {"parse", "call"}
  <1>1. n \in Nat \ {0} /\ IsSeq(contexts) /\ \A i \in 1..n : ContextOK(contexts[i])
    BY DEF ContextsOK
  <1>2. n \in 1..n /\ Top = contexts[n] /\ Caller = contexts[n - 1]
    BY <1>1 DEF Top, Caller
  <1>3. ContextOK(Top) /\ Held(Top) \in Nat
    BY <1>1, <1>2, ContextFacts DEF ContextOK
  <1>4. /\ AllHeld(contexts) = HeldBy(contexts, n)
        /\ \A k \in 0..n : HeldBy(contexts, k) \in Nat
        /\ \A k \in 1..n : HeldBy(contexts, k) = HeldBy(contexts, k - 1) + Held(contexts[k])
    BY <1>1, HeldFacts
  <1>5. AllHeld(contexts) = HeldBy(contexts, n - 1) + Held(Top)
    BY <1>2, <1>4
  <1>6. ASSUME n > 1
        PROVE  /\ ContextOK(Caller) /\ Waits(Caller, Top) /\ Held(Caller) \in Nat
               /\ AllHeld(contexts) = HeldBy(contexts, n - 2) + Held(Caller) + Held(Top)
    <2>1. n - 1 \in 1..n /\ n \in 2..n /\ (n - 1) - 1 = n - 2
      BY <1>1, <1>6
    <2>2. ContextOK(Caller) /\ Held(Caller) \in Nat
      BY <1>1, <1>2, <2>1, ContextFacts DEF ContextOK
    <2>3. Waits(Caller, Top)
      BY <1>2, <2>1 DEF ContextsOK
    <2>4. HeldBy(contexts, n - 1) = HeldBy(contexts, n - 2) + Held(Caller)
      BY <1>2, <1>4, <2>1
    <2> QED
      BY <1>5, <2>2, <2>3, <2>4
  <1>7. ASSUME n > 2 PROVE Waits(contexts[n - 2], Caller)
    <2>1. n - 1 \in 2..n /\ (n - 1) - 1 = n - 2
      BY <1>1, <1>7
    <2> QED
      BY <1>2, <2>1 DEF ContextsOK
  <1>8. contexts[1].kind \notin {"parse", "call"}
    BY DEF ContextsOK
  <1>9. (n = 1 => Top = contexts[1]) /\ (n = 2 => Caller = contexts[1])
    BY <1>2
  <1> QED
    BY <1>1, <1>2, <1>3, <1>4, <1>5, <1>6, <1>7, <1>8, <1>9

(* The machine's stack goes with the contexts'.                            *)
LEMMA Together ==
  ASSUME NEW k, NEW m, NEW a, NEW b, NEW d,
         IsMachine(k), k.fault = NoFault => Len(k.data) = a, Runs(k, m, d), b = a + d
  PROVE  m.fault = NoFault => Len(m.data) = b
  BY DEF Runs

LEMMA Pushing ==
  ASSUME NEW cs, NEW k, NEW r, Good(cs, k, r),
         NEW c, ContextOK(c), Waits(cs[Len(cs)], c),
         NEW m, Runs(k, m, Held(c)),
         NEW t, IsText(t), TokOK(c, t)
  PROVE  Good(Append(cs, c), m, t)
  <1>1. PICK n, s : n = Len(cs) /\ s = Append(cs, c)
    OBVIOUS
  <1>2. n \in Nat \ {0} /\ IsSeq(cs) /\ n \in 0..n
    BY <1>1 DEF Good, ContextsOK
  <1>4. Changed(s, cs, n, c)
    BY <1>1, <1>2, AppendChanges
  <1>5. /\ ContextsOK(s) /\ AllHeld(s) = HeldBy(cs, n) + Held(c)
        /\ s[Len(s)] = c
    BY <1>1, <1>2, <1>4, ContextsChange DEF Good
  <1>6. AllHeld(cs) = HeldBy(cs, n)
    BY <1>1, HeldFacts DEF Good, ContextsOK
  <1>7. IsMachine(m)
    BY DEF Runs
  <1>8. m.fault = NoFault => Len(m.data) = AllHeld(s)
    BY <1>5, <1>6, Together DEF Good
  <1> QED
    BY <1>1, <1>5, <1>7, <1>8 DEF Good

LEMMA Replacing ==
  ASSUME Good(contexts, machine, text),
         NEW c, ContextOK(c), c.kind = "parse" <=> Top.kind = "parse",
         c.kind = "call" <=> Top.kind = "call",
         NEW m, NEW d \in Int, Runs(machine, m, d), Held(c) = Held(Top) + d,
         NEW t, IsText(t), TokOK(c, t)
  PROVE  Good(Replace(c), m, t) /\ Replace(c)[Len(Replace(c))] = c
  <1>1. PICK n : n = Len(contexts)
    OBVIOUS
  <1>2. /\ n \in Nat \ {0} /\ Top = contexts[n] /\ IsSeq(contexts)
        /\ AllHeld(contexts) = HeldBy(contexts, n - 1) + Held(Top)
        /\ HeldBy(contexts, n - 1) \in Nat /\ Held(Top) \in Nat
        /\ n > 1 => Waits(Caller, Top)
        /\ n = 1 => Top.kind \notin {"parse", "call"}
    BY <1>1, TopFacts DEF Good
  <1>3. PICK s : s = Replace(c)
    OBVIOUS
  <1>4. Changed(s, contexts, n - 1, c)
    BY <1>1, <1>2, <1>3, ExceptChanges DEF Replace
  <1>5. n - 1 \in 0..n /\ (n - 1 = 0 => n = 1) /\ (n - 1 # 0 => n > 1)
    <2>1. n \in Nat \ {0}
      BY <1>2
    <2> QED
      BY <2>1
  <1>6. Caller = contexts[n - 1]
    BY <1>1 DEF Caller
  <1>7. IF n - 1 = 0 THEN c.kind \notin {"parse", "call"} ELSE Waits(contexts[n - 1], c)
    BY <1>2, <1>5, <1>6 DEF Waits
  <1>8. /\ ContextsOK(s) /\ AllHeld(s) = HeldBy(contexts, n - 1) + Held(c)
        /\ s[Len(s)] = c
    BY <1>1, <1>4, <1>5, <1>7, ContextsChange DEF Good
  <1>9. AllHeld(s) = AllHeld(contexts) + d
    BY <1>2, <1>8
  <1>10. IsMachine(m)
    BY DEF Runs
  <1>11. m.fault = NoFault => Len(m.data) = AllHeld(s)
    BY <1>9, Together DEF Good
  <1> QED
    BY <1>3, <1>8, <1>10, <1>11 DEF Good

LEMMA Returning ==
  ASSUME Good(contexts, machine, text), Len(contexts) > 1,
         NEW c, ContextOK(c), c.kind = Caller.kind,
         NEW m, NEW d \in Int, Runs(machine, m, d), Held(c) = Held(Caller) + Held(Top) + d,
         NEW t, IsText(t), TokOK(c, t)
  PROVE  Good(Return(c), m, t)
  <1>1. PICK n : n = Len(contexts)
    OBVIOUS
  <1>2. /\ n \in Nat \ {0} /\ IsSeq(contexts) /\ n > 1
        /\ AllHeld(contexts) = HeldBy(contexts, n - 2) + Held(Caller) + Held(Top)
        /\ Held(Caller) \in Nat /\ Held(Top) \in Nat
        /\ \A k \in 0..n : HeldBy(contexts, k) \in Nat
        /\ n > 2 => Waits(contexts[n - 2], Caller)
        /\ n = 2 => Caller.kind \notin {"parse", "call"}
    BY <1>1, TopFacts DEF Good
  <1>5. n - 2 \in 0..n /\ (n - 2 = 0 => n = 2) /\ (n - 2 # 0 => n > 2)
    BY <1>2
  <1>3. PICK b, s : b = SubSeq(contexts, 1, n - 2) /\ s = Append(b, c) /\ s = Return(c)
    BY <1>1 DEF Return
  <1>4. Changed(s, contexts, n - 2, c)
    <2>1. /\ IsSeq(b) /\ Len(b) = n - 2
          /\ \A i \in 1..(n - 2) : b[i] = contexts[i]
      BY <1>1, <1>2, <1>3, <1>5, PrefixFacts
    <2>2. Changed(s, b, Len(b), c)
      BY <1>3, <2>1, AppendChanges
    <2> QED
      BY <2>1, <2>2 DEF Changed
  <1>7. IF n - 2 = 0 THEN c.kind \notin {"parse", "call"} ELSE Waits(contexts[n - 2], c)
    BY <1>2, <1>5 DEF Waits
  <1>8. /\ ContextsOK(s) /\ AllHeld(s) = HeldBy(contexts, n - 2) + Held(c)
        /\ s[Len(s)] = c
    BY <1>1, <1>4, <1>5, <1>7, ContextsChange DEF Good
  <1>9. AllHeld(s) = AllHeld(contexts) + d
    BY <1>2, <1>5, <1>8
  <1>10. IsMachine(m)
    BY DEF Runs
  <1>11. m.fault = NoFault => Len(m.data) = AllHeld(s)
    BY <1>9, Together DEF Good
  <1> QED
    BY <1>3, <1>8, <1>10, <1>11 DEF Good

(***************************************************************************)
(* The precedence functions.                                               *)
(***************************************************************************)
LEMMA PriorityFacts ==
  /\ \A op : f(op) \in 0..12 /\ g(op) \in 0..13
  /\ \A op : Known(op) => f(op) > 0
  /\ f("$") = 0 /\ g("$") = 0 /\ g("id") = 13
  <1>1. ASSUME NEW op PROVE Level(op) \in 1..10 /\ (Known(op) => Level(op) \in 1..9)
    BY DEF Level, Known, IsBinaryOp, IsUnaryOp
  <1>2. Level("$") = 10 /\ Level("id") = 1
    BY DEF Level
  <1>3. ASSUME NEW op PROVE f(op) \in 0..12 /\ g(op) \in 0..13 /\ (Known(op) => f(op) > 0)
    <2>1. \/ Level(op) = 1 \/ Level(op) = 2 \/ Level(op) = 3 \/ Level(op) = 4
          \/ Level(op) = 5 \/ Level(op) = 6 \/ Level(op) = 7 \/ Level(op) = 8
          \/ Level(op) = 9 \/ (Level(op) = 10 /\ ~ Known(op))
      BY <1>1
    <2> QED
      BY <2>1 DEF f, g
  <1>4. f("$") = 0 /\ g("$") = 0 /\ g("id") = 13
    BY <1>2 DEF f, g
  <1> QED
    BY <1>3, <1>4

(***************************************************************************)
(* One iteration of parse.                                                 *)
(***************************************************************************)
LEMMA ParseTop ==
  ASSUME Good(contexts, machine, text), Top.kind = "parse"
  PROVE  /\ ParseOK(Top) /\ Len(contexts) \in Nat /\ Len(contexts) > 1
         /\ ContextOK(Caller) /\ Waits(Caller, Top)
         /\ ItemsOK(Top.items) /\ Rested(Top.items) /\ Upper = TopItem(Top)
         /\ Held(Top) = ItemValues(Top.items) /\ Upper.n \in Nat
         /\ HasExpr /\ Upper.n = 0 => Top.parsed = "function"
         /\ IsMachine(machine)
         /\ TokOK(Top, text)
  <1>1. PICK n : n = Len(contexts)
    OBVIOUS
  <1>2. /\ n \in Nat \ {0} /\ ContextOK(Top) /\ Top = contexts[n]
        /\ n > 1 => ContextOK(Caller) /\ Waits(Caller, Top)
        /\ n = 1 => Top.kind \notin {"parse", "call"}
    BY <1>1, TopFacts DEF Good
  <1>3. n > 1
    <2>1. n # 1 /\ n \in Nat \ {0}
      BY <1>2
    <2> QED
      BY <2>1
  <1>4. ParseOK(Top)
    BY <1>2, ContextFacts DEF ContextOK
  <1>5. ItemsOK(Top.items) /\ Rested(Top.items) /\ Upper = TopItem(Top)
    BY <1>4 DEF ParseOK, Upper, TopItem
  <1>6. Upper.n \in Nat
    <2>1. Len(Top.items) \in 1..Len(Top.items)
      BY <1>5 DEF ItemsOK
    <2> QED
      BY <1>5, <2>1 DEF ItemsOK, IsItem, Upper
  <1>7. HasExpr /\ Upper.n = 0 => Top.parsed = "function"
    BY <1>4, <1>5 DEF ParseOK, HasExpr
  <1>8. TokOK(Top, text) /\ IsMachine(machine)
    BY <1>1, <1>2 DEF Good
  <1> QED
    BY <1>1, <1>2, <1>3, <1>4, <1>5, <1>6, <1>7, <1>8, ContextFacts

LEMMA RestFacts ==
  ASSUME Good(contexts, machine, text), Top.kind = "parse"
  PROVE  /\ ItemsOK(Rest) /\ Rest[Len(Rest)].type \in {"DOLLAR", "TOKEN"}
         /\ ItemValues(Rest) \in Nat
         /\ Held(Top) = ItemValues(Rest) + (IF HasExpr THEN Upper.n ELSE 0)
         /\ first_op = "$" => ItemValues(Rest) = 0
         /\ first_op = "$" \/ Known(first_op)
  <1>1. PICK s : s = Top.items
    OBVIOUS
  <1>2. ItemsOK(s) /\ Rested(s) /\ Upper = s[Len(s)] /\ Held(Top) = ItemValues(s)
    BY <1>1, ParseTop DEF TopItem
  <1>3. Len(s) \in Nat \ {0}
    BY <1>2 DEF ItemsOK
  <1>4. /\ ItemsOK(Rest) /\ Rest[Len(Rest)].type \in {"DOLLAR", "TOKEN"}
        /\ Held(Top) = ItemValues(Rest) + (IF HasExpr THEN Upper.n ELSE 0)
        /\ ItemValues(Rest) \in Nat
    <2>1. CASE HasExpr
      <3>1. PICK k : k = Len(s) - 1
        OBVIOUS
      <3>2. Len(s) > 1 /\ s[k].type \in {"DOLLAR", "TOKEN"}
        BY <1>2, <2>1, <3>1 DEF Rested, HasExpr
      <3>3. k \in 1..Len(s) /\ Len(s) \in 1..Len(s) /\ k \in 1..k /\ k \in 0..Len(s)
        BY <1>3, <3>1, <3>2
      <3>4. Rest = SubSeq(s, 1, k)
        BY <1>1, <2>1, <3>1 DEF Rest
      <3>5. /\ ItemsOK(Rest) /\ Len(Rest) = k /\ ItemValues(Rest) = Values(s, k)
            /\ Rest[k] = s[k]
        BY <1>2, <3>3, <3>4, ItemsPrefix
      <3>6. /\ Values(s, Len(s)) = Values(s, k) + s[Len(s)].n
            /\ ItemValues(s) = Values(s, Len(s)) /\ Values(s, k) \in Nat
        BY <1>2, <3>1, <3>3, ValuesFacts
      <3> QED
        BY <1>2, <2>1, <3>2, <3>5, <3>6
    <2>2. CASE ~ HasExpr
      <3>1. Rest = s
        BY <1>1, <2>2 DEF Rest
      <3>2. s[Len(s)].type \in {"DOLLAR", "TOKEN"}
        BY <1>2, <2>2 DEF Rested, HasExpr
      <3>3. ItemValues(s) \in Nat
        BY <1>2, <1>3, ValuesFacts
      <3> QED
        BY <1>2, <2>2, <3>1, <3>2, <3>3
    <2> QED
      BY <2>1, <2>2
  <1>5. PICK r, k : r = Rest /\ k = Len(r)
    OBVIOUS
  <1>6. k \in Nat \ {0} /\ k \in 1..k /\ IsItem(r[k]) /\ first_op = r[k].op
    BY <1>4, <1>5 DEF ItemsOK, first_op
  <1>7. first_op = "$" \/ Known(first_op)
    BY <1>6 DEF IsItem
  <1>8. ASSUME first_op = "$" PROVE ItemValues(Rest) = 0
    <2>1. r[k].type = "DOLLAR"
      <3>1. ~ Known("$")
        BY DEF Known, IsBinaryOp, IsUnaryOp
      <3>2. r[k].type # "TOKEN"
        BY <1>6, <1>8, <3>1 DEF IsItem
      <3> QED
        BY <1>4, <1>5, <3>2
    <2>2. k = 1
      <3>1. ASSUME k # 1 PROVE FALSE
        <4>1. k \in 2..k
          BY <1>6, <3>1
        <4>2. CanFollow(r[k-1], r[k])
          BY <1>4, <1>5, <4>1 DEF ItemsOK
        <4> QED
          BY <2>1, <4>2 DEF CanFollow
      <3> QED
        BY <3>1
    <2>3. ItemValues(r) = Values(r, 1) /\ Values(r, 1) = Values(r, 0) + r[1].n /\ Values(r, 0) = 0
      <3>1. ItemsOK(r) /\ Len(r) = 1 /\ 1 \in 1..1 /\ 1 - 1 = 0
        BY <1>4, <1>5, <2>2
      <3> QED
        BY <3>1, ValuesFacts
    <2>4. r[1].n = 0
      BY <1>6, <2>1, <2>2 DEF IsItem
    <2> QED
      BY <1>5, <2>3, <2>4
  <1> QED
    BY <1>4, <1>7, <1>8

LEMMA OperatorFacts ==
  /\ second_op = "$" \/ Known(second_op)
  /\ Tok \in Names => second_op = "id"
  <1>1. get_op(Tok) = "$" \/ Known(get_op(Tok))
    BY DEF get_op, Known, IsBinaryOp, IsUnaryOp
  <1>2. second_op \in {get_op(Tok), "neg"}
    BY DEF second_op, check_unary_minus
  <1>3. Known("neg")
    BY DEF Known, IsUnaryOp
  <1>4. ASSUME Tok \in Names PROVE second_op = "id"
    <2>1. get_op(Tok) = "id"
      BY <1>4, NamesAssumption DEF get_op
    <2> QED
      BY <2>1 DEF second_op, check_unary_minus
  <1> QED
    BY <1>1, <1>2, <1>3, <1>4

(* A parse whose stack ends with an expression of one value, or a token.   *)
LEMMA GoesFacts ==
  ASSUME Good(contexts, machine, text), Top.kind = "parse",
         NEW items, ItemsOK(items), Rested(items), NEW hard \in BOOLEAN,
         items[Len(items)].type = "EXPR" => items[Len(items)].n = 1,
         hard => items[Len(items)].type = "EXPR",
         NEW c, c = Goes(items, hard)
  PROVE  /\ ContextOK(c) /\ c.kind = "parse" /\ Held(c) = ItemValues(items)
         /\ c.hard = hard /\ c.parsed = "none" /\ TopItem(c) = items[Len(items)]
  <1>1. PICK i, h, p : Top = ParseRecord(i, h, p)
    BY ParseTop DEF ParseOK
  <1>2. c = ParseRecord(items, hard, "none")
    <2>1. c = [Top EXCEPT !.items = items, !.hard = hard, !.parsed = "none"]
      BY DEF Goes
    <2> QED
      BY <1>1, <2>1, ParseUpdate DEF ParseRecord
  <1>3. c.kind = "parse" /\ c.items = items /\ c.hard = hard /\ c.parsed = "none"
    BY <1>2, RecordFacts
  <1>4. TopItem(c) = items[Len(items)]
    BY <1>3 DEF TopItem
  <1>5. ParseOK(c)
    BY <1>2, <1>3, <1>4 DEF ParseOK
  <1> QED
    BY <1>3, <1>4, <1>5, ContextFacts DEF ContextOK

Inv == outcome = "parsing" => Good(contexts, machine, text)

(* After a closing parenthesis no other one is opened.                     *)
Separated(t) == \A k \in 1..(Len(t) - 1) : ~ (t[k] = ")" /\ t[k+1] = "(")

(***************************************************************************)
(* How a step ends.                                                        *)
(***************************************************************************)
LEMMA TextNext ==
  ASSUME IsText(text), NEW x
  PROVE  /\ IsText(Append(text, x)) /\ Len(Append(text, x)) > 1
         /\ Append(text, x)[Len(Append(text, x)) - 1] = Tok
  <1>1. PICK n, t : n = Len(text) /\ t = Append(text, x)
    OBVIOUS
  <1>2. n \in Nat \ {0} /\ IsSeq(text) /\ n \in 1..n
    BY <1>1 DEF IsText
  <1>3. Changed(t, text, n, x)
    BY <1>1, <1>2, AppendChanges
  <1>4. IsSeq(t) /\ Len(t) = n + 1 /\ t[n] = text[n]
    BY <1>2, <1>3 DEF Changed
  <1>5. n + 1 \in Nat \ {0} /\ n + 1 > 1 /\ (n + 1) - 1 = n
    BY <1>2
  <1> QED
    BY <1>1, <1>4, <1>5 DEF IsText, Tok, At

LEMMA Expecting ==
  ASSUME NEW c, NEW m, Expected(c, m), \A x : Good(c, m, Append(text, x))
  PROVE  Inv'
  BY DEF Expected, Advance, Proceed, Reject, Inv

LEMMA Keeping ==
  ASSUME NEW c, NEW m, Silently(c, m), Good(c, m, text)
  PROVE  Inv'
  BY DEF Silently, Proceed, Inv

LEMMA Ending ==
  ASSUME (\E m : Accept(m)) \/ (\E e : Reject(e))
  PROVE  Inv'
  BY DEF Accept, Reject, Inv

LEMMA NewParseFacts ==
  ASSUME NEW c, c = NewParse
  PROVE  ContextOK(c) /\ c.kind = "parse" /\ Held(c) = 0 /\ \A t : TokOK(c, t)
  <1>1. PICK s : s = <<Dollar>>
    OBVIOUS
  <1>2. ItemsOK(s) /\ Rested(s) /\ ItemValues(s) = 0 /\ s[Len(s)].type # "EXPR"
    BY <1>1, NewItems
  <1>7. PICK h \in BOOLEAN : h = FALSE
    OBVIOUS
  <1>3. c = ParseRecord(s, h, "none")
    BY <1>1, <1>7 DEF NewParse, ParseRecord
  <1>4. c.kind = "parse" /\ c.items = s /\ c.hard = h /\ c.parsed = "none"
    BY <1>3, RecordFacts
  <1>5. TopItem(c).type # "EXPR"
    BY <1>2, <1>4 DEF TopItem
  <1>6. ParseOK(c)
    BY <1>2, <1>3, <1>4, <1>5, <1>7 DEF ParseOK
  <1> QED
    BY <1>2, <1>4, <1>5, <1>6, <1>7, ContextFacts DEF ContextOK, TokOK

LEMMA SyntaxIsNoName ==
  /\ "(" \notin Names /\ ")" \notin Names
  BY NamesAssumption

(* An expression is begun by who waits for one.                            *)
LEMMA Beginning ==
  ASSUME Good(contexts, machine, text), Waits(Top, NewParse),
         NEW t, IsText(t)
  PROVE  Good(Push(NewParse), machine, t)
  <1>1. PICK c : c = NewParse
    OBVIOUS
  <1>2. ContextOK(c) /\ Held(c) = 0 /\ TokOK(c, t) /\ Waits(Top, c)
    BY <1>1, NewParseFacts
  <1>3. Runs(machine, machine, 0)
    BY RunsFacts DEF Good
  <1>4. Good(Push(c), machine, t)
    BY <1>2, <1>3, Pushing DEF Push, Top
  <1> QED
    BY <1>1, <1>4

(***************************************************************************)
(* The steps of parse.                                                     *)
(***************************************************************************)
LEMMA ParensStep ==
  ASSUME Inv, parse_parents
  PROVE  Inv'
  <1>1. /\ Good(contexts, machine, text) /\ Top.kind = "parse"
        /\ Top.parsed = "none" /\ Tok = "(" /\ Expected(Push(NewParse), machine)
    BY DEF Inv, parse_parents, Parsing
  <1>2. /\ Top.hard => Tok \in Names
        /\ ~ Top.hard /\ TopItem(Top).type = "EXPR" => Tok # "("
    BY <1>1, ParseTop DEF TokOK, Tok, At
  <1>3. TopItem(Top).type # "EXPR"
    BY <1>1, <1>2, SyntaxIsNoName
  <1>4. Waits(Top, NewParse)
    BY <1>1, <1>3 DEF Waits
  <1>5. \A x : Good(Push(NewParse), machine, Append(text, x))
    BY <1>1, <1>4, Beginning, TextNext DEF Good
  <1> QED
    BY <1>1, <1>5, Expecting

LEMMA ShiftStep ==
  ASSUME Inv, shift
  PROVE  Inv'
  <1>1. /\ Good(contexts, machine, text) /\ Top.kind = "parse" /\ ~ parse_success
        /\ cmp <= 0
    BY DEF Inv, shift, Decides, Parsing
  <1>2. PICK less \in {<<>>, <<Less>>} :
          Expected(Replace(Goes(Rest \o less \o Operand \o <<Token(second_op, At)>>, FALSE)),
                   AsOperand(machine))
    BY DEF shift
  <1>3. Known(second_op)
    <2>1. ASSUME second_op = "$" PROVE FALSE
      <3>1. first_op # "$"
        BY <1>1, <2>1 DEF parse_success
      <3>2. Known(first_op)
        BY <1>1, <3>1, RestFacts
      <3>3. f(first_op) > 0 /\ f(first_op) \in 0..12 /\ g(second_op) = 0
        BY <2>1, <3>2, PriorityFacts
      <3> QED
        BY <1>1, <3>3 DEF cmp
    <2> QED
      BY <2>1, OperatorFacts
  <1>4. PICK t : t = Rest \o less \o Operand \o <<Token(second_op, At)>>
    OBVIOUS
  <1>5. PICK r, o, y : r = Rest /\ o = Operand /\ y = Token(second_op, At)
    OBVIOUS
  <1>6. /\ ItemsOK(r) /\ r[Len(r)].type \in {"DOLLAR", "TOKEN"} /\ ItemValues(r) \in Nat
        /\ Held(Top) = ItemValues(r) + (IF HasExpr THEN Upper.n ELSE 0)
    BY <1>1, <1>5, RestFacts
  <1>7. o \in {<<>>, <<Expr(1)>>} /\ (o = <<>> <=> ~ HasExpr)
    BY <1>5 DEF Operand
  <1>8. t = r \o less \o o \o <<y>> /\ IsItem(y) /\ y.type = "TOKEN"
    BY <1>3, <1>4, <1>5, ItemFacts
  <1>20. less \in {<<>>, <<Less>>}
    BY <1>2
  <1>9. /\ ItemsOK(t) /\ Rested(t) /\ t[Len(t)].type # "EXPR"
        /\ ItemValues(t) = ItemValues(r) + (IF o = <<>> THEN 0 ELSE 1)
    BY <1>6, <1>7, <1>8, <1>20, ShiftedItems
  <1>10. PICK c : c = Goes(t, FALSE)
    OBVIOUS
  <1>11. /\ ContextOK(c) /\ c.kind = "parse" /\ Held(c) = ItemValues(t)
         /\ c.hard = FALSE /\ c.parsed = "none" /\ TopItem(c).type # "EXPR"
    BY <1>1, <1>9, <1>10, GoesFacts
  <1>12. PICK d : d = IF HasExpr THEN 1 - Upper.n ELSE 0
    OBVIOUS
  <1>13. /\ Upper.n \in Nat /\ IsMachine(machine)
         /\ HasExpr /\ Upper.n = 0 => Top.parsed = "function"
    BY <1>1, ParseTop
  <1>14. PICK m : m = AsOperand(machine)
    OBVIOUS
  <1>15. Runs(machine, m, d)
    BY <1>12, <1>13, <1>14, OperandRuns
  <1>16. d \in Int /\ Held(c) = Held(Top) + d
    BY <1>6, <1>7, <1>9, <1>11, <1>12, <1>13
  <1>17. \A x : TokOK(c, x)
    BY <1>11 DEF TokOK
  <1>18. ASSUME NEW x PROVE Good(Replace(c), m, Append(text, x))
    <2>1. IsText(Append(text, x))
      BY <1>1, TextNext DEF Good
    <2> QED
      BY <1>1, <1>11, <1>15, <1>16, <1>17, <2>1, Replacing
  <1>19. Expected(Replace(c), m)
    BY <1>2, <1>4, <1>10, <1>14
  <1> QED
    BY <1>18, <1>19, Expecting

(***************************************************************************)
(* Reductions.                                                             *)
(***************************************************************************)
LEMMA BaseFacts ==
  ASSUME ItemsOK(Stack)
  PROVE  /\ Base \in 1..Len(Stack) /\ Stack[Base].type \in {"LT", "DOLLAR"}
         /\ \A j \in (Base + 1)..Len(Stack) : Stack[j].type \in {"EXPR", "TOKEN"}
  <1>1. PICK s, n : s = Stack /\ n = Len(s)
    OBVIOUS
  <1>2. n \in Nat \ {0} /\ s[1].type = "DOLLAR" /\ \A i \in 1..n : IsItem(s[i])
    BY <1>1 DEF ItemsOK
  <1> DEFINE P == {i \in 1..n : s[i].type \in {"LT", "DOLLAR"}}
             S == {k \in 0..n : n - k \in P}
  <1>3. PICK k \in S : \A j \in S : k <= j
    <2>1. n - 1 \in S
      BY <1>2
    <2>2. S \subseteq Nat
      OBVIOUS
    <2> HIDE DEF S
    <2> QED
      BY <2>1, <2>2, LeastNumber
  <1>4. PICK b : b = n - k
    OBVIOUS
  <1>5. b \in 1..n /\ s[b].type \in {"LT", "DOLLAR"}
    BY <1>3, <1>4
  <1>6. ASSUME NEW j \in (b + 1)..n PROVE s[j].type \in {"EXPR", "TOKEN"}
    <2>1. j \in 1..n /\ n - j \in 0..n /\ n - (n - j) = j /\ ~ (k <= n - j) /\ k \in 0..n
      BY <1>2, <1>3, <1>4, <1>5
    <2>2. j \notin P
      BY <1>3, <2>1
    <2>3. IsItem(s[j])
      BY <1>2, <2>1
    <2> QED
      BY <2>1, <2>2, <2>3 DEF IsItem
  <1>7. \E i \in 1..n : /\ s[i].type \in {"LT", "DOLLAR"}
                        /\ \A j \in (i+1)..n : s[j].type \in {"EXPR", "TOKEN"}
    BY <1>5, <1>6
  <1>8. Base = CHOOSE i \in 1..n : /\ s[i].type \in {"LT", "DOLLAR"}
                                   /\ \A j \in (i+1)..n : s[j].type \in {"EXPR", "TOKEN"}
    BY <1>1 DEF Base
  <1> QED
    BY <1>1, <1>7, <1>8

(* The stack with its operand.                                             *)
LEMMA StackFacts ==
  ASSUME Good(contexts, machine, text), Top.kind = "parse"
  PROVE  /\ ItemsOK(Stack)
         /\ ItemValues(Stack) = ItemValues(Rest) + (IF HasExpr THEN 1 ELSE 0)
         /\ \A i \in 1..Len(Stack) : Stack[i].type = "EXPR" => Stack[i].n = 1
  <1>1. PICK r, o, s : r = Rest /\ o = Operand /\ s = Stack
    OBVIOUS
  <1>2. ItemsOK(r) /\ r[Len(r)].type \in {"DOLLAR", "TOKEN"} /\ ItemValues(r) \in Nat
    BY <1>1, RestFacts
  <1>3. s = r \o o
    BY <1>1 DEF Stack
  <1>4. /\ ItemsOK(s) /\ (s[Len(s)].type = "EXPR" => s[Len(s)].n = 1)
        /\ ItemValues(s) = ItemValues(r) + (IF HasExpr THEN 1 ELSE 0)
    <2>1. CASE HasExpr
      <3>1. PICK x : x = Expr(1)
        OBVIOUS
      <3>2. IsItem(x) /\ x.type = "EXPR" /\ x.n = 1
        BY <3>1, ItemFacts
      <3>3. Changed(s, r, Len(r), x)
        <4>1. s = r \o <<x>>
          BY <1>1, <1>3, <2>1, <3>1 DEF Operand
        <4> QED
          BY <1>2, <4>1, AppendChanges DEF ItemsOK
      <3>4. CanFollow(r[Len(r)], x)
        BY <1>2, <3>2 DEF CanFollow
      <3>5. ItemsOK(s) /\ ItemValues(s) = ItemValues(r) + x.n /\ s[Len(s)] = x
        BY <1>2, <3>2, <3>3, <3>4, ItemsAppend
      <3> QED
        BY <2>1, <3>2, <3>5
    <2>2. CASE ~ HasExpr
      <3>1. s = r
        BY <1>1, <1>2, <1>3, <2>2, AppendChanges DEF Operand, ItemsOK
      <3> QED
        BY <1>2, <2>2, <3>1
    <2> QED
      BY <2>1, <2>2
  <1>5. ASSUME NEW i \in 1..Len(s), s[i].type = "EXPR" PROVE s[i].n = 1
    <2>1. CASE i = Len(s)
      BY <1>4, <1>5, <2>1
    <2>2. CASE i # Len(s)
      <3>1. i + 1 \in 2..Len(s) /\ (i + 1) - 1 = i
        BY <1>4, <2>2 DEF ItemsOK
      <3>2. CanFollow(s[i], s[i + 1])
        BY <1>4, <3>1 DEF ItemsOK
      <3> QED
        BY <1>5, <3>2 DEF CanFollow
    <2> QED
      BY <2>1, <2>2
  <1> QED
    BY <1>1, <1>4, <1>5

(* What is kept below the handle.                                          *)
LEMMA KeptFacts ==
  ASSUME ItemsOK(Stack), NEW t, t = kept \o <<Expr(1)>>
  PROVE  /\ ItemsOK(t) /\ Rested(t)
         /\ t[Len(t)].type = "EXPR" /\ t[Len(t)].n = 1
         /\ Values(Stack, Base) \in Nat /\ ItemValues(t) = Values(Stack, Base) + 1
  <1>1. PICK s, n, b : s = Stack /\ n = Len(s) /\ b = Base
    OBVIOUS
  <1>2. /\ ItemsOK(s) /\ n \in Nat \ {0} /\ b \in 1..n
        /\ s[b].type \in {"LT", "DOLLAR"} /\ IsItem(s[b]) /\ s[1].type = "DOLLAR"
    BY <1>1, BaseFacts DEF ItemsOK
  <1>3. PICK k : k = IF s[b].type = "LT" THEN b - 1 ELSE b
    OBVIOUS
  <1>4. /\ k \in 1..n /\ s[k].type \in {"DOLLAR", "TOKEN"} /\ Values(s, k) = Values(s, b)
        /\ Values(s, b) \in Nat
    <2>1. CASE s[b].type = "LT"
      <3>1. b # 1 /\ k = b - 1
        BY <1>2, <1>3, <2>1
      <3>2. b \in 2..n /\ k \in 1..n /\ b \in 0..n
        BY <1>2, <3>1
      <3>3. CanFollow(s[k], s[b])
        BY <1>1, <1>2, <3>1, <3>2 DEF ItemsOK
      <3>4. Values(s, b) = Values(s, b - 1) + s[b].n /\ Values(s, b) \in Nat
        BY <1>1, <1>2, <3>2, ValuesFacts
      <3>5. s[b].n = 0
        BY <1>2, <2>1 DEF IsItem
      <3>6. k \in 0..n
        BY <3>2
      <3>7. Values(s, k) \in Nat
        BY <1>1, <1>2, <3>6, ValuesFacts
      <3> QED
        BY <2>1, <3>1, <3>2, <3>3, <3>4, <3>5, <3>7 DEF CanFollow
    <2>2. CASE s[b].type = "DOLLAR"
      <3>1. k = b /\ b \in 0..n
        BY <1>2, <1>3, <2>2
      <3>2. Values(s, b) \in Nat
        BY <1>1, <1>2, <3>1, ValuesFacts
      <3> QED
        BY <1>2, <2>2, <3>1, <3>2
    <2> QED
      BY <1>2, <2>1, <2>2
  <1>5. PICK r : r = SubSeq(s, 1, k) /\ r = kept
    BY <1>1, <1>3 DEF kept
  <1>6. ItemsOK(r) /\ Len(r) = k /\ ItemValues(r) = Values(s, k) /\ r[k] = s[k]
    <2>1. k \in 1..k /\ k \in 1..Len(s) /\ ItemsOK(s)
      BY <1>1, <1>2, <1>4
    <2>2. r = SubSeq(s, 1, k)
      BY <1>5
    <2> QED
      BY <2>1, <2>2, ItemsPrefix
  <1>7. PICK x : x = Expr(1)
    OBVIOUS
  <1>8. IsItem(x) /\ x.type = "EXPR" /\ x.n = 1
    BY <1>7, ItemFacts
  <1>14. PICK q : q = t
    OBVIOUS
  <1>9. Changed(q, r, Len(r), x)
    <2>1. q = r \o <<x>>
      BY <1>5, <1>7, <1>14
    <2> QED
      BY <1>6, <2>1, AppendChanges DEF ItemsOK
  <1>10. CanFollow(r[Len(r)], x)
    BY <1>4, <1>6, <1>8 DEF CanFollow
  <1>11. /\ ItemsOK(q) /\ ItemValues(q) = ItemValues(r) + x.n /\ Len(q) = Len(r) + 1
         /\ q[Len(q)] = x /\ q[Len(q) - 1] = r[Len(r)]
    BY <1>6, <1>8, <1>9, <1>10, ItemsAppend
  <1>12. Len(q) > 1
    BY <1>4, <1>6, <1>11
  <1>13. Rested(q)
    BY <1>4, <1>6, <1>8, <1>11, <1>12 DEF Rested
  <1>15. /\ ItemsOK(q) /\ Rested(q) /\ q[Len(q)].type = "EXPR" /\ q[Len(q)].n = 1
         /\ Values(s, b) \in Nat /\ ItemValues(q) = Values(s, b) + 1
    BY <1>4, <1>6, <1>8, <1>11, <1>13
  <1> QED
    BY <1>1, <1>14, <1>15

LEMMA HandleFacts ==
  ASSUME ItemsOK(Stack)
  PROVE  /\ Len(handle) = Len(Stack) - Base
         /\ \A i \in 1..Len(handle) : handle[i] = Stack[Base + i] /\ IsItem(handle[i])
         /\ \A i \in 1..Len(handle) :
              Values(Stack, Base + i) = Values(Stack, (Base + i) - 1) + handle[i].n
         /\ Values(Stack, Base) \in Nat
         /\ ItemValues(Stack) = Values(Stack, Base + Len(handle))
  <1>1. PICK s, n, b, h : s = Stack /\ n = Len(s) /\ b = Base /\ h = handle
    OBVIOUS
  <1>2. ItemsOK(s) /\ n \in Nat \ {0} /\ b \in 1..n /\ b \in 0..n /\ IsSeq(s)
    BY <1>1, BaseFacts DEF ItemsOK
  <1>3. PICK S : s \in Seq(S)
    BY <1>2 DEF IsSeq
  <1>4. h = SubSeq(s, b + 1, n)
    BY <1>1 DEF handle
  <1>5. Len(h) = n - b /\ \A i \in 1..(n - b) : h[i] = s[b + i]
    <2>1. \A i \in (b + 1)..n : s[i] \in S
      BY <1>1, <1>2, <1>3, ElementOfSeq
    <2>2. b + 1 \in Int /\ n \in Int
      BY <1>2
    <2>3. /\ Len(h) = IF b + 1 <= n THEN n - (b + 1) + 1 ELSE 0
          /\ \A i \in 1 .. n - (b + 1) + 1 : h[i] = s[(b + 1) + i - 1]
      BY <1>4, <2>1, <2>2, SubSeqProperties
    <2>4. n - (b + 1) + 1 = n - b /\ (b + 1 <= n \/ n - b = 0)
      BY <1>2
    <2>5. \A i \in 1..(n - b) : (b + 1) + i - 1 = b + i
      BY <1>2
    <2> QED
      BY <2>3, <2>4, <2>5
  <1>6. ASSUME NEW i \in 1..Len(h)
        PROVE  IsItem(h[i]) /\ Values(s, b + i) = Values(s, (b + i) - 1) + h[i].n
    <2>1. b + i \in 1..n /\ i \in 1..(n - b)
      BY <1>2, <1>5
    <2>2. h[i] = s[b + i]
      BY <1>5, <2>1
    <2>3. IsItem(s[b + i])
      BY <1>1, <1>2, <2>1 DEF ItemsOK
    <2>4. Values(s, b + i) = Values(s, (b + i) - 1) + s[b + i].n
      BY <1>1, <1>2, <2>1, ValuesFacts
    <2> QED
      BY <2>2, <2>3, <2>4
  <1>7. ItemValues(s) = Values(s, n) /\ b + Len(h) = n /\ Values(s, b) \in Nat
    BY <1>1, <1>2, <1>5, ValuesFacts
  <1> QED
    BY <1>1, <1>5, <1>6, <1>7

(* What a rule takes from the data stack goes with its handle.             *)
LEMMA RuleRuns ==
  ASSUME Good(contexts, machine, text), Top.kind = "parse",
         BinaryRule \/ UnaryRule \/ IdRule, NEW m, IsMachine(m)
  PROVE  \E d \in Int : /\ Runs(m, Emitted(m), d)
                        /\ ItemValues(Stack) + d = Values(Stack, Base) + 1
  <1>1. PICK s, b, h : s = Stack /\ b = Base /\ h = handle
    OBVIOUS
  <1>2. ItemsOK(Stack)
    BY StackFacts
  <1>3. /\ \A i \in 1..Len(h) : h[i] = s[b + i] /\ IsItem(h[i])
        /\ \A i \in 1..Len(h) : Values(s, b + i) = Values(s, (b + i) - 1) + h[i].n
        /\ Values(s, b) \in Nat
        /\ ItemValues(s) = Values(s, b + Len(h))
        /\ Len(h) = Len(s) - b
    BY <1>1, <1>2, HandleFacts
  <1>4. b \in 1..Len(s) /\ Len(s) \in Nat
    BY <1>1, <1>2, BaseFacts DEF ItemsOK
  <1>5. ASSUME NEW i \in 1..Len(h)
        PROVE  /\ h[i].type = "EXPR" => h[i].n = 1
               /\ h[i].type = "TOKEN" => h[i].n = 0
    <2>1. b + i \in 1..Len(s)
      BY <1>3, <1>4
    <2>2. h[i].type = "EXPR" => h[i].n = 1
      BY <1>1, <1>3, <2>1, StackFacts
    <2>3. h[i].type = "TOKEN" => h[i].n = 0
      BY <1>3 DEF IsItem
    <2> QED
      BY <2>2, <2>3
  <1>6. CASE BinaryRule
    <2>1. /\ Len(h) = 3 /\ 1 \in 1..3 /\ 2 \in 1..3 /\ 3 \in 1..3
          /\ h[1].type = "EXPR" /\ h[2].type = "TOKEN" /\ h[3].type = "EXPR"
      BY <1>1, <1>6 DEF BinaryRule, BeginsBinary, IsExpr, HasOp
    <2>2. h[1].n = 1 /\ h[2].n = 0 /\ h[3].n = 1
      BY <1>5, <2>1
    <2>3. /\ Values(s, b + 1) = Values(s, (b + 1) - 1) + 1
          /\ Values(s, b + 2) = Values(s, (b + 2) - 1) + 0
          /\ Values(s, b + 3) = Values(s, (b + 3) - 1) + 1
      BY <1>3, <2>1, <2>2
    <2>4. (b + 1) - 1 = b /\ (b + 2) - 1 = b + 1 /\ (b + 3) - 1 = b + 2
      BY <1>4
    <2>5. ItemValues(s) = Values(s, b) + 2
      <3>1. ItemValues(s) = Values(s, b + 3)
        BY <1>3, <2>1
      <3>2. /\ Values(s, b + 1) = Values(s, b) + 1 /\ Values(s, b + 2) = Values(s, b + 1) + 0
            /\ Values(s, b + 3) = Values(s, b + 2) + 1
        BY <2>3, <2>4
      <3>3. Values(s, b) \in Nat
        BY <1>3
      <3> QED
        BY <3>1, <3>2, <3>3
    <2>6. Emitted(m) = expression_binary(m, handle[2].op)
      <3>1. ~ UnaryRule /\ ~ IdRule
        BY <1>1, <2>1 DEF UnaryRule, IdRule
      <3> QED
        BY <1>6, <3>1 DEF Emitted
    <2>7. Runs(m, Emitted(m), -1)
      BY <2>6, BinaryRuns
    <2>8. -1 \in Int /\ ItemValues(s) + (-1) = Values(s, b) + 1
      BY <1>3, <2>5
    <2> QED
      BY <1>1, <2>7, <2>8
  <1>7. CASE UnaryRule
    <2>1. /\ Len(h) = 2 /\ 1 \in 1..2 /\ 2 \in 1..2
          /\ h[1].type = "TOKEN" /\ h[2].type = "EXPR"
      BY <1>1, <1>7 DEF UnaryRule, BeginsUnary, IsExpr, HasOp
    <2>2. h[1].n = 0 /\ h[2].n = 1
      BY <1>5, <2>1
    <2>3. /\ Values(s, b + 1) = Values(s, (b + 1) - 1) + 0
          /\ Values(s, b + 2) = Values(s, (b + 2) - 1) + 1
      BY <1>3, <2>1, <2>2
    <2>4. (b + 1) - 1 = b /\ (b + 2) - 1 = b + 1
      BY <1>4
    <2>5. ItemValues(s) = Values(s, b) + 1
      <3>1. ItemValues(s) = Values(s, b + 2)
        BY <1>3, <2>1
      <3>2. Values(s, b + 1) = Values(s, b) + 0 /\ Values(s, b + 2) = Values(s, b + 1) + 1
        BY <2>3, <2>4
      <3>3. Values(s, b) \in Nat
        BY <1>3
      <3> QED
        BY <3>1, <3>2, <3>3
    <2>6. Emitted(m) = expression_unary(m, handle[1].op)
      <3>1. ~ BinaryRule /\ ~ IdRule
        BY <1>1, <2>1 DEF BinaryRule, IdRule
      <3> QED
        BY <1>7, <3>1 DEF Emitted
    <2>7. Runs(m, Emitted(m), 0)
      BY <2>6, UnaryRuns
    <2>8. 0 \in Int /\ ItemValues(s) + 0 = Values(s, b) + 1
      BY <1>3, <2>5
    <2> QED
      BY <1>1, <2>7, <2>8
  <1>8. CASE IdRule
    <2>1. Len(h) = 1 /\ 1 \in 1..1 /\ h[1].type = "TOKEN"
      BY <1>1, <1>8 DEF IdRule, BeginsId, HasOp
    <2>2. h[1].n = 0
      BY <1>5, <2>1
    <2>3. Values(s, b + 1) = Values(s, (b + 1) - 1) + 0
      BY <1>3, <2>1, <2>2
    <2>4. (b + 1) - 1 = b
      BY <1>4
    <2>5. ItemValues(s) = Values(s, b)
      <3>1. ItemValues(s) = Values(s, b + 1)
        BY <1>3, <2>1
      <3>2. Values(s, b + 1) = Values(s, b) + 0
        BY <2>3, <2>4
      <3>3. Values(s, b) \in Nat
        BY <1>3
      <3> QED
        BY <3>1, <3>2, <3>3
    <2>6. Emitted(m) = PUSHS(m, Value(handle[1].at))
      <3>1. ~ BinaryRule /\ ~ UnaryRule
        BY <1>1, <2>1 DEF BinaryRule, UnaryRule
      <3> QED
        BY <1>8, <3>1 DEF Emitted
    <2>7. Runs(m, Emitted(m), 1)
      BY <2>6, PushRuns
    <2>8. 1 \in Int /\ ItemValues(s) + 1 = Values(s, b) + 1
      BY <2>5
    <2> QED
      BY <1>1, <2>7, <2>8
  <1> QED
    BY <1>6, <1>7, <1>8

(* After a reduction nothing is read that could begin an operand.          *)
LEMMA ReducedToken ==
  ASSUME Good(contexts, machine, text), Separated(text), Reduces
  PROVE  IF hard_reduce THEN Tok \in Names ELSE Tok # "(" /\ Tok \notin Names
  <1>1. Top.kind = "parse" /\ (Top.parsed = "none" => Tok # "(")
    BY DEF Reduces, Decides, Parsing
  <1>2. TokOK(Top, text)
    BY <1>1, ParseTop
  <1>3. CASE hard_reduce
    <2>1. Top.hard => Tok \in Names
      BY <1>1, <1>2 DEF TokOK, Tok, At
    <2> QED
      BY <1>3, <2>1 DEF hard_reduce, expression_end
  <1>4. CASE ~ hard_reduce
    <2>1. cmp > 0
      BY <1>4 DEF Reduces
    <2>2. Tok \notin Names
      <3>1. ASSUME Tok \in Names PROVE FALSE
        <4>1. g(second_op) = 13
          BY <3>1, OperatorFacts, PriorityFacts
        <4>2. f(first_op) \in 0..12
          BY PriorityFacts
        <4> QED
          BY <2>1, <4>1, <4>2 DEF cmp
      <3> QED
        BY <3>1
    <2>3. Tok # "("
      <3>1. ASSUME Tok = "(" PROVE FALSE
        <4>1. Len(text) > 1 /\ text[Len(text) - 1] = ")"
          BY <1>1, <1>2, <3>1 DEF TokOK
        <4>2. PICK k : k = Len(text) - 1
          OBVIOUS
        <4>3. k \in 1..(Len(text) - 1) /\ k + 1 = Len(text)
          BY <4>1, <4>2 DEF Good, IsText
        <4>4. text[k] = ")" /\ text[k + 1] = "("
          BY <3>1, <4>1, <4>2, <4>3 DEF Tok, At
        <4> QED
          BY <4>3, <4>4 DEF Separated
      <3> QED
        BY <3>1
    <2> QED
      BY <1>4, <2>2, <2>3
  <1> QED
    BY <1>3, <1>4

LEMMA ReduceStep ==
  ASSUME Inv, Separated(text), reduce
  PROVE  Inv'
  <1>1. /\ Good(contexts, machine, text) /\ Top.kind = "parse" /\ Reduces
        /\ BinaryRule \/ UnaryRule \/ IdRule
    BY DEF Inv, reduce, Reduces, Decides, Parsing
  <1>2. PICK t : t = kept \o <<Expr(1)>>
    OBVIOUS
  <1>3. PICK v : v = Values(Stack, Base)
    OBVIOUS
  <1>4. /\ ItemsOK(t) /\ Rested(t) /\ t[Len(t)].type = "EXPR" /\ t[Len(t)].n = 1
        /\ v \in Nat /\ ItemValues(t) = v + 1
    <2>1. ItemsOK(Stack)
      BY <1>1, StackFacts
    <2> QED
      BY <1>2, <1>3, <2>1, KeptFacts
  <1>5. PICK h \in BOOLEAN : h = hard_reduce
    BY DEF hard_reduce
  <1>6. PICK c : c = Goes(t, h)
    OBVIOUS
  <1>7. /\ ContextOK(c) /\ c.kind = "parse" /\ Held(c) = v + 1
        /\ c.hard = h /\ c.parsed = "none"
    BY <1>1, <1>4, <1>5, <1>6, GoesFacts
  <1>8. PICK e : e = IF HasExpr THEN 1 - Upper.n ELSE 0
    OBVIOUS
  <1>9. /\ Upper.n \in Nat /\ IsMachine(machine)
        /\ HasExpr /\ Upper.n = 0 => Top.parsed = "function"
    BY <1>1, ParseTop
  <1>10. PICK k : k = AsOperand(machine)
    OBVIOUS
  <1>11. Runs(machine, k, e) /\ e \in Int
    BY <1>8, <1>9, <1>10, OperandRuns
  <1>12. PICK m : m = Emitted(k)
    OBVIOUS
  <1>13. PICK d \in Int : Runs(k, m, d) /\ ItemValues(Stack) + d = v + 1
    <2>1. IsMachine(k)
      BY <1>11 DEF Runs
    <2> QED
      BY <1>1, <1>3, <1>12, <2>1, RuleRuns
  <1>14. PICK x : x = e + d
    OBVIOUS
  <1>15. Runs(machine, m, x) /\ x \in Int
    BY <1>9, <1>11, <1>13, <1>14, RunsThrough
  <1>16. Held(c) = Held(Top) + x
    <2>1. ItemValues(Stack) = ItemValues(Rest) + (IF HasExpr THEN 1 ELSE 0)
      BY <1>1, StackFacts
    <2>2. /\ Held(Top) = ItemValues(Rest) + (IF HasExpr THEN Upper.n ELSE 0)
          /\ ItemValues(Rest) \in Nat
      BY <1>1, RestFacts
    <2>3. ItemValues(Stack) + d = v + 1 /\ x = e + d /\ Held(c) = v + 1 /\ d \in Int
      BY <1>7, <1>13, <1>14
    <2> QED
      BY <1>8, <1>9, <2>1, <2>2, <2>3
  <1>17. TokOK(c, text)
    <2>1. IF hard_reduce THEN Tok \in Names ELSE Tok # "(" /\ Tok \notin Names
      BY <1>1, ReducedToken
    <2> QED
      BY <1>5, <1>7, <2>1 DEF TokOK, Tok, At
  <1>18. Good(Replace(c), m, text)
    <2>1. IsText(text)
      BY <1>1 DEF Good
    <2> QED
      BY <1>1, <1>7, <1>15, <1>16, <1>17, <2>1, Replacing
  <1>19. Silently(Replace(c), m)
    BY <1>2, <1>5, <1>6, <1>10, <1>12 DEF reduce
  <1> QED
    BY <1>18, <1>19, Keeping

(***************************************************************************)
(* Values for who has waited.                                              *)
(***************************************************************************)
LEMMA PushedFacts ==
  ASSUME NEW c, ParseOK(c), c.parsed = "none", TopItem(c).type # "EXPR",
         NEW n \in Nat, NEW how \in {"parents", "function"}, how = "parents" => n # 0,
         NEW b, b = Pushed(c, n, how)
  PROVE  /\ ContextOK(b) /\ b.kind = "parse" /\ Held(b) = Held(c) + n
         /\ ~ b.hard /\ b.parsed = how
  <1>1. PICK i, h, p : c = ParseRecord(i, h, p)
    BY DEF ParseOK
  <1>2. c.items = i /\ c.hard = h
    BY <1>1, RecordFacts
  <1>3. ItemsOK(i) /\ Rested(i) /\ i[Len(i)].type # "EXPR" /\ h \in BOOLEAN /\ ~ h
    BY <1>2 DEF ParseOK, TopItem
  <1>4. PICK x : x = Expr(n)
    OBVIOUS
  <1>5. IsItem(x) /\ x.type = "EXPR" /\ x.n = n
    BY <1>4, ItemFacts
  <1>6. PICK s : s = Append(i, x)
    OBVIOUS
  <1>7. Changed(s, i, Len(i), x)
    BY <1>3, <1>6, AppendChanges DEF ItemsOK
  <1>8. CanFollow(i[Len(i)], x)
    BY <1>3, <1>5 DEF CanFollow
  <1>9. /\ ItemsOK(s) /\ ItemValues(s) = ItemValues(i) + x.n /\ Len(s) = Len(i) + 1
        /\ s[Len(s)] = x /\ s[Len(s) - 1] = i[Len(i)]
    BY <1>3, <1>5, <1>7, <1>8, ItemsAppend
  <1>10. Rested(s)
    <2>1. Len(s) > 1
      BY <1>3, <1>9 DEF ItemsOK
    <2>2. i[Len(i)].type \in {"DOLLAR", "TOKEN"}
      BY <1>3 DEF Rested
    <2> QED
      BY <1>5, <1>9, <2>1, <2>2 DEF Rested
  <1>11. b = ParseRecord(s, h, how)
    <2>1. b = [c EXCEPT !.items = Append(c.items, Expr(n)), !.parsed = how]
      BY DEF Pushed
    <2>2. b = [c EXCEPT !.items = s, !.parsed = how]
      BY <1>2, <1>4, <1>6, <2>1
    <2> QED
      BY <1>1, <2>2, PushedUpdate DEF ParseRecord
  <1>12. b.kind = "parse" /\ b.items = s /\ b.hard = h /\ b.parsed = how
    BY <1>11, RecordFacts
  <1>13. TopItem(b) = x
    BY <1>9, <1>12 DEF TopItem
  <1>14. ParseOK(b)
    BY <1>3, <1>5, <1>9, <1>10, <1>11, <1>12, <1>13 DEF ParseOK
  <1>15. Held(b) = ItemValues(s) /\ Held(c) = ItemValues(i)
    BY <1>2, <1>12, <1>14, ContextFacts
  <1> QED
    BY <1>3, <1>5, <1>9, <1>12, <1>14, <1>15 DEF ContextOK

(* When an expression is complete all its values are on the data stack.    *)
LEMMA ReceivedFacts ==
  ASSUME Good(contexts, machine, text), Top.kind = "parse", parse_success, Received > 0
  PROVE  /\ Received \in Nat /\ Held(Top) \in Nat
         /\ Runs(machine, WithNil(machine), Received - Held(Top))
  <1>1. HasExpr
    BY DEF Received
  <1>2. /\ Upper.n \in Nat /\ IsMachine(machine)
        /\ HasExpr /\ Upper.n = 0 => Top.parsed = "function"
    BY ParseTop
  <1>3. Received = NumValues(Upper.n)
    BY <1>1 DEF Received
  <1>4. Held(Top) = Upper.n
    <2>1. first_op = "$"
      BY DEF parse_success
    <2>2. ItemValues(Rest) = 0 /\ Held(Top) = ItemValues(Rest) + Upper.n
      BY <1>1, <2>1, RestFacts
    <2> QED
      BY <1>2, <2>2
  <1>5. Runs(machine, WithNil(machine), NumValues(Upper.n) - Upper.n)
    BY <1>1, <1>2, NilRuns
  <1>6. NumValues(Upper.n) \in Nat
    BY <1>2 DEF NumValues
  <1> QED
    BY <1>2, <1>3, <1>4, <1>5, <1>6

LEMMA ParensEndStep ==
  ASSUME Inv, parse_parents_end
  PROVE  Inv'
  <1>1. /\ Good(contexts, machine, text) /\ Top.kind = "parse" /\ parse_success
        /\ Caller.kind = "parse"
    BY DEF Inv, parse_parents_end, Decides, Parsing
  <1>2. CASE ~ (Received > 0 /\ Tok = ")")
    <2>1. Reject(SYNTAX)
      BY <1>2 DEF parse_parents_end
    <2> QED
      BY <2>1, Ending
  <1>3. CASE Received > 0 /\ Tok = ")"
    <2>1. PICK n, b, m : /\ n = Received /\ b = Pushed(Caller, n, "parents")
                         /\ m = WithNil(machine)
      OBVIOUS
    <2>2. Expected(Return(b), m)
      BY <1>3, <2>1 DEF parse_parents_end
    <2>3. n \in Nat /\ n # 0 /\ Held(Top) \in Nat /\ Runs(machine, m, n - Held(Top))
      BY <1>1, <1>3, <2>1, ReceivedFacts
    <2>4. /\ ParseOK(Caller) /\ Caller.parsed = "none" /\ TopItem(Caller).type # "EXPR"
          /\ Len(contexts) > 1 /\ Held(Caller) \in Nat
      <3>1. ContextOK(Caller) /\ Waits(Caller, Top) /\ Len(contexts) > 1
        BY <1>1, ParseTop
      <3>2. ParseOK(Caller)
        BY <1>1, <3>1, ContextFacts DEF ContextOK
      <3> QED
        BY <1>1, <3>1, <3>2, ContextFacts DEF Waits
    <2>5. /\ ContextOK(b) /\ b.kind = Caller.kind /\ Held(b) = Held(Caller) + n
          /\ ~ b.hard /\ b.parsed = "parents"
      BY <1>1, <2>1, <2>3, <2>4, PushedFacts
    <2>6. PICK d : d = n - Held(Top)
      OBVIOUS
    <2>7. d \in Int /\ Runs(machine, m, d) /\ Held(b) = Held(Caller) + Held(Top) + d
      BY <2>3, <2>4, <2>5, <2>6
    <2>8. ASSUME NEW x PROVE Good(Return(b), m, Append(text, x))
      <3>1. PICK t : t = Append(text, x)
        OBVIOUS
      <3>2. IsText(t) /\ Len(t) > 1 /\ t[Len(t) - 1] = ")"
        BY <1>1, <1>3, <3>1, TextNext DEF Good
      <3>3. TokOK(b, t)
        BY <2>5, <3>2 DEF TokOK
      <3>4. Good(Return(b), m, t)
        BY <1>1, <2>4, <2>5, <2>7, <3>2, <3>3, Returning
      <3> QED
        BY <3>1, <3>4
    <2> QED
      BY <2>2, <2>8, Expecting
  <1> QED
    BY <1>2, <1>3

LEMMA LastFacts ==
  ASSUME NEW c, OtherOK(c), c.last = 0, c.kind \notin {"function", "global"},
         NEW n \in Nat, NEW b, b = [c EXCEPT !.last = n]
  PROVE  ContextOK(b) /\ b.kind = c.kind /\ b.kind # "parse" /\ Held(b) = Held(c) + n
  <1>1. PICK k, u, i, j, l : c = OtherRecord(k, u, i, j, l)
    BY DEF OtherOK
  <1>2. b = OtherRecord(k, u, i, j, n)
    BY <1>1, LastUpdate DEF OtherRecord
  <1>3. /\ b.kind = k /\ b.fun = u /\ b.ids = i /\ b.cnt = j /\ b.last = n
        /\ c.kind = k /\ c.cnt = j /\ c.fun = u
    BY <1>1, <1>2, RecordFacts
  <1>4. OtherOK(b)
    BY <1>2, <1>3 DEF OtherOK
  <1>5. j \in Nat
    BY <1>3 DEF OtherOK
  <1>6. Held(b) = IF b.kind = "assign" THEN b.cnt + b.last ELSE b.last
    BY <1>4, ContextFacts
  <1>7. Held(c) = IF c.kind = "assign" THEN c.cnt + c.last ELSE c.last
    BY ContextFacts
  <1>8. Held(b) = Held(c) + n
    <2>1. Held(b) = (IF k = "assign" THEN j + n ELSE n) /\ Held(c) = IF k = "assign" THEN j + 0 ELSE 0
      BY <1>3, <1>6, <1>7
    <2> QED
      BY <1>5, <2>1
  <1>9. b.kind # "parse"
    BY <1>4, ContextFacts
  <1> QED
    BY <1>3, <1>4, <1>8, <1>9 DEF ContextOK

LEMMA InitEndStep ==
  ASSUME Inv, parse_init_end
  PROVE  Inv'
  <1>1. /\ Good(contexts, machine, text) /\ Top.kind = "parse" /\ parse_success
        /\ Caller.kind # "parse"
    BY DEF Inv, parse_init_end, Decides, Parsing
  <1>2. CASE ~ (Received > 0)
    <2>1. (\E m : Accept(m)) \/ (\E e : Reject(e))
      BY <1>2 DEF parse_init_end
    <2> QED
      BY <2>1, Ending
  <1>3. CASE Received > 0
    <2>1. PICK n, b, m : /\ n = Received /\ b = [Caller EXCEPT !.last = n]
                         /\ m = WithNil(machine)
      OBVIOUS
    <2>2. Silently(Return(b), m)
      BY <1>3, <2>1 DEF parse_init_end
    <2>3. n \in Nat /\ Held(Top) \in Nat /\ Runs(machine, m, n - Held(Top))
      BY <1>1, <1>3, <2>1, ReceivedFacts
    <2>4. /\ OtherOK(Caller) /\ Caller.last = 0 /\ Caller.kind \notin {"function", "global"}
          /\ Len(contexts) > 1 /\ Held(Caller) \in Nat
      <3>1. ContextOK(Caller) /\ Waits(Caller, Top) /\ Len(contexts) > 1
        BY <1>1, ParseTop
      <3>2. OtherOK(Caller)
        BY <1>1, <3>1, ContextFacts DEF ContextOK
      <3> QED
        BY <1>1, <3>1, <3>2, ContextFacts DEF Waits
    <2>5. /\ ContextOK(b) /\ b.kind = Caller.kind /\ Held(b) = Held(Caller) + n
          /\ b.kind # "parse"
      BY <2>1, <2>3, <2>4, LastFacts
    <2>6. PICK d : d = n - Held(Top)
      OBVIOUS
    <2>7. d \in Int /\ Runs(machine, m, d) /\ Held(b) = Held(Caller) + Held(Top) + d
      BY <2>3, <2>4, <2>5, <2>6
    <2>8. IsText(text) /\ TokOK(b, text)
      BY <1>1, <2>5 DEF Good, TokOK
    <2>9. Good(Return(b), m, text)
      BY <1>1, <2>4, <2>5, <2>7, <2>8, Returning
    <2> QED
      BY <2>2, <2>9, Keeping
  <1> QED
    BY <1>2, <1>3

(***************************************************************************)
(* The steps of calls.                                                     *)
(***************************************************************************)
LEMMA TextOver ==
  ASSUME IsText(text), NEW x, NEW y
  PROVE  IsText(text \o <<x, y>>)
  <1>1. PICK S : text \in Seq(S)
    BY DEF IsText, IsSeq
  <1> DEFINE T == S \union {x, y}
  <1>2. text \in Seq(T) /\ <<x, y>> \in Seq(T) /\ Len(text) \in Nat \ {0}
    BY <1>1 DEF IsText
  <1> HIDE DEF T
  <1>3. text \o <<x, y>> \in Seq(T) /\ Len(text \o <<x, y>>) = Len(text) + Len(<<x, y>>)
    BY <1>2, ConcatProperties
  <1>4. Len(<<x, y>>) = 2
    OBVIOUS
  <1> QED
    BY <1>2, <1>3, <1>4 DEF IsText, IsSeq

LEMMA OtherTop ==
  ASSUME Good(contexts, machine, text), Top.kind # "parse"
  PROVE  /\ OtherOK(Top) /\ Top.cnt \in Nat /\ Top.last \in Nat
         /\ Held(Top) = IF Top.kind = "assign" THEN Top.cnt + Top.last ELSE Top.last
         /\ IsMachine(machine) /\ IsText(text)
         /\ Top.kind = "call" => /\ Len(contexts) > 1 /\ ContextOK(Caller)
                                 /\ Waits(Caller, Top) /\ Held(Caller) \in Nat
  <1>1. PICK n : n = Len(contexts)
    OBVIOUS
  <1>2. /\ n \in Nat \ {0} /\ ContextOK(Top)
        /\ n > 1 => ContextOK(Caller) /\ Waits(Caller, Top) /\ Held(Caller) \in Nat
        /\ n = 1 => Top.kind \notin {"parse", "call"}
    BY <1>1, TopFacts DEF Good
  <1>3. OtherOK(Top)
    BY <1>2, ContextFacts DEF ContextOK
  <1>4. Top.kind = "call" => n > 1
    <2>1. n \in Nat \ {0} /\ (n = 1 => Top.kind # "call")
      BY <1>2
    <2> QED
      BY <2>1
  <1>5. Top.cnt \in Nat /\ Top.last \in Nat
    BY <1>3 DEF OtherOK
  <1> QED
    BY <1>1, <1>2, <1>3, <1>4, <1>5, ContextFacts DEF Good

LEMMA ContextsAreNew ==
  ASSUME NEW kind \in {"call", "default", "return", "function", "global", "assign"},
         NEW u, kind = "call" => u \in DOMAIN Functions, NEW i,
         NEW c, c = Context(kind, u, i)
  PROVE  /\ ContextOK(c) /\ c.kind = kind /\ c.last = 0 /\ Held(c) = 0
         /\ \A t : TokOK(c, t)
  <1>1. c = OtherRecord(kind, u, i, 0, 0)
    BY DEF Context, OtherRecord
  <1>2. c.kind = kind /\ c.fun = u /\ c.ids = i /\ c.cnt = 0 /\ c.last = 0
    BY <1>1, RecordFacts
  <1>3. OtherOK(c)
    BY <1>1, <1>2 DEF OtherOK
  <1>4. Held(c) = IF c.kind = "assign" THEN c.cnt + c.last ELSE c.last
    BY <1>3, ContextFacts
  <1>5. Held(c) = 0
    BY <1>2, <1>4
  <1> QED
    BY <1>2, <1>3, <1>5 DEF ContextOK, TokOK

LEMMA CallStep ==
  ASSUME Inv, func_call_begin
  PROVE  Inv'
  <1>1. /\ Good(contexts, machine, text) /\ Tok \in DOMAIN Functions /\ Calls
    BY DEF Inv, func_call_begin, Calls, Parsing
  <1>2. CASE \E e : Reject(e)
    BY <1>2, Ending
  <1>3. CASE AdvanceOver("(") /\ Proceed(Push(Context("call", Tok, <<>>)),
               IF Tok = Write THEN machine ELSE CREATEFRAME(machine))
    <2>1. PICK c, m, y : /\ c = Context("call", Tok, <<>>)
                         /\ m = IF Tok = Write THEN machine ELSE CREATEFRAME(machine)
                         /\ text' = text \o <<"(", y>>
                         /\ contexts' = Push(c) /\ machine' = m
      BY <1>3 DEF AdvanceOver, Proceed
    <2>2. ContextOK(c) /\ c.kind = "call" /\ Held(c) = 0 /\ \A t : TokOK(c, t)
      BY <1>1, <2>1, ContextsAreNew
    <2>3. Waits(Top, c)
      <3>1. CASE Top.kind # "parse"
        BY <2>2, <3>1 DEF Waits
      <3>2. CASE Top.kind = "parse"
        <4>1. AsksForName
          BY <1>1, <3>2 DEF Calls, Parsing
        <4>2. Top.parsed = "none" /\ ~ Top.hard /\ Tok \in Names
          BY <4>1 DEF AsksForName
        <4>3. TokOK(Top, text)
          BY <1>1, <3>2, ParseTop
        <4>4. TopItem(Top).type # "EXPR"
          BY <3>2, <4>2, <4>3 DEF TokOK, Tok, At
        <4> QED
          BY <3>2, <4>2, <4>4 DEF Waits
      <3> QED
        BY <3>1, <3>2
    <2>4. Runs(machine, m, 0)
      BY <1>1, <2>1, FrameRuns, RunsFacts DEF Good
    <2>5. PICK t : t = text \o <<"(", y>>
      OBVIOUS
    <2>6. IsText(t) /\ TokOK(c, t)
      BY <1>1, <2>2, <2>5, TextOver DEF Good
    <2>7. Good(Push(c), m, t)
      BY <1>1, <2>2, <2>3, <2>4, <2>6, Pushing DEF Push, Top
    <2> QED
      BY <2>1, <2>5, <2>7 DEF Inv
  <1> QED
    BY <1>2, <1>3 DEF func_call_begin

(* The call itself leaves the data stack alone; what it returns is pushed. *)
LEMMA EndCalls ==
  ASSUME Good(contexts, machine, text), Top.kind = "call", Tok = ")",
         NEW m, Runs(machine, m, 0 - Top.last), EndCall(m)
  PROVE  Inv'
  <1>1. /\ OtherOK(Top) /\ Top.last \in Nat /\ Held(Top) = Top.last
        /\ Len(contexts) > 1 /\ ContextOK(Caller) /\ Waits(Caller, Top)
        /\ Held(Caller) \in Nat /\ IsMachine(machine) /\ IsText(text)
    BY OtherTop
  <1>2. PICK called, n : /\ called = IF Top.fun = Write THEN m ELSE func_call(m, Top.fun)
                         /\ n = Functions[Top.fun].returns
    OBVIOUS
  <1>3. CASE Caller.kind # "parse"
    <2>1. (\E k : Accept(k)) \/ (\E e : Reject(e))
      BY <1>3 DEF EndCall
    <2> QED
      BY <2>1, Ending
  <1>4. CASE Caller.kind = "parse"
    <2>1. PICK b, k, d : /\ b = Pushed(Caller, n, "function")
                         /\ k = func_call_return_values(called, n)
                         /\ d = n - Top.last
      OBVIOUS
    <2>2. Expected(Return(b), k)
      BY <1>2, <1>4, <2>1 DEF EndCall
    <2>3. n \in Nat
      BY <1>1, <1>2, FunctionsAssumption DEF OtherOK
    <2>4. ParseOK(Caller) /\ Caller.parsed = "none" /\ TopItem(Caller).type # "EXPR"
      BY <1>1, <1>4, ContextFacts DEF ContextOK, Waits
    <2>5. /\ ContextOK(b) /\ b.kind = "parse" /\ Held(b) = Held(Caller) + n
          /\ ~ b.hard /\ b.parsed = "function"
      BY <2>1, <2>3, <2>4, PushedFacts
    <2>6. Runs(m, called, 0) /\ IsMachine(called)
      <3>1. IsMachine(m)
        BY DEF Runs
      <3> QED
        BY <1>2, <3>1, CallRuns, RunsFacts DEF Runs
    <2>7. Runs(called, k, n)
      BY <2>1, <2>3, <2>6, ReturnedRuns
    <2>8. Runs(machine, k, d) /\ d \in Int
      <3>1. PICK l \in Nat : l = Top.last
        BY <1>1
      <3>2. 0 - l \in Int /\ 0 - l = (0 - l) + 0 /\ d = (0 - l) + n /\ d \in Int
        BY <2>1, <2>3, <3>1
      <3>3. Runs(machine, called, 0 - l)
        BY <1>1, <2>6, <3>1, <3>2, RunsThrough
      <3> QED
        BY <1>1, <2>3, <2>7, <3>2, <3>3, RunsThrough
    <2>9. Held(b) = Held(Caller) + Held(Top) + d
      BY <1>1, <2>1, <2>3, <2>5
    <2>10. ASSUME NEW x PROVE Good(Return(b), k, Append(text, x))
      <3>1. PICK t : t = Append(text, x)
        OBVIOUS
      <3>2. IsText(t) /\ Len(t) > 1 /\ t[Len(t) - 1] = ")"
        BY <1>1, <3>1, TextNext
      <3>3. TokOK(b, t)
        BY <2>5, <3>2 DEF TokOK
      <3>4. Good(Return(b), k, t)
        BY <1>1, <1>4, <2>5, <2>8, <2>9, <3>2, <3>3, Returning
      <3> QED
        BY <3>1, <3>4
    <2> QED
      BY <2>2, <2>10, Expecting
  <1> QED
    BY <1>3, <1>4

(* Another expression follows; what the last one left has been used.       *)
LEMMA NextExprs ==
  ASSUME Good(contexts, machine, text), Top.kind \in {"call", "return", "assign"},
         NEW m, Runs(machine, m, (IF Top.kind = "assign" THEN 1 ELSE 0) - Top.last),
         NextExpr(m)
  PROVE  Inv'
  <1>1. /\ OtherOK(Top) /\ Top.last \in Nat /\ Top.cnt \in Nat
        /\ Held(Top) = IF Top.kind = "assign" THEN Top.cnt + Top.last ELSE Top.last
        /\ IsMachine(machine) /\ IsText(text)
    BY OtherTop
  <1>2. PICK k, u, i, j, l : Top = OtherRecord(k, u, i, j, l)
    BY <1>1 DEF OtherOK
  <1>3. PICK b, j1 : b = [Top EXCEPT !.cnt = j1, !.last = 0] /\ j1 = Top.cnt + 1
    OBVIOUS
  <1>4. b = OtherRecord(k, u, i, j1, 0)
    BY <1>2, <1>3, CountUpdate DEF OtherRecord
  <1>5. /\ b.kind = k /\ b.fun = u /\ b.ids = i /\ b.cnt = j1 /\ b.last = 0
        /\ Top.kind = k /\ Top.fun = u /\ Top.cnt = j /\ Top.last = l
    BY <1>2, <1>4, RecordFacts
  <1>6. j \in Nat /\ l \in Nat /\ j1 = j + 1
    BY <1>1, <1>3, <1>5
  <1>7. OtherOK(b)
    BY <1>1, <1>4, <1>5, <1>6 DEF OtherOK
  <1>8. PICK d : d = (IF Top.kind = "assign" THEN 1 ELSE 0) - l
    OBVIOUS
  <1>9. d \in Int /\ Runs(machine, m, d) /\ Held(b) = Held(Top) + d
    <2>1. Held(b) = IF k = "assign" THEN j1 + 0 ELSE 0
      BY <1>5, <1>7, ContextFacts
    <2>2. Held(Top) = IF k = "assign" THEN j + l ELSE l
      BY <1>1, <1>5
    <2>3. d = IF k = "assign" THEN 1 - l ELSE 0 - l
      BY <1>5, <1>8
    <2>4. d \in Int /\ Held(b) = Held(Top) + d
      BY <1>6, <2>1, <2>2, <2>3
    <2> QED
      BY <1>5, <1>8, <2>4
  <1>10. ContextOK(b) /\ b.kind # "parse" /\ b.kind = Top.kind /\ \A t : TokOK(b, t)
    BY <1>5, <1>7, ContextFacts DEF ContextOK, TokOK
  <1>11. PICK cs, c : cs = Replace(b) /\ c = NewParse
    OBVIOUS
  <1>12. ASSUME NEW x PROVE Good(Append(cs, c), m, Append(text, x))
    <2>1. PICK t : t = Append(text, x)
      OBVIOUS
    <2>2. IsText(t) /\ TokOK(b, t)
      BY <1>1, <1>10, <2>1, TextNext
    <2>3. Good(cs, m, t) /\ cs[Len(cs)] = b
      BY <1>9, <1>10, <1>11, <2>2, Replacing
    <2>4. ContextOK(c) /\ c.kind = "parse" /\ Held(c) = 0 /\ TokOK(c, t)
      BY <1>11, NewParseFacts
    <2>5. Waits(b, c)
      BY <1>5, <1>10 DEF Waits
    <2>6. Runs(m, m, 0)
      BY <1>9, RunsFacts DEF Runs
    <2>7. Good(Append(cs, c), m, t)
      BY <2>2, <2>3, <2>4, <2>5, <2>6, Pushing
    <2> QED
      BY <2>1, <2>7
  <1>13. Expected(Append(cs, c), m)
    BY <1>3, <1>11 DEF NextExpr
  <1> QED
    BY <1>12, <1>13, Expecting

LEMMA ExprStep ==
  ASSUME Inv, fc_expr
  PROVE  Inv'
  <1>1. Good(contexts, machine, text) /\ Top.kind = "call" /\ Top.last = 0
    BY DEF Inv, fc_expr, Parsing
  <1>2. CASE Tok # ")"
    <2>1. Silently(Push(NewParse), machine)
      BY <1>2 DEF fc_expr
    <2>2. Waits(Top, NewParse)
      BY <1>1 DEF Waits
    <2>3. Good(Push(NewParse), machine, text)
      BY <1>1, <2>2, Beginning DEF Good
    <2> QED
      BY <2>1, <2>3, Keeping
  <1>3. CASE Tok = ")"
    <2>1. Reject(FUNCTION_SEMANTICS) \/ EndCall(machine)
      BY <1>3 DEF fc_expr
    <2>2. Runs(machine, machine, 0 - Top.last)
      <3>1. 0 - Top.last = 0
        BY <1>1
      <3> QED
        BY <1>1, <3>1, RunsFacts DEF Good
    <2> QED
      BY <1>1, <1>3, <2>1, <2>2, EndCalls, Ending
  <1> QED
    BY <1>2, <1>3

LEMMA OtherExprEndStep ==
  ASSUME Inv, fc_other_expr_end
  PROVE  Inv'
  <1>1. Good(contexts, machine, text) /\ Top.kind = "call" /\ Tok = ")"
    BY DEF Inv, fc_other_expr_end, Parsing
  <1>2. PICK n \in Nat : n = Top.last
    BY <1>1, OtherTop
  <1>3. PICK m : m = PassLast(machine)
    OBVIOUS
  <1>4. Runs(machine, m, 0 - n)
    BY <1>1, <1>2, <1>3, PassLastRuns DEF Good
  <1>5. EndCall(m) \/ Reject(FUNCTION_SEMANTICS)
    BY <1>3 DEF fc_other_expr_end
  <1> QED
    BY <1>1, <1>2, <1>4, <1>5, EndCalls, Ending

LEMMA OtherExprStep ==
  ASSUME Inv, fc_other_expr
  PROVE  Inv'
  <1>1. Good(contexts, machine, text) /\ Top.kind = "call" /\ Top.last > 0
    BY DEF Inv, fc_other_expr, Parsing
  <1>2. PICK n \in Nat \ {0} : n = Top.last
    BY <1>1, OtherTop
  <1>3. PICK m : m = PassFirst(machine)
    OBVIOUS
  <1>4. Runs(machine, m, 0 - n)
    BY <1>1, <1>2, <1>3, PassFirstRuns DEF Good
  <1>5. NextExpr(m) \/ \E e : Reject(e)
    BY <1>3 DEF fc_other_expr
  <1>6. Runs(machine, m, (IF Top.kind = "assign" THEN 1 ELSE 0) - Top.last)
    BY <1>1, <1>2, <1>4
  <1> QED
    BY <1>1, <1>5, <1>6, NextExprs, Ending

(***************************************************************************)
(* The steps of returns and assignments.                                   *)
(***************************************************************************)
LEMMA PassReturnRuns ==
  ASSUME NEW m, IsMachine(m), NEW i
  PROVE  Runs(m, pass_return(m, i), -1)
  <1>1. PICK k, x : k = POPS(m) /\ x = ReturnVar(i)
    OBVIOUS
  <1>2. Runs(m, k, -1) /\ IsMachine(k)
    BY <1>1, PopRuns DEF Runs
  <1>3. PICK n, l : n = [k EXCEPT !.lf = l] /\ l = [k.lf EXCEPT ![x] = k.result]
    OBVIOUS
  <1>4. SameData(k, n)
    BY <1>2, <1>3, SameFacts
  <1>5. pass_return(m, i) = Execute(k, x \in DOMAIN k.lf, n, UNDEFINED_VARIABLE)
    BY <1>1, <1>3 DEF pass_return, MoveToLF
  <1>6. Runs(k, pass_return(m, i), 0)
    BY <1>2, <1>4, <1>5, ExecuteSame, RunsFacts, Faults
  <1> QED
    BY <1>2, <1>6, RunsThrough

LEMMA ReturnStep ==
  ASSUME Inv, r_other_expr
  PROVE  Inv'
  <1>1. Good(contexts, machine, text) /\ Top.kind = "return" /\ Top.last > 0
    BY DEF Inv, r_other_expr, Parsing
  <1>2. PICK n \in Nat \ {0} : n = Top.last
    BY <1>1, OtherTop
  <1>3. PICK c, m : c = clear_expressions(machine, n) /\ m = pass_return(c, Top.cnt)
    OBVIOUS
  <1>4. Runs(machine, c, 1 - n) /\ IsMachine(c)
    BY <1>1, <1>2, <1>3, ClearRuns DEF Good, Runs
  <1>5. Runs(c, m, -1)
    BY <1>3, <1>4, PassReturnRuns
  <1>6. 1 - n \in Int /\ -1 \in Int /\ 0 - n = (1 - n) + (-1)
    OBVIOUS
  <1>7. Runs(machine, m, 0 - n)
    BY <1>1, <1>4, <1>5, <1>6, RunsThrough DEF Good
  <1>8. Runs(machine, m, (IF Top.kind = "assign" THEN 1 ELSE 0) - Top.last)
    BY <1>1, <1>2, <1>7
  <1>9. NextExpr(m) \/ Reject(FUNCTION_SEMANTICS)
    BY <1>2, <1>3 DEF r_other_expr
  <1> QED
    BY <1>1, <1>8, <1>9, NextExprs, Ending

LEMMA FirstIdStep ==
  ASSUME Inv, assign_id
  PROVE  Inv'
  <1>1. Good(contexts, machine, text) /\ Top.kind = "function"
    BY DEF Inv, assign_id, Parsing
  <1>2. CASE Tok \notin Variables
    <2>1. Reject(DEFINITION)
      BY <1>2 DEF assign_id
    <2> QED
      BY <2>1, Ending
  <1>3. CASE Tok \in Variables
    <2>1. PICK c : c = Context("assign", "", <<Tok>>)
      OBVIOUS
    <2>2. Expected(Replace(c), machine)
      BY <1>3, <2>1 DEF assign_id
    <2>3. ContextOK(c) /\ c.kind = "assign" /\ Held(c) = 0 /\ \A t : TokOK(c, t)
      BY <2>1, ContextsAreNew
    <2>4. Held(Top) = 0
      <3>1. OtherOK(Top) /\ Held(Top) = Top.last
        BY <1>1, OtherTop
      <3> QED
        BY <1>1, <3>1 DEF OtherOK
    <2>5. Runs(machine, machine, 0) /\ 0 \in Int /\ Held(c) = Held(Top) + 0
      BY <1>1, <2>3, <2>4, RunsFacts DEF Good
    <2>6. ASSUME NEW x PROVE Good(Replace(c), machine, Append(text, x))
      <3>1. PICK t : t = Append(text, x)
        OBVIOUS
      <3>2. IsText(t) /\ TokOK(c, t)
        BY <1>1, <2>3, <3>1, TextNext DEF Good
      <3>3. Good(Replace(c), machine, t)
        BY <1>1, <2>3, <2>5, <3>2, Replacing
      <3> QED
        BY <3>1, <3>3
    <2> QED
      BY <2>2, <2>6, Expecting
  <1> QED
    BY <1>2, <1>3

LEMMA OtherIdStep ==
  ASSUME Inv, a_other_id
  PROVE  Inv'
  <1>1. Good(contexts, machine, text) /\ Top.kind = "assign" /\ Top.last = 0
    BY DEF Inv, a_other_id, Parsing
  <1>2. \/ Expected(Push(NewParse), machine)
        \/ \E y : /\ AdvanceOver(y)
                  /\ Proceed(Replace([Top EXCEPT !.ids = Prepended(y, @)]), machine)
        \/ \E e : Reject(e)
    BY DEF a_other_id
  <1>3. CASE Expected(Push(NewParse), machine)
    <2>1. Waits(Top, NewParse)
      BY <1>1 DEF Waits
    <2>2. \A x : Good(Push(NewParse), machine, Append(text, x))
      BY <1>1, <2>1, Beginning, TextNext DEF Good
    <2> QED
      BY <1>3, <2>2, Expecting
  <1>4. ASSUME NEW y, AdvanceOver(y),
               Proceed(Replace([Top EXCEPT !.ids = Prepended(y, @)]), machine)
        PROVE  Inv'
    <2>1. PICK t, z : t = text \o <<y, z>> /\ text' = t
      BY <1>4 DEF AdvanceOver
    <2>2. PICK c, ids : c = [Top EXCEPT !.ids = ids] /\ ids = Prepended(y, Top.ids)
      OBVIOUS
    <2>3. contexts' = Replace(c) /\ machine' = machine
      BY <1>4, <2>2 DEF Proceed
    <2>4. OtherOK(Top)
      BY <1>1, OtherTop
    <2>5. PICK k, u, i, j, l : Top = OtherRecord(k, u, i, j, l)
      BY <2>4 DEF OtherOK
    <2>6. c = OtherRecord(k, u, ids, j, l)
      BY <2>2, <2>5, IdsUpdate DEF OtherRecord
    <2>7. /\ c.kind = k /\ c.fun = u /\ c.ids = ids /\ c.cnt = j /\ c.last = l
          /\ Top.kind = k /\ Top.fun = u /\ Top.cnt = j /\ Top.last = l
      BY <2>5, <2>6, RecordFacts
    <2>8. OtherOK(c)
      BY <2>4, <2>6, <2>7 DEF OtherOK
    <2>9. Held(c) = Held(Top) + 0 /\ 0 \in Int
      <3>1. Held(c) = Held(Top)
        BY <2>4, <2>7, <2>8, ContextFacts
      <3>2. Held(Top) \in Nat
        BY <2>4, ContextFacts
      <3> QED
        BY <3>1, <3>2
    <2>10. ContextOK(c) /\ c.kind = Top.kind /\ TokOK(c, t)
      BY <1>1, <2>7, <2>8 DEF ContextOK, TokOK
    <2>11. Runs(machine, machine, 0) /\ IsText(t)
      BY <1>1, <2>1, RunsFacts, TextOver DEF Good
    <2>12. Good(Replace(c), machine, t)
      BY <1>1, <2>9, <2>10, <2>11, Replacing
    <2> QED
      BY <2>1, <2>3, <2>12 DEF Inv
  <1> QED
    BY <1>2, <1>3, <1>4, Ending

LEMMA AssignStep ==
  ASSUME Inv, a_other_expr
  PROVE  Inv'
  <1>1. Good(contexts, machine, text) /\ Top.kind = "assign" /\ Top.last > 0
    BY DEF Inv, a_other_expr, Parsing
  <1>2. PICK n \in Nat \ {0} : n = Top.last
    BY <1>1, OtherTop
  <1>3. PICK m : m = clear_expressions(machine, n)
    OBVIOUS
  <1>4. Runs(machine, m, 1 - n)
    BY <1>1, <1>2, <1>3, ClearRuns DEF Good
  <1>5. Runs(machine, m, (IF Top.kind = "assign" THEN 1 ELSE 0) - Top.last)
    BY <1>1, <1>2, <1>4
  <1>6. NextExpr(m)
    BY <1>2, <1>3 DEF a_other_expr
  <1> QED
    BY <1>1, <1>5, <1>6, NextExprs

(***************************************************************************)
(* The theorem.                                                            *)
(***************************************************************************)
LEMMA OneIsSeq ==
  ASSUME NEW x, NEW t, t = <<x>>
  PROVE  IsSeq(t) /\ Len(t) = 1 /\ t[1] = x
  <1>1. PICK S : S = {x}
    OBVIOUS
  <1>2. t \in Seq(S) /\ Len(t) = 1 /\ t[1] = x
    BY <1>1
  <1> QED
    BY <1>2 DEF IsSeq

LEMMA AppendToOne ==
  ASSUME NEW c, NEW b
  PROVE  Append(<<c>>, b) = <<c, b>>
  <1>1. PICK S : S = {c, b}
    OBVIOUS
  <1>2. c \in S /\ b \in S
    BY <1>1
  <1>3. <<c>> \in Seq(S) /\ Len(<<c>>) = 1
    BY <1>2
  <1>4. PICK o, p : o = <<c>> /\ p = Append(o, b)
    OBVIOUS
  <1>5. p \in Seq(S) /\ Len(p) = 2 /\ p[1] = c /\ p[2] = b
    BY <1>2, <1>3, <1>4
  <1>6. <<c, b>> \in Seq(S) /\ Len(<<c, b>>) = 2
    BY <1>2
  <1>7. PICK q : q = <<c, b>>
    OBVIOUS
  <1>8. q \in Seq(S) /\ Len(q) = 2 /\ q[1] = c /\ q[2] = b
    BY <1>6, <1>7
  <1>9. p = q
    BY <1>5, <1>8, SeqEqual
  <1> QED
    BY <1>4, <1>7, <1>9

LEMMA Initially ==
  ASSUME Init
  PROVE  Inv
  <1>1. PICK s, x : s \in Statements /\ contexts = Begin(s) /\ text = <<x>>
    BY DEF Init
  <1>2. machine = Started(Locals)
    BY DEF Init
  <1>3. IsText(text)
    BY <1>1, OneIsSeq DEF IsText
  <1>4. IsMachine(machine) /\ machine.fault = NoFault /\ Len(machine.data) = 0
    <2>1. PICK d, l, t, r : /\ d = <<>> /\ t = <<>> /\ l = Locals /\ r = Nil
                            /\ machine = StateOf(d, t, l, r, d, NoFault)
      BY <1>2 DEF Started, StateOf
    <2>2. IsSeq(d) /\ Len(d) = 0
      BY <2>1 DEF IsSeq
    <2>3. IsMachine(machine)
      BY <2>1, <2>2 DEF IsMachine
    <2> QED
      BY <2>1, <2>2, <2>3, FieldFacts
  <1>5. s \in {"default", "return", "function", "global"}
    BY <1>1, TokensAssumption
  <1>6. PICK c, b, one : /\ c = Context(s, "", <<>>) /\ b = NewParse /\ one = <<c>>
    OBVIOUS
  <1>7. /\ ContextOK(c) /\ c.kind = s /\ c.last = 0 /\ Held(c) = 0
        /\ \A t : TokOK(c, t)
    BY <1>5, <1>6, ContextsAreNew
  <1>8. Good(one, machine, text)
    <2>1. Len(one) = 1 /\ one[1] = c /\ IsSeq(one)
      BY <1>6, OneIsSeq
    <2>2. ContextsOK(one)
      <3>1. \A i \in 1..Len(one) : ContextOK(one[i])
        BY <1>7, <2>1
      <3>2. \A i \in 2..Len(one) : Waits(one[i-1], one[i])
        BY <2>1
      <3>3. one[1].kind \notin {"parse", "call"}
        BY <1>5, <1>7, <2>1
      <3> QED
        BY <2>1, <3>1, <3>2, <3>3 DEF ContextsOK
    <2>3. AllHeld(one) = 0
      <3>1. \A i \in 1..Len(one) : ContextOK(one[i])
        BY <1>7, <2>1
      <3>2. /\ AllHeld(one) = HeldBy(one, 1) /\ HeldBy(one, 0) = 0
            /\ HeldBy(one, 1) = HeldBy(one, 1 - 1) + Held(one[1])
        <4>1. Len(one) \in Nat /\ 1 \in 1..Len(one) /\ Len(one) = 1
          BY <2>1
        <4> QED
          BY <3>1, <4>1, HeldFacts
      <3> QED
        BY <1>7, <2>1, <3>2
    <2>4. TokOK(one[Len(one)], text)
      BY <1>7, <2>1
    <2> QED
      BY <1>3, <1>4, <2>2, <2>3, <2>4 DEF Good
  <1>9. CASE s \in {"default", "return"}
    <2>1. contexts = Append(one, b)
      <3>1. contexts = <<c, b>>
        BY <1>1, <1>6, <1>9 DEF Begin
      <3> QED
        BY <1>6, <3>1, AppendToOne
    <2>2. ContextOK(b) /\ b.kind = "parse" /\ Held(b) = 0 /\ TokOK(b, text)
      BY <1>6, NewParseFacts
    <2>3. one[Len(one)] = c /\ Waits(c, b)
      BY <1>6, <1>7, <1>9 DEF Waits
    <2>4. Runs(machine, machine, 0)
      BY <1>4, RunsFacts
    <2>5. Good(Append(one, b), machine, text)
      BY <1>3, <1>8, <2>2, <2>3, <2>4, Pushing
    <2> QED
      BY <2>1, <2>5 DEF Inv
  <1>10. CASE s \notin {"default", "return"}
    <2>1. contexts = one
      BY <1>1, <1>6, <1>10 DEF Begin
    <2> QED
      BY <1>8, <2>1 DEF Inv
  <1> QED
    BY <1>9, <1>10

LEMMA Stepwise ==
  ASSUME Inv, Separated(text), [Next]_vars
  PROVE  Inv'
  <1>1. CASE Parse
    <2>1. CASE parse_function_undefined \/ precedence_error \/ reduce_types \/ reduce_syntax
      <3>1. \E e : Reject(e)
        BY <2>1 DEF parse_function_undefined, precedence_error, reduce_types, reduce_syntax
      <3> QED
        BY <3>1, Ending
    <2> QED
      BY <1>1, <2>1, ParensStep, ShiftStep, ReduceStep, ParensEndStep, InitEndStep DEF Parse
  <1>2. CASE Call
    <2>1. CASE global_expression_undefined
      BY <2>1, Ending DEF global_expression_undefined
    <2> QED
      BY <1>2, <2>1, CallStep, ExprStep, OtherExprEndStep, OtherExprStep DEF Call
  <1>3. CASE Return_expressions
    <2>1. CASE r_other_expr_end
      <3>1. (\E m : Accept(m)) \/ (\E e : Reject(e))
        BY <2>1 DEF r_other_expr_end
      <3> QED
        BY <3>1, Ending
    <2> QED
      BY <1>3, <2>1, ReturnStep DEF Return_expressions
  <1>4. CASE Function_expression
    <2>1. CASE a_other_expr_end
      <3>1. \E m : Accept(m)
        BY <2>1 DEF a_other_expr_end, check_multiple_assignment
      <3> QED
        BY <3>1, Ending
    <2> QED
      BY <1>4, <2>1, FirstIdStep, OtherIdStep, AssignStep DEF Function_expression
  <1>5. CASE default_expression_end
    BY <1>5, Ending DEF default_expression_end
  <1>6. CASE Terminating \/ UNCHANGED vars
    BY <1>6 DEF Terminating, vars, Inv
  <1> QED
    BY <1>1, <1>2, <1>3, <1>4, <1>5, <1>6 DEF Next

(* As long as the text has no `)' followed by `(', the data stack holds,   *)
(* whatever is parsed, the values of the expressions on the precedence     *)
(* stacks and of those not yet used: no call, operator, argument or        *)
(* assignment leaves a value behind or takes one that is not its own.      *)
THEOREM StackCorrect == Spec /\ []Separated(text) => []StackIsTheParse
  <1>1. Init => Inv
    BY Initially
  <1>2. Inv /\ Separated(text) /\ [Next]_vars => Inv'
    BY Stepwise
  <1>3. Inv => StackIsTheParse
    BY DEF Inv, Good, StackIsTheParse
  <1> QED
    BY <1>1, <1>2, <1>3, PTL DEF Spec
=============================================================================
